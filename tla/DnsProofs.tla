------------------------------- MODULE DnsProofs -------------------------------
(***************************************************************************)
(* Proofs about the DNS service and its reader of responses.               *)
(*                                                                         *)
(* The reader keeps to its packet and to its buffers, whatever the bytes   *)
(* are and wherever pointers lead (NamesFitTheirBuffers), and gives back a *)
(* question that a response repeats (QuestionsReadBack).                   *)
(*                                                                         *)
(* For any number of segments and of ids in one, any names and records and *)
(* any responses, lost, repeated or late, the service stays as ServiceInv  *)
(* says (ServiceTypeOK), and an id is occupied only for a request that has *)
(* not had its answer (IdsAreAwaited).  It is the store of names that the  *)
(* module NameCache says (IsANameCache).                                   *)
(***************************************************************************)
EXTENDS DnsService, DnsMessage, BasicLemmas

-----------------------------------------------------------------------------
(* The reader of responses. *)

(* A record under way.  That no name outgrows the buffers rests on the count *)
(* of its bytes being the text's length, also over the pointers in it.       *)
Record == [name : Seq(Byte), meta : Meta \cup {NoMeta}]

MessageInv ==
    /\ packet \in Seq(Byte)
    /\ header \in Seq(Item) /\ todo \in Seq(Item)
    /\ doing \in {"header", "returned", "qname", "tail", "name", "meta", "rdata", "cname"}
    /\ doing \notin {"header", "returned"} => todo # << >>
    /\ offset \in Nat /\ offset <= Len(packet)
    /\ at \in Nat /\ start \in Nat
    /\ jumped \in BOOLEAN
    /\ total_length \in Nat /\ total_length <= DNML + 1
    /\ domain \in Seq(Byte)
    /\ ReadingName => Len(domain) = IF Kept THEN total_length ELSE 0
    /\ rr \in Record /\ Len(rr.name) <= DNML
    /\ outcome \in {"none", "released", "failed"}

LEMMA ByteIsNat == \A x \in Byte : x \in Nat
  BY DEF Byte

LEMMA TargetIsNat == \A x, y \in Byte : (x % 64) * 256 + y \in Nat
  BY DEF Byte

LEMMA DotIsByte == DOT \in Byte
  BY DEF DOT, Byte

LEMMA Numbers ==
    /\ HEADER_SIZE \in Nat /\ FIELD_SIZE \in Nat /\ META_SIZE \in Nat /\ DNML \in Nat
    /\ \A meta \in Meta \cup {NoMeta} : meta.rdlength \in Nat
  BY MessageAssumption DEF NoMeta

(* What is in the packet is a byte. *)
LEMMA BytesOf ==
    ASSUME NEW p \in Seq(Byte), NEW o \in Nat, o + 1 <= Len(p)
    PROVE  p[o + 1] \in Byte
<1>1. o + 1 \in 1..Len(p)
  OBVIOUS
<1> QED
  BY <1>1, ElementOfSeq

(* The bytes from i on to before j. *)
LEMMA Part ==
    ASSUME NEW p \in Seq(Byte), NEW i \in Nat, NEW j \in Nat, i <= j, j <= Len(p)
    PROVE  SubSeq(p, i + 1, j) \in Seq(Byte) /\ Len(SubSeq(p, i + 1, j)) = j - i
<1>1. \A k \in (i + 1)..j : p[k] \in Byte
  <2> SUFFICES ASSUME NEW k \in (i + 1)..j PROVE p[k] \in Byte
    OBVIOUS
  <2>1. k \in 1..Len(p)
    OBVIOUS
  <2> QED
    BY <2>1, ElementOfSeq
<1>2. SubSeq(p, i + 1, j) \in Seq(Byte)
      /\ Len(SubSeq(p, i + 1, j)) = IF i + 1 <= j THEN j - (i + 1) + 1 ELSE 0
  BY <1>1, SubSeqProperties
<1> QED
  BY <1>2

LEMMA Beginning ==
    ASSUME NEW p \in Seq(Byte), NEW j \in Nat, j <= Len(p)
    PROVE  SubSeq(p, 1, j) \in Seq(Byte) /\ Len(SubSeq(p, 1, j)) = j
<1>1. \A k \in 1..j : p[k] \in Byte
  BY ElementOfSeq
<1> QED
  BY <1>1, SubSeqProperties

LEMMA MessageInvInit == MessageInit => MessageInv
<1> SUFFICES ASSUME MessageInit PROVE MessageInv
  OBVIOUS
<1>1. packet \in Seq(Byte)
  BY MessageAssumption DEF MessageInit
<1>2. header \in Seq(Item)
  BY DEF MessageInit, Responses
<1>3. Len(packet) \in Nat /\ << >> \in Seq(Byte) /\ Len(<< >>) = 0
  BY <1>1
<1>4. rr \in Record /\ rr.name = << >>
  BY <1>3 DEF MessageInit, Record
<1>5. 0 <= DNML /\ 0 <= DNML + 1 /\ 0 <= Len(packet)
  BY <1>3, Numbers
<1>6. ~ReadingName
  BY DEF MessageInit, ReadingName
<1> QED
  BY <1>1, <1>2, <1>3, <1>4, <1>5, <1>6 DEF MessageInit, MessageInv

(* The next item, or the end of the response. *)
LEMMA NextItem ==
    ASSUME MessageInv, NEW o \in Nat, o <= Len(packet), NEW items \in Seq(Item), GoesOn(o, items),
           UNCHANGED <<packet, header, rr, start>>
    PROVE  MessageInv'
<1>1. /\ offset' = o /\ todo' = items /\ at' = o /\ jumped' = FALSE /\ total_length' = 0
      /\ domain' = << >>
      /\ \/ doing' = "returned" /\ outcome' = "released"
         \/ doing' \in {"qname", "name"} /\ items # << >> /\ outcome' = outcome
  BY DEF GoesOn
<1>2. << >> \in Seq(Byte) /\ Len(<< >>) = 0 /\ 0 <= DNML + 1
  BY Numbers
<1>3. doing' \in {"returned", "qname", "name"}
      /\ (doing' \notin {"header", "returned"} => todo' # << >>)
      /\ outcome' \in {"none", "released", "failed"}
  BY <1>1 DEF MessageInv
<1>4. Len(domain') = IF Kept' THEN total_length' ELSE 0
  BY <1>1, <1>2
<1>5. total_length' \in Nat /\ total_length' <= DNML + 1 /\ domain' \in Seq(Byte)
  BY <1>1, <1>2
<1>6. at' \in Nat /\ jumped' \in BOOLEAN /\ offset' \in Nat /\ offset' <= Len(packet')
  BY <1>1
<1> QED
  BY <1>1, <1>3, <1>4, <1>5, <1>6 DEF MessageInv

LEMMA Failing == ASSUME MessageInv, Fails PROVE MessageInv'
  BY DEF MessageInv, Fails, reading, ReadingName

(* A label fits the name. *)
LEMMA LabelStep == ASSUME MessageInv, Label PROVE MessageInv'
<1> DEFINE n == At(at)
<1>1. /\ ReadingName /\ at + 1 <= Len(packet) /\ n \in 1..63
      /\ at + (1 + n) <= Len(packet) /\ ~(total_length + n > DNML)
  BY DEF Label, Has, IsLabel, TakesLabel, TooLong
<1> HIDE DEF n
<1>2. n \in Nat /\ 1 <= n
  BY <1>1
<1>3. at' = at + 1 + n /\ at' \in Nat /\ at' <= Len(packet)
  <2>1. at' = at + 1 + n
    BY DEF Label, n
  <2>2. at \in Nat /\ Len(packet) \in Nat
    BY DEF MessageInv
  <2> QED
    BY <1>1, <1>2, <2>1, <2>2
<1>4. offset' = IF jumped THEN offset ELSE at'
  BY DEF Label
<1>5. /\ UNCHANGED <<packet, header, todo, doing, jumped, rr, start, outcome>>
      /\ total_length' = total_length + n + (IF Kept THEN 1 ELSE 0)
      /\ domain' = IF Kept THEN domain \o SubSeq(packet, at + 2, at') \o <<DOT>> ELSE domain
  BY DEF Label, n
<1>6. total_length' \in Nat /\ total_length' <= DNML + 1
      /\ (Kept => total_length' = total_length + n + 1)
  <2>1. total_length \in Nat
    BY DEF MessageInv
  <2> QED
    BY <1>1, <1>2, <1>5, <2>1, Numbers
<1>7. domain' \in Seq(Byte) /\ (Kept => Len(domain') = Len(domain) + n + 1)
  <2>1. SubSeq(packet, at + 2, at') \in Seq(Byte) /\ Len(SubSeq(packet, at + 2, at')) = n
    <3>1. packet \in Seq(Byte) /\ at + 1 \in Nat /\ (at + 1) + 1 = at + 2
          /\ at + 1 <= at' /\ at' - (at + 1) = n
      BY <1>2, <1>3 DEF MessageInv
    <3> QED
      BY <1>3, <3>1, Part
  <2>2. domain \in Seq(Byte) /\ <<DOT>> \in Seq(Byte) /\ Len(<<DOT>>) = 1
    BY DotIsByte DEF MessageInv
  <2>3. domain \o SubSeq(packet, at + 2, at') \in Seq(Byte)
        /\ Len(domain \o SubSeq(packet, at + 2, at')) = Len(domain) + n
    BY <2>1, <2>2, ConcatProperties
  <2>4. domain \o SubSeq(packet, at + 2, at') \o <<DOT>> \in Seq(Byte)
        /\ Len(domain \o SubSeq(packet, at + 2, at') \o <<DOT>>) = (Len(domain) + n) + 1
    BY <2>2, <2>3, ConcatProperties
  <2> QED
    BY <1>5, <2>2, <2>4
<1>8. Len(domain') = IF Kept THEN total_length' ELSE 0
  BY <1>1, <1>5, <1>6, <1>7 DEF MessageInv
<1>9. offset' \in Nat /\ offset' <= Len(packet)
  BY <1>3, <1>4 DEF MessageInv
<1> QED
  BY <1>3, <1>5, <1>6, <1>7, <1>8, <1>9 DEF MessageInv, ReadingName, Kept

LEMMA PointerStep == ASSUME MessageInv, Pointer PROVE MessageInv'
<1>1. at \in Nat /\ at + 2 <= Len(packet) /\ packet \in Seq(Byte) /\ Len(packet) \in Nat
  BY DEF MessageInv, Pointer, Has
<1>2. at' \in Nat
  <2>1. at + 1 <= Len(packet) /\ at + 1 \in Nat /\ (at + 1) + 1 <= Len(packet)
    BY <1>1
  <2>2. At(at) \in Byte /\ At(at + 1) \in Byte
    BY <1>1, <2>1, BytesOf DEF At
  <2> QED
    BY <2>2, TargetIsNat DEF Pointer, Target
<1>3. offset' \in Nat /\ offset' <= Len(packet)
  BY <1>1 DEF MessageInv, Pointer
<1>4. UNCHANGED <<packet, header, todo, doing, total_length, domain, rr, start, outcome>>
      /\ jumped' = TRUE
  BY DEF Pointer
<1> QED
  BY <1>2, <1>3, <1>4 DEF MessageInv, ReadingName, Kept

(* What a name leaves behind. *)
LEMMA NameRead ==
    ASSUME MessageInv, AtNameEnd
    PROVE  /\ AfterName \in Nat /\ AfterName <= Len(packet)
           /\ Text \in Seq(Byte) /\ (Kept => Len(Text) <= DNML)
<1>1. AfterName \in Nat /\ AfterName <= Len(packet)
  BY DEF MessageInv, AtNameEnd, Has, AfterName
<1>2. CASE domain = << >>
  BY <1>1, <1>2, Numbers DEF Text
<1>3. CASE domain # << >>
  <2>1. domain \in Seq(Byte) /\ Len(domain) \in Nat /\ Len(domain) # 0
    BY <1>3, EmptySeq DEF MessageInv
  <2>2. Text = SubSeq(domain, 1, Len(domain) - 1) /\ Len(domain) - 1 \in Nat
    BY <1>3, <2>1 DEF Text
  <2>3. Text \in Seq(Byte) /\ Len(Text) = Len(domain) - 1
    <3>1. \A j \in Nat : j <= Len(domain) =>
             SubSeq(domain, 1, j) \in Seq(Byte) /\ Len(SubSeq(domain, 1, j)) = j
      BY <2>1, Beginning
    <3>2. Len(domain) - 1 <= Len(domain)
      BY <2>1
    <3> QED
      BY <2>2, <3>1, <3>2
  <2>4. Kept => Len(domain) <= DNML + 1
    BY DEF MessageInv, AtNameEnd
  <2> QED
    BY <1>1, <2>1, <2>3, <2>4, Numbers
<1> QED
  BY <1>2, <1>3

LEMMA MessageInvNext == ASSUME MessageInv, MessageNext PROVE MessageInv'
<1>1. CASE HeaderIsRead
  <2>1. HEADER_SIZE <= Len(packet) /\ header \in Seq(Item)
    BY <1>1, Numbers DEF HeaderIsRead, Has, MessageInv
  <2> QED
    BY <1>1, <2>1, NextItem, Numbers DEF HeaderIsRead
<1>2. CASE HeaderFails \/ NameFails \/ MetaFails \/ DataFails \/ AliasFails
  BY <1>2, Failing DEF HeaderFails, NameFails, MetaFails, DataFails, AliasFails
<1>3. CASE Label
  BY <1>3, LabelStep
<1>4. CASE Pointer
  BY <1>4, PointerStep
<1>5. CASE QuestionNameEnds
  BY <1>5, NameRead DEF QuestionNameEnds, MessageInv, reading, ReadingName
<1>6. CASE QuestionEnds
  <2>1. todo # << >> /\ Tail(todo) \in Seq(Item)
    BY <1>6 DEF QuestionEnds, MessageInv
  <2>2. offset \in Nat /\ offset <= Len(packet) /\ FIELD_SIZE \in Nat
    BY Numbers DEF MessageInv
  <2>3. PICK o \in Nat : o <= Len(packet) /\ GoesOn(o, Tail(todo))
    BY <1>6, <2>2 DEF QuestionEnds, Has
  <2> QED
    BY <1>6, <2>1, <2>3, NextItem DEF QuestionEnds
<1>7. CASE NameEnds
  <2>1. /\ offset' \in Nat /\ offset' <= Len(packet)
        /\ Text \in Seq(Byte) /\ Len(Text) <= DNML
    BY <1>7, NameRead DEF NameEnds, Kept
  <2>2. rr' \in Record /\ Len(rr'.name) <= DNML
    BY <1>7, <2>1 DEF NameEnds, MessageInv, Record
  <2> QED
    BY <1>7, <2>1, <2>2 DEF NameEnds, MessageInv, reading, ReadingName
<1>8. ASSUME NEW meta \in Meta, MetaIsRead(meta)
      PROVE  MessageInv'
  <2>1. offset' \in Nat /\ offset' <= Len(packet) /\ start' = offset'
    BY <1>8, Numbers DEF MetaIsRead, Has, MessageInv
  <2>2. rr' \in Record /\ rr'.name = rr.name
    BY <1>8 DEF MetaIsRead, MessageInv, Record
  <2>3. CASE meta.type = "CNAME"
    <3>1. << >> \in Seq(Byte) /\ Len(<< >>) = 0 /\ 0 <= DNML + 1
      BY Numbers
    <3> QED
      <4>1. /\ doing' = "cname" /\ at' \in Nat /\ jumped' = FALSE
            /\ total_length' = 0 /\ domain' = << >> /\ todo # << >>
            /\ UNCHANGED <<packet, header, todo, outcome>>
        BY <1>8, <2>1, <2>3 DEF MetaIsRead, MessageInv
      <4>2. Len(domain') = IF Kept' THEN total_length' ELSE 0
        BY <3>1, <4>1
      <4> QED
        BY <2>1, <2>2, <3>1, <4>1, <4>2 DEF MessageInv
  <2>4. CASE meta.type # "CNAME"
    BY <1>8, <2>1, <2>2, <2>4 DEF MetaIsRead, MessageInv, reading, ReadingName
  <2> QED
    BY <2>3, <2>4
<1>9. CASE DataEnds
  <2>1. todo # << >> /\ Tail(todo) \in Seq(Item)
    BY <1>9 DEF DataEnds, MessageInv
  <2>2. rr.meta.rdlength \in Nat
    BY Numbers DEF MessageInv, Record
  <2>3. offset + rr.meta.rdlength \in Nat /\ offset + rr.meta.rdlength <= Len(packet)
    BY <1>9, <2>2 DEF DataEnds, DataIsThere, Has, MessageInv
  <2> QED
    BY <1>9, <2>1, <2>3, NextItem DEF DataEnds, RecordEnds
<1>10. CASE AliasEnds
  <2>1. todo # << >> /\ Tail(todo) \in Seq(Item)
    BY <1>10 DEF AliasEnds, MessageInv
  <2>2. AfterName \in Nat /\ AfterName <= Len(packet)
    BY <1>10, NameRead DEF AliasEnds
  <2> QED
    BY <1>10, <2>1, <2>2, NextItem DEF AliasEnds, RecordEnds
<1>11. CASE Returned
  BY <1>11 DEF Returned, messageVars, reading, MessageInv, ReadingName, Kept
<1> QED
  BY <1>1, <1>2, <1>3, <1>4, <1>5, <1>6, <1>7, <1>8, <1>9, <1>10, <1>11
     DEF MessageNext, Reads

(* Whatever comes: nothing is read past the packet, and no name is written   *)
(* past the DNML + 2 bytes that there are for it, though every label of it   *)
(* may be somewhere else and be read again and again.                        *)
THEOREM NamesFitTheirBuffers == MessageSpec => []MessageTypeOK
<1>1. MessageInv /\ UNCHANGED messageVars => MessageInv'
  BY DEF messageVars, reading, MessageInv, ReadingName, Kept
<1>2. MessageInv /\ [MessageNext]_messageVars => MessageInv'
  BY <1>1, MessageInvNext
<1>3. MessageInv => MessageTypeOK
  <2> SUFFICES ASSUME MessageInv PROVE MessageTypeOK
    OBVIOUS
  <2>1. offset \in 0..Len(packet) /\ total_length \in 0..(DNML + 1)
    BY Numbers DEF MessageInv
  <2>2. rr.name \in Seq(Byte) /\ rr.meta \in Meta \cup {NoMeta}
    BY DEF MessageInv, Record
  <2> QED
    BY <2>1, <2>2 DEF MessageInv, MessageTypeOK
<1> QED
  BY <1>2, <1>3, MessageInvInit, PTL DEF MessageSpec

-----------------------------------------------------------------------------
(* The service. *)

(* Numbers of 16 bits are told apart by their bits. *)
Number == 0..SS_UINT16_MAX

LEMMA BitsDetermine ==
    \A m, n \in Number : (\A k \in DOMAIN Weight : Bit(m, k) <=> Bit(n, k)) => m = n
<1> SUFFICES ASSUME NEW m \in Number, NEW n \in Number,
                    \A k \in DOMAIN Weight : Bit(m, k) <=> Bit(n, k)
             PROVE  m = n
  OBVIOUS
<1>1. \A a, b \in Nat : (a % 2 = 1 <=> b % 2 = 1) /\ a \div 2 = b \div 2 => a = b
  OBVIOUS
<1>2. /\ (m \div 1) % 2 = 1 <=> (n \div 1) % 2 = 1
      /\ (m \div 2) % 2 = 1 <=> (n \div 2) % 2 = 1
      /\ (m \div 4) % 2 = 1 <=> (n \div 4) % 2 = 1
      /\ (m \div 8) % 2 = 1 <=> (n \div 8) % 2 = 1
      /\ (m \div 16) % 2 = 1 <=> (n \div 16) % 2 = 1
      /\ (m \div 32) % 2 = 1 <=> (n \div 32) % 2 = 1
      /\ (m \div 64) % 2 = 1 <=> (n \div 64) % 2 = 1
      /\ (m \div 128) % 2 = 1 <=> (n \div 128) % 2 = 1
      /\ (m \div 256) % 2 = 1 <=> (n \div 256) % 2 = 1
      /\ (m \div 512) % 2 = 1 <=> (n \div 512) % 2 = 1
      /\ (m \div 1024) % 2 = 1 <=> (n \div 1024) % 2 = 1
      /\ (m \div 2048) % 2 = 1 <=> (n \div 2048) % 2 = 1
      /\ (m \div 4096) % 2 = 1 <=> (n \div 4096) % 2 = 1
      /\ (m \div 8192) % 2 = 1 <=> (n \div 8192) % 2 = 1
      /\ (m \div 16384) % 2 = 1 <=> (n \div 16384) % 2 = 1
      /\ (m \div 32768) % 2 = 1 <=> (n \div 32768) % 2 = 1
  <2>1. \A k \in 1..16 : (m \div Weight[k]) % 2 = 1 <=> (n \div Weight[k]) % 2 = 1
    BY DEF Bit, Weight
  <2> QED
    BY <2>1 DEF Weight
<1>3. m \in Nat /\ n \in Nat /\ m \div 32768 \in 0..1 /\ n \div 32768 \in 0..1
  <2>1. m \in Int /\ n \in Int /\ 0 <= m /\ 0 <= n /\ m <= SS_UINT16_MAX /\ n <= SS_UINT16_MAX
    BY DEF Number
  <2> QED
    BY <2>1 DEF SS_UINT16_MAX
<1>4. m \div 32768 = n \div 32768
  BY <1>2, <1>3
<1>5. m \div 16384 = n \div 16384
  BY <1>1, <1>2, <1>3, <1>4, (m \div 16384) \div 2 = m \div 32768, (n \div 16384) \div 2 = n \div 32768
<1>6. m \div 8192 = n \div 8192
  BY <1>1, <1>2, <1>3, <1>5, (m \div 8192) \div 2 = m \div 16384, (n \div 8192) \div 2 = n \div 16384
<1>7. m \div 4096 = n \div 4096
  BY <1>1, <1>2, <1>3, <1>6, (m \div 4096) \div 2 = m \div 8192, (n \div 4096) \div 2 = n \div 8192
<1>8. m \div 2048 = n \div 2048
  BY <1>1, <1>2, <1>3, <1>7, (m \div 2048) \div 2 = m \div 4096, (n \div 2048) \div 2 = n \div 4096
<1>9. m \div 1024 = n \div 1024
  BY <1>1, <1>2, <1>3, <1>8, (m \div 1024) \div 2 = m \div 2048, (n \div 1024) \div 2 = n \div 2048
<1>10. m \div 512 = n \div 512
  BY <1>1, <1>2, <1>3, <1>9, (m \div 512) \div 2 = m \div 1024, (n \div 512) \div 2 = n \div 1024
<1>11. m \div 256 = n \div 256
  BY <1>1, <1>2, <1>3, <1>10, (m \div 256) \div 2 = m \div 512, (n \div 256) \div 2 = n \div 512
<1>12. m \div 128 = n \div 128
  BY <1>1, <1>2, <1>3, <1>11, (m \div 128) \div 2 = m \div 256, (n \div 128) \div 2 = n \div 256
<1>13. m \div 64 = n \div 64
  BY <1>1, <1>2, <1>3, <1>12, (m \div 64) \div 2 = m \div 128, (n \div 64) \div 2 = n \div 128
<1>14. m \div 32 = n \div 32
  BY <1>1, <1>2, <1>3, <1>13, (m \div 32) \div 2 = m \div 64, (n \div 32) \div 2 = n \div 64
<1>15. m \div 16 = n \div 16
  BY <1>1, <1>2, <1>3, <1>14, (m \div 16) \div 2 = m \div 32, (n \div 16) \div 2 = n \div 32
<1>16. m \div 8 = n \div 8
  BY <1>1, <1>2, <1>3, <1>15, (m \div 8) \div 2 = m \div 16, (n \div 8) \div 2 = n \div 16
<1>17. m \div 4 = n \div 4
  BY <1>1, <1>2, <1>3, <1>16, (m \div 4) \div 2 = m \div 8, (n \div 4) \div 2 = n \div 8
<1>18. m \div 2 = n \div 2
  BY <1>1, <1>2, <1>3, <1>17, (m \div 2) \div 2 = m \div 4, (n \div 2) \div 2 = n \div 4
<1>19. m \div 1 = n \div 1
  BY <1>1, <1>2, <1>3, <1>18, (m \div 1) \div 2 = m \div 2, (n \div 1) \div 2 = n \div 2
<1> QED
  BY <1>3, <1>19

(* seg | tid is the number of a bit again, so that only the ids of the first *)
(* segment are ever used, and next_tid starts in the first or the second.    *)
IdInv == tid_flags \subseteq 0..(SEGMENT_SIZE - 1) /\ next_tid \in 0..SEGMENT_SIZE

LEMMA OrValues == (\A n \in Number : BitOr(0, n) = n) /\ BitOr(1, 0) = 1
<1> DEFINE Either(x, m, n) == \A k \in DOMAIN Weight : Bit(x, k) <=> (Bit(m, k) \/ Bit(n, k))
<1>1. \A m, n, y \in Number : Either(y, m, n) => BitOr(m, n) = y
  <2> SUFFICES ASSUME NEW m \in Number, NEW n \in Number, NEW y \in Number, Either(y, m, n)
               PROVE  BitOr(m, n) = y
    OBVIOUS
  <2>1. BitOr(m, n) = CHOOSE x \in Number : Either(x, m, n)
    BY DEF BitOr, Number
  <2> DEFINE x == CHOOSE x \in Number : Either(x, m, n)
  <2>2. x \in Number /\ Either(x, m, n)
    OBVIOUS
  <2> HIDE DEF x
  <2>3. \A k \in DOMAIN Weight : Bit(x, k) <=> Bit(y, k)
    BY <2>2
  <2>4. x = y
    BY <2>2, <2>3, BitsDetermine
  <2> QED
    BY <2>1, <2>4 DEF x
<1>2. \A k \in DOMAIN Weight : ~Bit(0, k)
  BY DEF Bit, Weight
<1>3. 0 \in Number /\ 1 \in Number
  BY DEF Number, SS_UINT16_MAX
<1>4. \A n \in Number : Either(n, 0, n)
  BY <1>2
<1>5. Either(1, 1, 0)
  BY <1>2
<1> HIDE DEF Either
<1> QED
  BY <1>1, <1>3, <1>4, <1>5

LEMMA SizeFacts ==
    /\ SEGMENT_SIZE \in Nat /\ 2 <= SEGMENT_SIZE /\ SEGMENTS \in Nat /\ SEGMENTS >= 3
    /\ SS_UINT16_MAX \in Nat /\ SEGMENT_SIZE <= SS_UINT16_MAX + 1
<1>1. SS_UINT16_MAX \in Nat
  BY DEF SS_UINT16_MAX
<1> QED
  BY <1>1, SizeAssumption

LEMMA BitsAreNumbers == \A b \in 0..(SEGMENT_SIZE - 1) : b \in Number
  BY SizeFacts DEF Number

LEMMA IdFacts ==
    ASSUME IdInv
    PROVE  /\ \A seg \in SegmentsSeen : seg < SEGMENTS - 1
           /\ HasNextTid => NextTid \in 0..(SEGMENT_SIZE - 1)
<1> DEFINE S == SEGMENT_SIZE
           From == Segment(next_tid)
<1>1. S \in Nat /\ 2 <= S /\ SEGMENTS \in Nat /\ SEGMENTS >= 3
  BY SizeFacts
<1>2. From \in {0, 1}
  <2>1. next_tid \in Nat /\ next_tid <= S
    BY <1>1 DEF IdInv
  <2>2. CASE next_tid = S
    BY <1>1, <2>2, S \div S = 1 DEF Segment
  <2>3. CASE next_tid < S
    BY <1>1, <2>1, <2>3, next_tid \div S = 0 DEF Segment
  <2> QED
    BY <1>1, <2>1, <2>2, <2>3
<1>3. FreeBits(1) = 0..(S - 1)
  <2>1. \A b \in 0..(S - 1) : 1 * S + b \notin tid_flags
    BY <1>1 DEF IdInv
  <2> QED
    BY <2>1 DEF FreeBits
<1> HIDE DEF From
<1>4. SegmentsSeen \subseteq {0, 1}
  <2> SUFFICES ASSUME NEW i \in Turns PROVE (From + i) % SEGMENTS \in {0, 1}
    BY DEF SegmentsSeen, From
  <2>1. i \in 0..(SEGMENTS - 1) /\ \A j \in 0..(i - 1) : FreeBits((From + j) % SEGMENTS) = {}
    BY DEF Turns, From
  <2>0. FreeBits(1) # {}
    BY <1>1, <1>3, 0 \in 0..(S - 1)
  <2>2. 0 % SEGMENTS = 0 /\ 1 % SEGMENTS = 1
    BY <1>1
  <2>3. CASE From = 1
    <3>1. ~(0 \in 0..(i - 1))
      <4>1. (From + 0) % SEGMENTS = 1
        BY <2>2, <2>3
      <4> QED
        BY <2>0, <2>1, <4>1
    <3>2. i = 0
      BY <1>1, <2>1, <3>1
    <3> QED
      BY <2>2, <2>3, <3>2
  <2>4. CASE From = 0
    <3>1. ~(1 \in 0..(i - 1))
      <4>1. (From + 1) % SEGMENTS = 1
        BY <2>2, <2>4
      <4> QED
        BY <2>0, <2>1, <4>1
    <3>2. i = 0 \/ i = 1
      BY <1>1, <2>1, <3>1
    <3> QED
      BY <2>2, <2>4, <3>2
  <2> QED
    BY <1>2, <2>3, <2>4
<1>5. ASSUME HasNextTid PROVE NextTid \in 0..(S - 1)
  <2> DEFINE seg == CHOOSE seg \in SegmentsSeen : FreeBits(seg) # {}
             bit == Min(FreeBits(seg))
  <2>1. seg \in SegmentsSeen /\ FreeBits(seg) # {}
    BY <1>5 DEF HasNextTid
  <2>2. NextTid = BitOr(seg, bit)
    BY DEF NextTid
  <2> HIDE DEF seg
  <2>3. FreeBits(seg) \in SUBSET (0..(S - 1)) /\ FreeBits(seg) \in SUBSET Nat
    BY <1>1 DEF FreeBits
  <2>4. bit \in FreeBits(seg) /\ \A b \in FreeBits(seg) : bit <= b
    <3>1. \E b \in FreeBits(seg) : \A c \in FreeBits(seg) : b <= c
      BY <2>1, <2>3, Least
    <3> QED
      BY <3>1 DEF Min
  <2> HIDE DEF bit
  <2>5. bit \in 0..(S - 1)
    BY <2>3, <2>4
  <2>6. CASE seg = 0
    <3>1. bit \in Number
      BY <2>5, BitsAreNumbers
    <3> QED
      BY <2>2, <2>5, <2>6, <3>1, OrValues
  <2>7. CASE seg = 1
    <3>1. 0 \in FreeBits(seg)
      BY <1>1, <1>3, <2>7
    <3>2. bit = 0
      BY <2>4, <2>5, <3>1
    <3> QED
      BY <1>1, <2>2, <2>7, <3>2, OrValues
  <2> QED
    BY <1>4, <2>1, <2>6, <2>7
<1> QED
  BY <1>1, <1>4, <1>5

(* What the store holds, and what a look-up has in hand. *)
StoreRecord == [type : {"ADDR"}, data : Address, expire : Nat]
               \cup [type : {"CNAME"}, data : Name, expire : Nat]
EntryBy(t) == [last_request : 0..t, list : Seq(StoreRecord)]
Entries == [Name -> {None} \cup EntryBy(now)]
Looks == [at : Name \cup {None}, found : Address \cup {None}, known : Entries]

LEMMA FreshTyped ==
    ASSUME NEW list \in Seq(StoreRecord), now \in Nat
    PROVE  Fresh(list) \in Seq(StoreRecord)
<1> DEFINE live == {i \in DOMAIN list : list[i].expire >= now}
<1>1. live \in SUBSET Nat
  OBVIOUS
<1>2. CASE live = {}
  BY <1>2 DEF Fresh
<1>3. CASE live # {}
  <2>1. Fresh(list) = SubSeq(list, Min(live), Len(list))
    BY <1>3 DEF Fresh
  <2> HIDE DEF live
  <2>2. PICK x \in live : \A y \in live : x <= y
    BY <1>1, <1>3, Least
  <2>3. Min(live) \in live
    BY <2>2 DEF Min
  <2>4. Min(live) \in 1..Len(list)
    BY <2>3 DEF live
  <2> DEFINE m == Min(live)
  <2>5. \A j \in m..Len(list) : list[j] \in StoreRecord
    BY <2>4
  <2> HIDE DEF m
  <2>6. SubSeq(list, m, Len(list)) \in Seq(StoreRecord)
    BY <2>4, <2>5, LenProperties, SubSeqProperties DEF m
  <2> QED
    BY <2>1, <2>6 DEF m
<1> QED
  BY <1>2, <1>3

LEMMA WithListTyped ==
    ASSUME NEW known \in Entries, NEW n \in Name, NEW list \in Seq(StoreRecord), now \in Nat
    PROVE  /\ [known EXCEPT ![n] = WithList(@, list)] \in Entries
           /\ known[n] # None => [known EXCEPT ![n].list = list] \in Entries
           /\ ListOf(known[n]) \in Seq(StoreRecord)
<1>1. known[n] # None => known[n] \in EntryBy(now)
  BY DEF Entries
<1>2. NewEntry \in EntryBy(now)
  BY DEF NewEntry, EntryBy
<1>3. \A entry \in EntryBy(now) : [entry EXCEPT !.list = list] \in EntryBy(now)
  BY DEF EntryBy
<1>4. WithList(known[n], list) \in EntryBy(now)
  BY <1>1, <1>2, <1>3 DEF WithList
<1>5. known[n] # None => [known[n] EXCEPT !.list = list] \in EntryBy(now)
  BY <1>1, <1>3
<1>6. ListOf(known[n]) \in Seq(StoreRecord)
  BY <1>1 DEF ListOf, EntryBy
<1>7. \A entry \in EntryBy(now) : [known EXCEPT ![n] = entry] \in Entries
  BY DEF Entries
<1> QED
  BY <1>4, <1>5, <1>6, <1>7

LEMMA CallTyped ==
    ASSUME now \in Nat
    PROVE  \A look \in Looks : Call(look) \in Looks
<1> TAKE look \in Looks
<1>1. /\ look.at \in Name \cup {None} /\ look.found \in Address \cup {None}
      /\ look.known \in Entries
      /\ look = [at |-> look.at, found |-> look.found, known |-> look.known]
  BY DEF Looks
<1>2. CASE look.at = None \/ look.known[look.at] = None
  <2>1. Call(look) = [look EXCEPT !.at = None]
    BY <1>2 DEF Call
  <2>2. [look EXCEPT !.at = None] = [at |-> None, found |-> look.found, known |-> look.known]
    BY DEF Looks
  <2> QED
    BY <1>1, <2>1, <2>2 DEF Looks
<1>3. CASE look.at # None /\ look.known[look.at] # None
  <2> DEFINE n == look.at
             known == look.known
             fresh == Fresh(known[n].list)
             used == Head(fresh)
             alias == fresh # << >> /\ used.type = "CNAME"
             list == IF fresh = << >> THEN << >> ELSE Append(Tail(fresh), used)
  <2>1. n \in Name /\ known \in Entries /\ known[n] # None
    BY <1>1, <1>3
  <2>2. known[n].list \in Seq(StoreRecord)
    BY <2>1 DEF Entries, EntryBy
  <2>3. fresh \in Seq(StoreRecord)
    BY <2>2, FreshTyped
  <2>4. fresh # << >> => used \in StoreRecord /\ Tail(fresh) \in Seq(StoreRecord)
    BY <2>3, HeadTailProperties
  <2>5. Call(look) = [at |-> IF alias THEN used.data ELSE None,
                      found |-> IF fresh = << >> \/ alias THEN None ELSE used.data,
                      known |-> [known EXCEPT ![n].list = list]]
    BY <1>3 DEF Call
  <2> HIDE DEF fresh, used
  <2>6. list \in Seq(StoreRecord)
    BY <2>3, <2>4, AppendProperties
  <2>7. alias => used.data \in Name
    BY <2>4 DEF StoreRecord
  <2>8. ~(fresh = << >> \/ alias) => used.data \in Address
    BY <2>4 DEF StoreRecord
  <2> HIDE DEF n, known, list, alias
  <2>9. [known EXCEPT ![n].list = list] \in Entries
    BY <2>1, <2>6, WithListTyped
  <2> QED
    BY <2>5, <2>7, <2>8, <2>9 DEF Looks
<1> QED
  BY <1>2, <1>3

LEMMA LookUpUnfolds ==
    ASSUME now \in Nat, entries \in Entries, NEW n \in Name
    PROVE  \E after : /\ LookUp(n) = after[MaxCalls]
                      /\ after[0] = [at |-> n, found |-> None, known |-> entries]
                      /\ \A i \in 1..MaxCalls : after[i] = Call(after[i - 1])
<1> DEFINE x == [at |-> n, found |-> None, known |-> entries]
           Is(f) == f = [i \in 0..MaxCalls |-> IF i = 0 THEN x ELSE Call(f[i - 1])]
           step == [p \in Looks \X Nat |-> Call(p[1])]
<1>1. x \in Looks
  BY DEF Looks
<1>2. MaxCalls \in Nat
  BY SizeAssumption
<1>3. step \in [Looks \X Nat -> Looks]
  BY CallTyped
<1>4. \A look \in Looks, i \in Nat : step[<<look, i>>] = Call(look)
  OBVIOUS
<1> HIDE DEF x, step
<1>5. PICK f \in [0..MaxCalls -> Looks] : Recurs(f, MaxCalls, x, step)
  BY <1>1, <1>2, <1>3, Recursion
<1>6. Is(f)
  <2>1. \A i \in 0..MaxCalls : i # 0 => f[i - 1] \in Looks /\ i \in Nat
    BY <1>2
  <2>2. \A i \in 0..MaxCalls :
           (IF i = 0 THEN x ELSE step[<<f[i - 1], i>>]) = (IF i = 0 THEN x ELSE Call(f[i - 1]))
    BY <1>4, <2>1
  <2> QED
    BY <1>5, <2>2 DEF Recurs
<1> DEFINE after == CHOOSE g : Is(g)
<1>7. Is(after)
  BY <1>6
<1>8. LookUp(n) = after[MaxCalls]
  BY DEF LookUp, x
<1> HIDE DEF after
<1>9. after[0] = x /\ \A i \in 1..MaxCalls : after[i] = Call(after[i - 1])
  BY <1>2, <1>7
<1> QED
  BY <1>8, <1>9 DEF x

LEMMA LookUpTyped ==
    ASSUME now \in Nat, entries \in Entries, NEW n \in Name
    PROVE  LookUp(n) \in Looks
<1>1. PICK after : /\ LookUp(n) = after[MaxCalls]
                   /\ after[0] = [at |-> n, found |-> None, known |-> entries]
                   /\ \A i \in 1..MaxCalls : after[i] = Call(after[i - 1])
  BY LookUpUnfolds
<1>2. after[0] \in Looks
  BY <1>1 DEF Looks
<1>3. \A i \in 1..MaxCalls : after[i - 1] \in Looks => after[i] \in Looks
  BY <1>1, CallTyped
<1>4. MaxCalls \in Nat
  BY SizeAssumption
<1>5. after[MaxCalls] \in Looks
  BY <1>2, <1>3, <1>4, StaysIn
<1> QED
  BY <1>1, <1>5

(* Records are learned with their time to live. *)
(* The records of a list that have not expired. *)
Alive(list) == {r \in ToSet(list) : r.expire >= now}

LEMMA AliveOf ==
    ASSUME NEW list \in Seq(StoreRecord)
    PROVE  /\ Alive(list) \subseteq StoreRecord
           /\ \A r : r \in Alive(list) <=> \E i \in DOMAIN list : list[i] = r /\ r.expire >= now
  BY DEF Alive, ToSet

LEMMA UnexpiredIsAlive ==
    ASSUME NEW list \in Seq(StoreRecord), now \in Nat
    PROVE  Unexpired(list) \in Seq(StoreRecord) /\ Alive(Unexpired(list)) = Alive(list)
<1> DEFINE X == Seq(StoreRecord)
           n == Len(list)
           Next1(s, i) == IF list[i].expire < now THEN s ELSE Append(s, list[i])
           Is(f) == f = [i \in 0..n |-> IF i = 0 THEN << >> ELSE Next1(f[i - 1], i)]
           step == [p \in X \X Nat |-> IF p[2] \in 1..n THEN Next1(p[1], p[2]) ELSE p[1]]
<1>1. << >> \in X /\ n \in Nat
  OBVIOUS
<1>2. \A s \in X, i \in 1..n : Next1(s, i) \in X
  OBVIOUS
<1>3. step \in [X \X Nat -> X]
  BY <1>2
<1>4. \A s \in X, i \in 1..n : step[<<s, i>>] = Next1(s, i)
  OBVIOUS
<1> HIDE DEF X, n, step, Next1
<1>5. PICK f \in [0..n -> X] : Recurs(f, n, << >>, step)
  BY <1>1, <1>3, Recursion
<1>6. Is(f)
  <2>1. \A i \in 0..n : i # 0 => f[i - 1] \in X /\ i \in 1..n
    BY <1>1
  <2>2. \A i \in 0..n :
           (IF i = 0 THEN << >> ELSE step[<<f[i - 1], i>>]) = (IF i = 0 THEN << >> ELSE Next1(f[i - 1], i))
    BY <1>4, <2>1
  <2> QED
    BY <1>5, <2>2 DEF Recurs
<1> DEFINE kept == CHOOSE g : Is(g)
<1>7. Is(kept)
  BY <1>6
<1>8. Unexpired(list) = kept[n]
  BY DEF Unexpired, n, Next1
<1> HIDE DEF kept
<1> DEFINE Upto(i) == {r \in StoreRecord : r.expire >= now /\ \E j \in 1..i : list[j] = r}
           Right(i) == kept[i] \in X /\ Alive(kept[i]) = Upto(i)
           Good == {i \in Nat : i <= n => Right(i)}
<1>9. 0 \in Good
  <2>1. kept[0] = << >>
    BY <1>1, <1>7
  <2>2. Alive(<< >>) = {} /\ Upto(0) = {}
    BY DEF Alive, ToSet
  <2> QED
    BY <1>1, <2>1, <2>2
<1>10. \A i \in Nat : i \in Good => i + 1 \in Good
  <2> HIDE DEF Right
  <2> SUFFICES ASSUME NEW i \in Nat, i \in Good, i + 1 <= n PROVE Right(i + 1)
    OBVIOUS
  <2>0. Right(i)
    BY <1>1
  <2> USE <2>0 DEF Right
  <2> DEFINE r == list[i + 1]
  <2>1. i + 1 \in 1..n /\ (i + 1) - 1 = i
    BY <1>1
  <2>2. kept[i + 1] = Next1(kept[i], i + 1)
    BY <1>1, <1>7, <2>1
  <2>3. r \in StoreRecord
    BY <2>1 DEF n
  <2>4. r.expire \in Nat
    BY <2>3 DEF StoreRecord
  <2>5. Upto(i + 1) = IF r.expire >= now THEN Upto(i) \cup {r} ELSE Upto(i)
    BY <2>3
  <2> HIDE DEF Upto
  <2>6. kept[i + 1] \in X
    BY <1>2, <2>1, <2>2
  <2> HIDE DEF r
  <2>7. CASE r.expire < now
    BY <2>2, <2>4, <2>5, <2>6, <2>7 DEF Next1, r
  <2>8. CASE ~(r.expire < now)
    <3>1. kept[i + 1] = Append(kept[i], r) /\ r.expire >= now
      BY <2>2, <2>4, <2>8 DEF Next1, r
    <3>2. kept[i] \in Seq(StoreRecord)
      BY DEF X
    <3>3. ToSet(Append(kept[i], r)) = ToSet(kept[i]) \cup {r}
      <4> DEFINE k == Len(kept[i])
                 s == Append(kept[i], r)
      <4>1. /\ k \in Nat /\ DOMAIN kept[i] = 1..k /\ DOMAIN s = 1..(k + 1)
            /\ s[k + 1] = r /\ \A j \in 1..k : s[j] = kept[i][j]
        BY <2>3, <3>2, AppendProperties
      <4> HIDE DEF s, k
      <4> QED
        BY <4>1 DEF ToSet, s
    <3>4. Alive(kept[i + 1]) = Alive(kept[i]) \cup {r}
      BY <3>1, <3>3 DEF Alive
    <3> QED
      BY <2>5, <2>6, <3>1, <3>4
  <2> QED
    BY <2>7, <2>8
<1> HIDE DEF Good
<1>11. n \in Good
  BY <1>1, <1>9, <1>10, Induct
<1>12. Upto(n) = Alive(list)
  BY AliveOf DEF n
<1> HIDE DEF Upto
<1>13. Right(n)
  BY <1>1, <1>11 DEF Good
<1> QED
  BY <1>8, <1>12, <1>13 DEF X

LEMMA UpdatedTyped ==
    ASSUME now \in Nat, NEW known \in Entries, NEW r \in Rr, r.ttl > 0
    PROVE  Updated(known, r) \in Entries
<1> DEFINE old == ListOf(known[r.name])
           new == [type |-> r.type, data |-> r.data, expire |-> now + r.ttl]
           same == {i \in DOMAIN old : old[i].type = r.type /\ old[i].data = r.data}
           renewed == [i \in DOMAIN old |-> IF i \in same THEN new ELSE old[i]]
           kept == Unexpired(renewed)
           list == IF same # {} THEN kept ELSE <<new>> \o kept
<1>1. r.name \in Name
  BY DEF Rr
<1>2. now + r.ttl \in Nat
  BY DEF Rr
<1>3. new \in StoreRecord
  BY <1>2 DEF Rr, StoreRecord
<1>4. old \in Seq(StoreRecord)
  BY <1>1, WithListTyped, << >> \in Seq(StoreRecord)
<1> HIDE DEF old, new, same
<1>5. renewed \in Seq(StoreRecord)
  <2>1. \A i \in DOMAIN old : renewed[i] \in StoreRecord
    BY <1>3, <1>4
  <2> QED
    BY <1>4, <2>1
<1> HIDE DEF renewed
<1>6. kept \in Seq(StoreRecord)
  BY <1>5, UnexpiredIsAlive
<1> HIDE DEF kept
<1>7. list \in Seq(StoreRecord)
  <2>1. <<new>> \in Seq(StoreRecord)
    BY <1>3
  <2> QED
    BY <1>6, <2>1, ConcatProperties
<1>8. Updated(known, r) = [known EXCEPT ![r.name] = WithList(@, list)]
  BY DEF Updated, old, new, same, renewed, kept
<1> HIDE DEF list
<1> DEFINE n == r.name
<1>9. n \in Name
  BY <1>1
<1> HIDE DEF n
<1>10. [known EXCEPT ![n] = WithList(@, list)] \in Entries
  BY <1>7, <1>9, WithListTyped
<1> QED
  BY <1>8, <1>10 DEF n

LEMMA LearnedUnfolds ==
    ASSUME now \in Nat, entries \in Entries, NEW answers \in Seq(Rr)
    PROVE  \E after : /\ Learned(answers) = after[Len(answers)]
                      /\ after[0] = entries
                      /\ \A i \in 1..Len(answers) :
                            after[i] = IF answers[i].ttl > 0 THEN Updated(after[i - 1], answers[i])
                                       ELSE after[i - 1]
<1> DEFINE n == Len(answers)
           Next1(k, i) == IF answers[i].ttl > 0 THEN Updated(k, answers[i]) ELSE k
           Is(f) == f = [i \in 0..n |-> IF i = 0 THEN entries ELSE Next1(f[i - 1], i)]
           step == [p \in Entries \X Nat |-> IF p[2] \in 1..n THEN Next1(p[1], p[2]) ELSE p[1]]
<1>1. n \in Nat
  OBVIOUS
<1>2. \A k \in Entries, i \in 1..n : Next1(k, i) \in Entries
  <2> TAKE k \in Entries, i \in 1..n
  <2>1. answers[i] \in Rr
    OBVIOUS
  <2> QED
    BY <2>1, UpdatedTyped
<1> HIDE DEF Next1
<1>3. step \in [Entries \X Nat -> Entries]
  BY <1>2
<1>4. \A k \in Entries, i \in 1..n : step[<<k, i>>] = Next1(k, i)
  OBVIOUS
<1> HIDE DEF n, step
<1>5. PICK f \in [0..n -> Entries] : Recurs(f, n, entries, step)
  BY <1>1, <1>3, Recursion
<1>6. Is(f)
  <2>1. \A i \in 0..n : i # 0 => f[i - 1] \in Entries /\ i \in 1..n
    BY <1>1
  <2>2. \A i \in 0..n :
           (IF i = 0 THEN entries ELSE step[<<f[i - 1], i>>]) = (IF i = 0 THEN entries ELSE Next1(f[i - 1], i))
    BY <1>4, <2>1
  <2> QED
    BY <1>5, <2>2 DEF Recurs
<1> DEFINE after == CHOOSE g : Is(g)
<1>7. Is(after)
  BY <1>6
<1>8. Learned(answers) = after[n]
  BY DEF Learned, n, Next1
<1> HIDE DEF after
<1>9. after[0] = entries /\ \A i \in 1..n : after[i] = Next1(after[i - 1], i)
  BY <1>1, <1>7
<1> QED
  BY <1>8, <1>9 DEF n, Next1

LEMMA LearnedTyped ==
    ASSUME now \in Nat, entries \in Entries, NEW answers \in Seq(Rr)
    PROVE  Learned(answers) \in Entries
<1> DEFINE n == Len(answers)
<1>1. PICK after : /\ Learned(answers) = after[n]
                   /\ after[0] = entries
                   /\ \A i \in 1..n : after[i] = IF answers[i].ttl > 0
                                                 THEN Updated(after[i - 1], answers[i])
                                                 ELSE after[i - 1]
  BY LearnedUnfolds
<1>2. n \in Nat /\ \A i \in 1..n : answers[i] \in Rr
  OBVIOUS
<1> HIDE DEF n
<1>3. \A i \in 1..n : after[i - 1] \in Entries => after[i] \in Entries
  BY <1>1, <1>2, UpdatedTyped
<1>4. after[0] \in Entries
  BY <1>1
<1> DEFINE P == Entries
<1>5. after[0] \in P /\ \A i \in 1..n : after[i - 1] \in P => after[i] \in P
  BY <1>3, <1>4
<1> HIDE DEF P
<1>6. \A i \in 0..n : after[i] \in P
  BY <1>2, <1>5, StaysIn
<1>7. n \in 0..n
  BY <1>2
<1> QED
  BY <1>1, <1>6, <1>7 DEF P

State == {"queued", "sent", "answered", "settled"}
RequestMade == [name : Name, tid : 0..(SEGMENT_SIZE - 1), state : State]

(* The invariant of the service: its store, ids, requests, send buffer and   *)
(* the responses to come.                                                    *)
StoreInv == now \in Nat /\ entries \in Entries /\ answer \in Address \cup {None} /\ crashed \in BOOLEAN

RequestInv == requests \in Seq(RequestMade)

Queued == {i \in DOMAIN requests : requests[i].state = "queued"}

BufferInv ==
    /\ send_buffer \in Seq(Nat)
    /\ Len(send_buffer) < SEND_BUFFER_PACKCAP
    /\ \A i, j \in DOMAIN send_buffer : i < j => send_buffer[i] < send_buffer[j]
    /\ ToSet(send_buffer) = Queued

ResponseInv ==
    \A response \in responses :
        /\ response.of \in DOMAIN requests
        /\ requests[response.of].state \in {"answered", "settled"}
        /\ response.answers \in Seq(Rr)

ServiceInv == StoreInv /\ IdInv /\ RequestInv /\ BufferInv /\ ResponseInv /\ OccupiedIsAwaited

LEMMA ServiceInvInit == Init => ServiceInv
<1> SUFFICES ASSUME Init PROVE ServiceInv
  OBVIOUS
<1>1. StoreInv
  BY SizeAssumption DEF Init, StoreInv, Entries
<1>2. IdInv /\ RequestInv /\ ResponseInv /\ OccupiedIsAwaited
  BY SizeAssumption DEF Init, IdInv, RequestInv, ResponseInv, OccupiedIsAwaited
<1>3. BufferInv
  BY SizeAssumption DEF Init, BufferInv, Queued, ToSet
<1> QED
  BY <1>1, <1>2, <1>3 DEF ServiceInv

LEMMA ServiceInvMeansTypeOK == ServiceInv => TypeOK
<1> SUFFICES ASSUME ServiceInv PROVE TypeOK
  OBVIOUS
<1>1. \A n \in Name : entries[n] = None \/
         /\ entries[n].last_request \in 0..now
         /\ \A i \in DOMAIN entries[n].list : entries[n].list[i].expire \in Nat
  <2> TAKE n \in Name
  <2>1. CASE entries[n] # None
    <3>1. entries[n].last_request \in 0..now /\ entries[n].list \in Seq(StoreRecord)
      BY <2>1 DEF ServiceInv, StoreInv, Entries, EntryBy
    <3>2. \A i \in DOMAIN entries[n].list : entries[n].list[i] \in StoreRecord
      BY <3>1
    <3> QED
      BY <3>1, <3>2 DEF StoreRecord
  <2> QED
    BY <2>1
<1>2. SEGMENT_SIZE \in Nat /\ SEGMENTS \in Nat /\ SEGMENT_SIZE >= 2 /\ SEGMENTS >= 3
  BY SizeFacts
<1>3. SEGMENT_SIZE * SEGMENTS \in Nat /\ SEGMENT_SIZE <= SEGMENT_SIZE * SEGMENTS
  BY <1>2
<1>4. tid_flags \subseteq Tid /\ next_tid \in 0..(SEGMENT_SIZE * SEGMENTS)
  BY <1>2, <1>3 DEF ServiceInv, IdInv, Tid
<1>5. \A seg \in SegmentsSeen : seg < SEGMENTS - 1
  BY IdFacts DEF ServiceInv
<1> QED
  BY <1>1, <1>4, <1>5 DEF TypeOK, ServiceInv, StoreInv, BufferInv, Queued, ResponseInv

LEMMA LookUpStep ==
    ASSUME ServiceInv, NEW n \in Name,
           UNCHANGED <<now, tid_flags, next_tid, send_buffer, requests, responses>>,
           entries' \in {entries, Looked(n)}, answer' \in {answer, Result(n), None},
           crashed' \in BOOLEAN
    PROVE  ServiceInv'
<1>1. LookUp(n) \in Looks
  BY LookUpTyped DEF ServiceInv, StoreInv
<1>2. Looked(n) \in Entries /\ Result(n) \in Address \cup {None}
  BY <1>1 DEF Looked, Result, Looks
<1>3. StoreInv'
  BY <1>2 DEF ServiceInv, StoreInv, Entries
<1>4. IdInv' /\ RequestInv' /\ BufferInv' /\ ResponseInv' /\ OccupiedIsAwaited'
  BY DEF ServiceInv, IdInv, RequestInv, BufferInv, Queued, ResponseInv, OccupiedIsAwaited
<1> QED
  BY <1>3, <1>4 DEF ServiceInv

(* A request is appended, and its id is occupied.                            *)
LEMMA RequestStep ==
    ASSUME ServiceInv, NEW n \in Name, NEW entry \in Name, Request(n, entry),
           UNCHANGED <<now, responses, crashed>>, answer' = None
    PROVE  ServiceInv'
<1> DEFINE r == [name |-> n, tid |-> NextTid, state |-> "queued"]
           m == Len(requests) + 1
<1>1. NextTid \in 0..(SEGMENT_SIZE - 1)
  BY IdFacts DEF ServiceInv, Request
<1>2. /\ tid_flags' = tid_flags \cup {NextTid} /\ next_tid' = NextTid + 1
      /\ requests' = Append(requests, r) /\ send_buffer' = Append(send_buffer, Len(requests'))
      /\ Len(send_buffer) + 1 < SEND_BUFFER_PACKCAP
  BY DEF Request
<1>3. SEGMENT_SIZE \in Nat
  BY SizeFacts
<1>4. r \in RequestMade /\ requests \in Seq(RequestMade)
  BY <1>1 DEF RequestMade, State, ServiceInv, RequestInv
<1>5. r.tid = NextTid /\ r.state = "queued"
  OBVIOUS
<1> HIDE DEF r
<1>6. /\ requests' \in Seq(RequestMade) /\ Len(requests') = m /\ m \in Nat
      /\ requests'[m] = r /\ DOMAIN requests' = DOMAIN requests \cup {m}
      /\ \A i \in DOMAIN requests : requests'[i] = requests[i] /\ i < m /\ i # m
  BY <1>2, <1>4
<1>7. IdInv'
  BY <1>1, <1>2, <1>3 DEF ServiceInv, IdInv
<1>8. StoreInv'
  <2>1. Looked(n) \in Entries
    <3>1. LookUp(n) \in Looks
      BY LookUpTyped DEF ServiceInv, StoreInv
    <3> QED
      BY <3>1 DEF Looked, Looks
  <2>2. now \in 0..now
    BY DEF ServiceInv, StoreInv
  <2> DEFINE known == Looked(n)
             old == IF known[entry] = None THEN NewEntry ELSE known[entry]
             new == [old EXCEPT !.last_request = now]
  <2>3. old \in EntryBy(now)
    BY <2>1, <2>2 DEF Entries, EntryBy, NewEntry
  <2>4. new \in EntryBy(now)
    BY <2>2, <2>3 DEF EntryBy
  <2>5. entries' = [known EXCEPT ![entry] = new]
    BY DEF Request
  <2> HIDE DEF known, new
  <2>6. entries' \in Entries
    BY <2>1, <2>4, <2>5 DEF Entries, known
  <2> QED
    BY <2>6 DEF ServiceInv, StoreInv, Entries
<1>9. Queued' = Queued \cup {m}
  BY <1>5, <1>6 DEF Queued
<1>10. BufferInv'
  <2> DEFINE b == Len(send_buffer) + 1
  <2>1. send_buffer \in Seq(Nat) /\ send_buffer' = Append(send_buffer, m)
    BY <1>2, <1>6 DEF ServiceInv, BufferInv
  <2>2. /\ send_buffer' \in Seq(Nat) /\ Len(send_buffer') = b /\ send_buffer'[b] = m
        /\ DOMAIN send_buffer' = DOMAIN send_buffer \cup {b} /\ b \in Nat
        /\ \A i \in DOMAIN send_buffer : send_buffer'[i] = send_buffer[i] /\ i < b
    BY <1>6, <2>1
  <2> HIDE DEF b, m
  <2>3. \A i \in DOMAIN send_buffer : send_buffer[i] < m
    BY <1>6 DEF ServiceInv, BufferInv, Queued, ToSet
  <2>4. \A i, j \in DOMAIN send_buffer' : i < j => send_buffer'[i] < send_buffer'[j]
    <3> SUFFICES ASSUME NEW i \in DOMAIN send_buffer', NEW j \in DOMAIN send_buffer', i < j
                 PROVE  send_buffer'[i] < send_buffer'[j]
      OBVIOUS
    <3>1. CASE j = b
      <4>1. i \in DOMAIN send_buffer
        BY <2>2, <3>1
      <4> QED
        BY <2>2, <2>3, <3>1, <4>1
    <3>2. CASE j \in DOMAIN send_buffer
      <4>1. i \in DOMAIN send_buffer
        BY <2>2, <3>2
      <4> QED
        BY <2>2, <3>2, <4>1 DEF ServiceInv, BufferInv
    <3> QED
      BY <2>2, <3>1, <3>2
  <2>5. ToSet(send_buffer') = ToSet(send_buffer) \cup {m}
    BY <2>2 DEF ToSet
  <2>6. ToSet(send_buffer)' = ToSet(send_buffer')
    BY DEF ToSet
  <2> QED
    BY <1>2, <1>9, <2>2, <2>4, <2>5, <2>6 DEF ServiceInv, BufferInv, b
<1>11. ResponseInv'
  BY <1>6 DEF ServiceInv, ResponseInv
<1>12. OccupiedIsAwaited'
  <2> SUFFICES ASSUME NEW tid \in tid_flags'
               PROVE  \E i \in DOMAIN requests' :
                         requests'[i].tid = tid /\ requests'[i].state # "settled"
    BY DEF OccupiedIsAwaited
  <2>1. CASE tid \in tid_flags
    BY <1>6, <2>1 DEF ServiceInv, OccupiedIsAwaited
  <2>2. CASE tid = NextTid
    BY <1>5, <1>6, <2>2
  <2> QED
    BY <1>2, <2>1, <2>2
<1> QED
  BY <1>6, <1>7, <1>8, <1>10, <1>11, <1>12 DEF ServiceInv, RequestInv

(* The state of one request changes.                                         *)
LEMMA StateChanges ==
    ASSUME RequestInv, NEW k \in DOMAIN requests, NEW state \in State,
           requests' = [requests EXCEPT ![k].state = state]
    PROVE  /\ RequestInv'
           /\ DOMAIN requests' = DOMAIN requests
           /\ \A i \in DOMAIN requests :
                 /\ requests'[i].tid = requests[i].tid
                 /\ requests'[i].state = IF i = k THEN state ELSE requests[i].state
<1> DEFINE Moved(r) == [r EXCEPT !.state = state]
<1>1. \A r \in RequestMade : Moved(r) \in RequestMade /\ Moved(r).tid = r.tid /\ Moved(r).state = state
  BY DEF RequestMade
<1>2. requests \in Seq(RequestMade) /\ requests' = [requests EXCEPT ![k] = Moved(requests[k])]
  BY DEF RequestInv
<1> HIDE DEF Moved
<1>3. \A i \in DOMAIN requests : requests[i] \in RequestMade
  BY <1>2
<1>4. /\ DOMAIN requests' = DOMAIN requests
      /\ \A i \in DOMAIN requests :
            requests'[i] = IF i = k THEN Moved(requests[i]) ELSE requests[i]
  BY <1>2
<1>5. requests' \in Seq(RequestMade)
  <2>1. k \in 1..Len(requests) /\ Moved(requests[k]) \in RequestMade
    BY <1>1, <1>2, <1>3
  <2> QED
    BY <1>2, <2>1, ExceptSeq
<1> QED
  BY <1>1, <1>3, <1>4, <1>5 DEF RequestInv

LEMMA ReceiveStep ==
    ASSUME ServiceInv, NEW response \in responses,
           ReceiveGood(response) \/ ReceiveRefused(response) \/ ReceiveBroken(response)
    PROVE  ServiceInv'
<1> DEFINE k == response.of
<1>1. /\ k \in DOMAIN requests /\ requests[k].state \in {"answered", "settled"}
      /\ response.answers \in Seq(Rr)
  BY DEF ServiceInv, ResponseInv
<1>2. Receive(response) /\ entries' \in {entries, Learned(response.answers)}
  BY DEF ReceiveGood, ReceiveRefused, ReceiveBroken
<1>3. StoreInv'
  <2>1. Learned(response.answers) \in Entries
    BY <1>1, LearnedTyped DEF ServiceInv, StoreInv
  <2> QED
    BY <1>2, <2>1 DEF ServiceInv, StoreInv, Entries, Receive
<1>4. /\ tid_flags' \subseteq tid_flags /\ UNCHANGED <<next_tid, send_buffer>>
      /\ responses' \subseteq responses
  BY <1>2 DEF ReceiveGood, ReceiveRefused, ReceiveBroken, Receive
<1>5. IdInv'
  BY <1>4 DEF ServiceInv, IdInv
<1>6. CASE UNCHANGED <<tid_flags, requests>>
  <2>1. RequestInv' /\ BufferInv' /\ ResponseInv' /\ OccupiedIsAwaited'
    BY <1>4, <1>6 DEF ServiceInv, RequestInv, BufferInv, Queued, ResponseInv, OccupiedIsAwaited
  <2> QED
    BY <1>3, <1>5, <2>1 DEF ServiceInv
<1>7. CASE ReceiveGood(response)
  <2>1. /\ tid_flags' = tid_flags \ {requests[k].tid}
        /\ requests' = [requests EXCEPT ![k].state = "settled"]
    BY <1>7 DEF ReceiveGood
  <2> HIDE DEF k
  <2>2. /\ RequestInv'
        /\ DOMAIN requests' = DOMAIN requests
        /\ \A i \in DOMAIN requests :
              /\ requests'[i].tid = requests[i].tid
              /\ requests'[i].state = IF i = k THEN "settled" ELSE requests[i].state
    BY <1>1, <2>1, StateChanges DEF ServiceInv, State
  <2>3. Queued' = Queued
    BY <1>1, <2>2 DEF Queued
  <2>4. BufferInv'
    BY <1>4, <2>3 DEF ServiceInv, BufferInv, ToSet
  <2>5. ResponseInv'
    BY <1>4, <2>2 DEF ServiceInv, ResponseInv
  <2>6. OccupiedIsAwaited'
    BY <2>1, <2>2 DEF ServiceInv, OccupiedIsAwaited
  <2> QED
    BY <1>3, <1>5, <2>2, <2>4, <2>5, <2>6 DEF ServiceInv
<1> QED
  BY <1>6, <1>7 DEF ReceiveRefused, ReceiveBroken

(* The answers of a response are records.                                    *)
LEMMA SectionTyped ==
    ASSUME NEW n
    PROVE  \A section \in SectionsFor(n) :
              /\ section \in Seq(Rr) /\ << >> \in Seq(Rr)
              /\ \A p \in Prefixes(section) : p \in Seq(Rr)
<1> TAKE section \in SectionsFor(n)
<1>1. section \in Seq(Rr)
  BY SectionAssumption DEF SectionsFor
<1>2. ASSUME NEW p \in Prefixes(section) PROVE p \in Seq(Rr)
  <2>1. PICK l \in 0..Len(section) : p = SubSeq(section, 1, l)
    BY DEF Prefixes
  <2>2. \A j \in 1..l : section[j] \in Rr
    BY <1>1
  <2> QED
    BY <1>1, <2>1, <2>2, SubSeqProperties
<1> QED
  BY <1>1, <1>2

LEMMA AnswerStep ==
    ASSUME ServiceInv, NEW k \in DOMAIN requests, Answer(k)
    PROVE  ServiceInv'
<1>1. /\ UNCHANGED <<now, entries, tid_flags, next_tid, send_buffer, crashed, answer>>
      /\ requests[k].state = "sent"
      /\ requests' = [requests EXCEPT ![k].state = "answered"]
  BY DEF Answer, service
<1>2. /\ RequestInv'
      /\ DOMAIN requests' = DOMAIN requests
      /\ \A i \in DOMAIN requests :
            /\ requests'[i].tid = requests[i].tid
            /\ requests'[i].state = IF i = k THEN "answered" ELSE requests[i].state
  BY <1>1, StateChanges DEF ServiceInv, State
<1>3. PICK response : /\ responses' = responses \cup {response} /\ response.of = k
                      /\ response.answers \in Seq(Rr)
  <2>1. PICK section \in SectionsFor(requests[k].name) :
           \E said \in {<<"good", section>>, <<"refused", << >> >>}
                       \cup {<<"broken", p>> : p \in Prefixes(section)} :
              responses' = responses \cup {[of |-> k, outcome |-> said[1], answers |-> said[2]]}
    BY DEF Answer
  <2>2. PICK said \in {<<"good", section>>, <<"refused", << >> >>}
                      \cup {<<"broken", p>> : p \in Prefixes(section)} :
           responses' = responses \cup {[of |-> k, outcome |-> said[1], answers |-> said[2]]}
    BY <2>1
  <2>3. said[2] \in Seq(Rr)
    <3>1. section \in Seq(Rr) /\ << >> \in Seq(Rr) /\ \A p \in Prefixes(section) : p \in Seq(Rr)
      BY SectionTyped
    <3>2. CASE said = <<"good", section>>
      <4>1. said[2] = section
        BY <3>2
      <4> QED
        BY <3>1, <4>1
    <3>4. CASE said = <<"refused", << >> >>
      <4>1. said[2] = << >>
        BY <3>4
      <4> QED
        BY <3>1, <4>1
    <3>3. CASE \E p \in Prefixes(section) : said = <<"broken", p>>
      BY <3>1, <3>3
    <3> QED
      BY <2>2, <3>2, <3>3, <3>4
  <2> DEFINE response == [of |-> k, outcome |-> said[1], answers |-> said[2]]
  <2>4. responses' = responses \cup {response} /\ response.of = k /\ response.answers = said[2]
    BY <2>2
  <2> HIDE DEF response
  <2> QED
    BY <2>3, <2>4
<1>4. StoreInv' /\ IdInv'
  BY <1>1 DEF ServiceInv, StoreInv, Entries, IdInv
<1>5. Queued' = Queued
  BY <1>1, <1>2 DEF Queued
<1>6. BufferInv'
  BY <1>1, <1>5 DEF ServiceInv, BufferInv, ToSet
<1>7. ResponseInv'
  BY <1>2, <1>3 DEF ServiceInv, ResponseInv
<1>8. OccupiedIsAwaited'
  BY <1>1, <1>2 DEF ServiceInv, OccupiedIsAwaited
<1> QED
  BY <1>2, <1>4, <1>6, <1>7, <1>8 DEF ServiceInv

LEMMA FlushStep == ASSUME ServiceInv, Flush PROVE ServiceInv'
<1>1. /\ UNCHANGED <<now, entries, tid_flags, next_tid, crashed, responses, answer>>
      /\ send_buffer' = << >>
      /\ requests' = [i \in DOMAIN requests |->
                        IF requests[i].state = "queued"
                        THEN [requests[i] EXCEPT !.state = "sent"] ELSE requests[i]]
  BY DEF Flush
<1>2. requests \in Seq(RequestMade)
  BY DEF ServiceInv, RequestInv
<1>3. \A i \in DOMAIN requests : requests[i] \in RequestMade
  BY <1>2
<1>4. \A i \in DOMAIN requests :
         /\ requests'[i] \in RequestMade
         /\ requests'[i].tid = requests[i].tid
         /\ requests'[i].state = IF requests[i].state = "queued" THEN "sent" ELSE requests[i].state
  BY <1>1, <1>3 DEF RequestMade, State
<1>5. DOMAIN requests' = DOMAIN requests /\ requests' \in Seq(RequestMade)
  BY <1>1, <1>2, <1>4
<1>6. StoreInv' /\ IdInv' /\ RequestInv'
  BY <1>1, <1>5 DEF ServiceInv, StoreInv, Entries, IdInv, RequestInv
<1>7. Queued' = {}
  BY <1>4, <1>5 DEF Queued
<1>8. BufferInv'
  BY <1>1, <1>7, SizeAssumption DEF BufferInv, ToSet
<1>9. ResponseInv'
  BY <1>1, <1>4, <1>5 DEF ServiceInv, ResponseInv
<1>10. OccupiedIsAwaited'
  BY <1>1, <1>4, <1>5 DEF ServiceInv, OccupiedIsAwaited
<1> QED
  BY <1>6, <1>8, <1>9, <1>10 DEF ServiceInv

LEMMA ServiceInvNext == ServiceInv /\ [Next]_vars => ServiceInv'
<1> SUFFICES ASSUME ServiceInv, [Next]_vars PROVE ServiceInv'
  OBVIOUS
<1>1. ASSUME NEW n \in Name,
             \/ Get(n) \/ LookUpOverflows(n) \/ FetchFinds(n)
             \/ FetchRefused(n) \/ FetchCrashes(n)
      PROVE  ServiceInv'
  <2>1. /\ UNCHANGED <<now, tid_flags, next_tid, send_buffer, requests, responses>>
        /\ entries' \in {entries, Looked(n)} /\ answer' \in {answer, Result(n), None}
        /\ crashed' \in BOOLEAN
    BY <1>1 DEF Get, LookUpOverflows, FetchFinds, FetchRefused, FetchCrashes, FetchMisses,
                ServiceInv, StoreInv
  <2> QED
    BY <2>1, LookUpStep
<1>2. ASSUME NEW n \in Name, FetchRequests(n) PROVE ServiceInv'
  BY <1>2, RequestStep DEF FetchRequests, FetchMisses, StaleEntry
<1>3. ASSUME NEW response \in responses,
             ReceiveGood(response) \/ ReceiveRefused(response) \/ ReceiveBroken(response)
      PROVE  ServiceInv'
  BY <1>3, ReceiveStep
<1>4. CASE Tick
  <2>1. now \in Nat /\ now' = now + 1 /\ UNCHANGED <<service, requests, responses, answer>>
    BY <1>4 DEF Tick, ServiceInv, StoreInv
  <2>2. EntryBy(now) \subseteq EntryBy(now')
    BY <2>1 DEF EntryBy
  <2>3. StoreInv'
    BY <2>1, <2>2 DEF ServiceInv, StoreInv, Entries, service
  <2>4. IdInv' /\ RequestInv' /\ BufferInv' /\ ResponseInv' /\ OccupiedIsAwaited'
    BY <2>1 DEF service, ServiceInv, IdInv, RequestInv, BufferInv, Queued, ResponseInv,
                OccupiedIsAwaited
  <2> QED
    BY <2>3, <2>4 DEF ServiceInv
<1>5. CASE Ended \/ UNCHANGED vars
  <2>1. UNCHANGED <<now, entries, tid_flags, next_tid, send_buffer, crashed, requests, responses, answer>>
    BY <1>5 DEF Ended, vars, service
  <2> QED
    BY <2>1 DEF ServiceInv, StoreInv, Entries, IdInv, RequestInv, BufferInv, Queued, ResponseInv,
                OccupiedIsAwaited
<1> QED
  BY <1>1, <1>2, <1>3, <1>4, <1>5, AnswerStep, FlushStep DEF Next

(* Whatever is asked, lost, late, repeated, refused, cut short or answered   *)
(* with aliases that lead anywhere: the entries hold records, a look-up      *)
(* finds an address or nothing, the send buffer keeps a block free and holds *)
(* the queued requests in order, and tid_flags is not read past its end.     *)
THEOREM ServiceTypeOK == Spec => []TypeOK
  BY ServiceInvInit, ServiceInvNext, ServiceInvMeansTypeOK, PTL DEF Spec

(* next_tid returns seg | tid, the or of two small numbers (ss_dns.c, line   *)
(* 919): of all the segments, only the ids of the first are ever occupied.   *)
THEOREM OneSegmentIsUsed == Spec => [](tid_flags \subseteq 0..(SEGMENT_SIZE - 1))
<1>1. ServiceInv => tid_flags \subseteq 0..(SEGMENT_SIZE - 1)
  BY DEF ServiceInv, IdInv
<1> QED
  BY <1>1, ServiceInvInit, ServiceInvNext, PTL DEF Spec

(* Whatever responses are lost, late, repeated, refused or cut short: no id  *)
(* is occupied but for a request whose answer has not been read to its end.  *)
THEOREM IdsAreAwaited == Spec => []OccupiedIsAwaited
<1>1. ServiceInv => OccupiedIsAwaited
  BY DEF ServiceInv
<1> QED
  BY <1>1, ServiceInvInit, ServiceInvNext, PTL DEF Spec

-----------------------------------------------------------------------------
(* The service as a cache of names. *)

LEMMA FreshIsAlive ==
    ASSUME NEW list \in Seq(StoreRecord), now \in Nat
    PROVE  /\ Fresh(list) = << >> => Alive(list) = {}
           /\ Fresh(list) # << >> => Head(Fresh(list)) \in Alive(list)
           /\ Fresh(list) # << >> => Alive(Append(Tail(Fresh(list)), Head(Fresh(list)))) = Alive(list)
<1> DEFINE live == {i \in DOMAIN list : list[i].expire >= now}
           n == Len(list)
<1>0. n \in Nat /\ DOMAIN list = 1..n /\ live \in SUBSET Nat
  OBVIOUS
<1>1. Alive(list) = {list[i] : i \in live}
  BY DEF Alive, ToSet
<1>2. CASE live = {}
  <2>1. Fresh(list) = << >>
    BY <1>2 DEF Fresh
  <2> QED
    BY <1>1, <1>2, <2>1
<1>3. CASE live # {}
  <2>1. Fresh(list) = SubSeq(list, Min(live), n)
    BY <1>3 DEF Fresh
  <2> DEFINE m == Min(live)
  <2>2. m \in live /\ \A y \in live : m <= y
    <3> HIDE DEF live
    <3>1. PICK x \in live : \A y \in live : x <= y
      BY <1>0, <1>3, Least
    <3> QED
      BY <3>1 DEF Min
  <2>3. m \in 1..n
    BY <2>2
  <2> HIDE DEF m
  <2> DEFINE fresh == Fresh(list)
             k == n - m
  <2>4. k \in Nat /\ n - m + 1 = k + 1 /\ n = m + k
    BY <1>0, <2>3
  <2>5. /\ fresh \in Seq(StoreRecord) /\ Len(fresh) = k + 1
        /\ \A j \in 1..(k + 1) : fresh[j] = list[m + j - 1]
    <3>1. \A j \in m..n : list[j] \in StoreRecord
      BY <1>0, <2>3
    <3>2. /\ SubSeq(list, m, n) \in Seq(StoreRecord)
          /\ Len(SubSeq(list, m, n)) = IF m <= n THEN n - m + 1 ELSE 0
          /\ \A j \in 1..(n - m + 1) : SubSeq(list, m, n)[j] = list[m + j - 1]
      BY <1>0, <2>3, <3>1, SubSeqProperties
    <3>3. fresh = SubSeq(list, m, n) /\ m <= n
      BY <1>0, <2>1, <2>3 DEF m
    <3> HIDE DEF fresh, n, k
    <3> QED
      BY <2>4, <3>2, <3>3
  <2> HIDE DEF fresh
  <2>6. fresh # << >> /\ Head(fresh) = list[m]
    <3>1. 1 \in 1..(k + 1) /\ m + 1 - 1 = m
      BY <2>3, <2>4
    <3>2. Head(fresh) = fresh[1] /\ fresh # << >>
      BY <2>4, <2>5, HeadTailProperties, EmptySeq
    <3> QED
      BY <2>5, <3>1, <3>2
  <2> DEFINE turned == Append(Tail(fresh), Head(fresh))
  <2>7. /\ Tail(fresh) \in Seq(StoreRecord) /\ Len(Tail(fresh)) = k
        /\ \A j \in 1..k : Tail(fresh)[j] = fresh[j + 1]
    BY <2>4, <2>5, <2>6, HeadTailProperties
  <2>8. Head(fresh) \in StoreRecord
    BY <2>5, <2>6, HeadTailProperties
  <2>9. /\ turned \in Seq(StoreRecord) /\ Len(turned) = k + 1 /\ turned[k + 1] = list[m]
        /\ \A j \in 1..k : turned[j] = list[m + j]
    <3>1. \A j \in 1..k : fresh[j + 1] = list[m + j]
      <4> TAKE j \in 1..k
      <4>1. j + 1 \in 1..(k + 1) /\ m + (j + 1) - 1 = m + j
        BY <2>3, <2>4
      <4> QED
        BY <2>5, <4>1
    <3> QED
      BY <2>6, <2>7, <2>8, <3>1, AppendProperties
  <2> HIDE DEF turned
  <2>10. Alive(turned) \subseteq Alive(list)
    <3> SUFFICES ASSUME NEW r \in Alive(turned) PROVE r \in Alive(list)
      OBVIOUS
    <3>1. PICK j \in 1..(k + 1) : turned[j] = r /\ r.expire >= now
      BY <2>9, AliveOf
    <3>2. PICK i \in 1..n : list[i] = r
      <4>1. CASE j = k + 1
        BY <2>3, <2>9, <3>1, <4>1
      <4>2. CASE j \in 1..k
        <5>1. m + j \in 1..n
          BY <1>0, <2>3, <2>4, <4>2
        <5> QED
          BY <2>9, <3>1, <4>2, <5>1
      <4> QED
        BY <2>4, <4>1, <4>2
    <3> QED
      BY <3>1, <3>2, AliveOf
  <2>11. Alive(list) \subseteq Alive(turned)
    <3> SUFFICES ASSUME NEW i \in live PROVE list[i] \in Alive(turned)
      BY <1>1
    <3>1. i \in 1..n /\ list[i].expire >= now /\ m <= i
      BY <2>2
    <3>2. CASE i = m
      BY <2>4, <2>9, <3>1, <3>2, AliveOf
    <3>3. CASE i > m
      <4>1. i - m \in 1..k /\ m + (i - m) = i
        BY <1>0, <2>3, <2>4, <3>1, <3>3
      <4>2. turned[i - m] = list[i]
        BY <2>9, <4>1
      <4>3. i - m \in DOMAIN turned
        <5>1. DOMAIN turned = 1..(k + 1)
          BY <2>9
        <5>2. i - m \in 1..(k + 1)
          BY <2>4, <4>1
        <5> QED
          BY <5>1, <5>2
      <4> QED
        BY <2>9, <3>1, <4>2, <4>3, AliveOf
    <3> QED
      BY <2>3, <3>1, <3>2, <3>3
  <2>12. list[m] \in Alive(list)
    BY <1>1, <2>2
  <2> QED
    BY <2>6, <2>10, <2>11, <2>12 DEF turned, fresh
<1> QED
  BY <1>2, <1>3

(* What a record of the entry of n says, and what the entries hold. *)
Said(n, r) == [name |-> n, type |-> r.type, data |-> r.data, expire |-> r.expire]

Holds(known, n) == Alive(ListOf(known[n]))

LEMMA NoneIsNoEntry ==
    ASSUME NEW entry \in EntryBy(now), now \in Nat, NEW list \in Seq(StoreRecord)
    PROVE  /\ entry # None /\ [entry EXCEPT !.list = list] # None
           /\ [entry EXCEPT !.list = list].list = list
<1> DEFINE R == [type : {"ADDR", "CNAME"}, data : Name \cup Address, expire : Nat]
<1>1. StoreRecord \subseteq R
  BY DEF StoreRecord
<1> HIDE DEF R
<1>2. Seq(StoreRecord) \subseteq Seq(R)
  BY <1>1
<1>3. EntryBy(now) \subseteq Entry
  <2>1. 0..now \subseteq Nat
    OBVIOUS
  <2>2. Entry = [last_request : Nat, list : Seq(R)]
    BY DEF Entry, R
  <2> QED
    BY <1>2, <2>1, <2>2 DEF EntryBy
<1>4. [entry EXCEPT !.list = list] \in EntryBy(now) /\ [entry EXCEPT !.list = list].list = list
  BY DEF EntryBy
<1> QED
  BY <1>3, <1>4, NoneAssumption

LEMMA ValidIsHeld ==
    ASSUME entries \in Entries
    PROVE  \A x : x \in Valid <=> \E n \in Name : \E r \in Holds(entries, n) : x = Said(n, r)
<1> TAKE x
<1>1. ASSUME x \in Valid PROVE \E n \in Name : \E r \in Holds(entries, n) : x = Said(n, r)
  <2>1. PICK n \in Name :
           /\ entries[n] # None
           /\ \E r \in {q \in ToSet(entries[n].list) : q.expire >= now} :
                 x = [name |-> n, type |-> r.type, data |-> r.data, expire |-> r.expire]
    BY <1>1 DEF Valid
  <2> QED
    BY <2>1 DEF Holds, Alive, ListOf, Said
<1>2. ASSUME NEW n \in Name, NEW r \in Holds(entries, n), x = Said(n, r) PROVE x \in Valid
  <2>1. entries[n] # None
    BY DEF Holds, ListOf, Alive, ToSet
  <2> QED
    BY <1>2, <2>1 DEF Valid, Holds, Alive, ListOf, Said
<1> QED
  BY <1>1, <1>2

LEMMA HeldIsTyped ==
    ASSUME NEW known \in Entries, NEW n \in Name
    PROVE  ListOf(known[n]) \in Seq(StoreRecord) /\ Holds(known, n) \subseteq StoreRecord
<1>1. ListOf(known[n]) \in Seq(StoreRecord)
  BY DEF Entries, EntryBy, ListOf
<1> QED
  BY <1>1, AliveOf DEF Holds

(* A look-up of a name among what is held: it is on its way, or has found    *)
(* what there is to find.                                                    *)
Looking(n, look) ==
    /\ look \in Looks
    /\ \A m \in Name : Holds(look.known, m) = Holds(entries, m)
    /\ look.at # None => look.found = None /\ look.at \in Cache!Reach(n, Valid)
    /\ look.at = None => \/ look.found \in Cache!Found(n, Valid)
                         \/ look.found = None /\ Cache!LeadsNowhere(n, Valid)

LEMMA ReachFollows ==
    ASSUME NEW n \in Name
    PROVE  /\ n \in Cache!Reach(n, Valid)
           /\ \A m \in Cache!Reach(n, Valid) : \A a \in Name :
                 a \in Cache!Aliases(m, Valid) => a \in Cache!Reach(n, Valid)
  BY DEF Cache!Reach

LEMMA CallLooks ==
    ASSUME now \in Nat, entries \in Entries, NEW n \in Name
    PROVE  \A look : Looking(n, look) => Looking(n, Call(look))
<1> SUFFICES ASSUME NEW look, Looking(n, look) PROVE Looking(n, Call(look))
  OBVIOUS
<1>0. look \in Looks /\ Call(look) \in Looks
  BY CallTyped DEF Looking
<1>1. /\ look.at \in Name \cup {None} /\ look.found \in Address \cup {None}
      /\ look.known \in Entries
  BY <1>0 DEF Looks
<1>2. CASE look.at = None
  <2>1. Call(look) = [look EXCEPT !.at = None]
    BY <1>2 DEF Call
  <2>2. [look EXCEPT !.at = None] = look
    BY <1>0, <1>2 DEF Looks
  <2> QED
    BY <2>1, <2>2
<1> DEFINE m == look.at
           known == look.known
           list == ListOf(known[m])
           fresh == Fresh(list)
           used == Head(fresh)
<1>3. ASSUME look.at # None PROVE /\ m \in Name /\ known \in Entries
                                  /\ list \in Seq(StoreRecord)
                                  /\ Alive(list) = Holds(entries, m)
                                  /\ Alive(list) \subseteq StoreRecord
                                  /\ m \in Cache!Reach(n, Valid)
  <2>1. m \in Name /\ known \in Entries
    BY <1>1, <1>3
  <2> QED
    BY <1>3, <2>1, HeldIsTyped DEF Looking, Holds
<1>4. ASSUME look.at # None, Alive(list) = {} PROVE Cache!LeadsNowhere(n, Valid)
  <2>1. \A x \in Valid : x.name # m
    <3> SUFFICES ASSUME NEW x \in Valid, x.name = m PROVE FALSE
      OBVIOUS
    <3>1. PICK k \in Name : \E r \in Holds(entries, k) : x = Said(k, r)
      BY ValidIsHeld
    <3>2. k = m
      BY <3>1 DEF Said
    <3> QED
      <4>1. Holds(entries, m) = {}
        BY <1>3, <1>4
      <4> QED
        BY <3>1, <3>2, <4>1
  <2> QED
    BY <1>3, <1>4, <2>1 DEF Cache!LeadsNowhere
<1>5. CASE look.at # None /\ known[m] = None
  <2>1. Call(look) = [look EXCEPT !.at = None]
    BY <1>5 DEF Call
  <2>2. [look EXCEPT !.at = None] = [at |-> None, found |-> look.found, known |-> known]
    BY <1>0 DEF Looks
  <2>3. Alive(list) = {}
    BY <1>5 DEF ListOf, Alive, ToSet
  <2>4. look.found = None
    BY <1>5 DEF Looking
  <2> QED
    BY <1>0, <1>4, <1>5, <2>1, <2>2, <2>3, <2>4 DEF Looking
<1>6. CASE look.at # None /\ known[m] # None
  <2> DEFINE alias == fresh # << >> /\ used.type = "CNAME"
             turned == IF fresh = << >> THEN << >> ELSE Append(Tail(fresh), used)
             goal == IF alias THEN used.data ELSE None
             found == IF fresh = << >> \/ alias THEN None ELSE used.data
             after == [known EXCEPT ![m].list = turned]
  <2>1. Call(look) = [at |-> goal, found |-> found, known |-> after]
    BY <1>6 DEF Call, ListOf
  <2>2. Alive(turned) = Alive(list)
    <3>1. CASE fresh = << >>
      <4>1. Alive(<< >>) = {}
        BY DEF Alive, ToSet
      <4> QED
        BY <1>3, <1>6, <3>1, <4>1, FreshIsAlive
    <3>2. CASE fresh # << >>
      BY <1>3, <1>6, <3>2, FreshIsAlive
    <3> QED
      BY <3>1, <3>2
  <2>3. \A k \in Name : Holds(after, k) = Holds(entries, k)
    <3> TAKE k \in Name
    <3>0. after[m].list = turned /\ after[m] # None /\ (k # m => after[k] = known[k])
      <4>1. known[m] \in EntryBy(now)
        BY <1>3, <1>6 DEF Entries
      <4>2. after[m] = [known[m] EXCEPT !.list = turned] /\ (k # m => after[k] = known[k])
        BY <1>3, <1>6 DEF Entries
      <4>3. turned \in Seq(StoreRecord)
        <5>1. fresh \in Seq(StoreRecord)
          BY <1>3, <1>6, FreshTyped
        <5> HIDE DEF fresh
        <5> QED
          BY <5>1, HeadTailProperties, AppendProperties, << >> \in Seq(StoreRecord)
      <4> HIDE DEF turned, after
      <4> QED
        BY <4>1, <4>2, <4>3, NoneIsNoEntry
    <3>1. CASE k = m
      BY <1>3, <1>6, <2>2, <3>0, <3>1 DEF Holds, ListOf
    <3>2. CASE k # m
      BY <3>0, <3>2 DEF Looking, Holds
    <3> QED
      BY <3>1, <3>2
  <2>4. fresh # << >> => used \in Alive(list) /\ used \in StoreRecord /\ Said(m, used) \in Valid
    <3> SUFFICES ASSUME fresh # << >>
                 PROVE  used \in Alive(list) /\ used \in StoreRecord /\ Said(m, used) \in Valid
      OBVIOUS
    <3>1. used \in Alive(list)
      BY <1>3, <1>6, FreshIsAlive
    <3> QED
      BY <1>3, <1>6, <3>1, ValidIsHeld
  <2> HIDE DEF fresh, used, list
  <2>5. alias => used.data \in Cache!Reach(n, Valid) /\ goal # None
    <3> SUFFICES ASSUME alias PROVE used.data \in Cache!Reach(n, Valid) /\ goal # None
      OBVIOUS
    <3>1. used.data \in Name
      BY <2>4 DEF StoreRecord
    <3>2. used.data \in Cache!Aliases(m, Valid)
      BY <2>4 DEF Cache!Aliases, Said
    <3> QED
      BY <1>3, <1>6, <3>1, <3>2, ReachFollows, NoneAssumption
  <2>6. fresh # << >> /\ ~alias => used.data \in Cache!Found(n, Valid)
    <3> SUFFICES ASSUME fresh # << >>, ~alias PROVE used.data \in Cache!Found(n, Valid)
      OBVIOUS
    <3>1. used.type = "ADDR"
      BY <2>4 DEF StoreRecord
    <3>2. used.data \in Cache!Addresses(m, Valid)
      BY <2>4, <3>1 DEF Cache!Addresses, Said
    <3> QED
      BY <1>3, <1>6, <3>2 DEF Cache!Found
  <2>7. fresh = << >> => Cache!LeadsNowhere(n, Valid)
    BY <1>3, <1>4, <1>6, FreshIsAlive DEF fresh
  <2> HIDE DEF after
  <2>8. CASE alias
    BY <1>0, <2>1, <2>3, <2>5, <2>8 DEF Looking
  <2>9. CASE fresh = << >>
    BY <1>0, <2>1, <2>3, <2>7, <2>9 DEF Looking
  <2>10. CASE fresh # << >> /\ ~alias
    BY <1>0, <2>1, <2>3, <2>6, <2>10 DEF Looking
  <2> QED
    BY <2>8, <2>9, <2>10
<1> QED
  BY <1>2, <1>5, <1>6

LEMMA LookUpLooks ==
    ASSUME now \in Nat, entries \in Entries, NEW n \in Name
    PROVE  Looking(n, LookUp(n))
<1> DEFINE P == {look \in Looks : Looking(n, look)}
<1>1. PICK after : /\ LookUp(n) = after[MaxCalls]
                   /\ after[0] = [at |-> n, found |-> None, known |-> entries]
                   /\ \A i \in 1..MaxCalls : after[i] = Call(after[i - 1])
  BY LookUpUnfolds
<1>2. after[0] \in P
  <2>1. after[0] \in Looks
    BY <1>1 DEF Looks
  <2>2. Looking(n, after[0])
    BY <1>1, <2>1, ReachFollows, NoneAssumption DEF Looking
  <2> QED
    BY <2>1, <2>2
<1>3. \A i \in 1..MaxCalls : after[i - 1] \in P => after[i] \in P
  BY <1>1, CallLooks, CallTyped
<1>4. MaxCalls \in Nat
  BY SizeAssumption
<1> HIDE DEF P
<1>5. after[MaxCalls] \in P
  BY <1>2, <1>3, <1>4, StaysIn
<1> QED
  BY <1>1, <1>5 DEF P

(* The record that r becomes, and what has been learned from the first i     *)
(* records of an answer.                                                     *)
AsKept(r) == [type |-> r.type, data |-> r.data, expire |-> now + r.ttl]

Says(q, r) == q.type = r.type /\ q.data = r.data

LEMMA UpdatedHolds ==
    ASSUME now \in Nat, NEW known \in Entries, NEW r \in Rr, r.ttl > 0
    PROVE  /\ Holds(Updated(known, r), r.name) =
                {q \in Holds(known, r.name) : ~Says(q, r)} \cup {AsKept(r)}
           /\ \A n \in Name : n # r.name => Holds(Updated(known, r), n) = Holds(known, n)
<1> DEFINE old == ListOf(known[r.name])
           new == [type |-> r.type, data |-> r.data, expire |-> now + r.ttl]
           same == {i \in DOMAIN old : old[i].type = r.type /\ old[i].data = r.data}
           renewed == [i \in DOMAIN old |-> IF i \in same THEN new ELSE old[i]]
           kept == Unexpired(renewed)
           list == IF same # {} THEN kept ELSE <<new>> \o kept
           entry == WithList(known[r.name], list)
<1>1. r.name \in Name /\ new = AsKept(r)
  BY DEF Rr, AsKept
<1>2. new \in StoreRecord /\ new.expire >= now
  BY DEF Rr, StoreRecord
<1>3. old \in Seq(StoreRecord)
  BY <1>1, HeldIsTyped
<1>4. Updated(known, r) = [known EXCEPT ![r.name] = WithList(@, list)]
  BY DEF Updated
<1> HIDE DEF old, new
<1>5. renewed \in Seq(StoreRecord) /\ DOMAIN renewed = DOMAIN old
  <2>1. \A i \in DOMAIN old : renewed[i] \in StoreRecord
    BY <1>2, <1>3
  <2> QED
    BY <1>3, <2>1
<1>6. \A i \in DOMAIN old : renewed[i] = IF Says(old[i], r) THEN new ELSE old[i]
  BY DEF Says
<1>7. same = {i \in DOMAIN old : Says(old[i], r)}
  BY DEF Says
<1> HIDE DEF renewed, same
<1>8. kept \in Seq(StoreRecord) /\ Alive(kept) = Alive(renewed)
  BY <1>5, UnexpiredIsAlive
<1> HIDE DEF kept
<1>9. list \in Seq(StoreRecord) /\ Alive(list) = {q \in Alive(old) : ~Says(q, r)} \cup {new}
  <2>1. CASE same # {}
    <3>1. list = kept
      BY <2>1
    <3>2. PICK k \in DOMAIN old : Says(old[k], r)
      BY <1>7, <2>1
    <3>3. renewed[k] = new
      BY <1>6, <3>2
    <3>4. \A x : x \in Alive(renewed) <=> x = new \/ (x \in Alive(old) /\ ~Says(x, r))
      BY <1>2, <1>3, <1>5, <1>6, <3>2, <3>3, AliveOf
    <3> HIDE DEF list
    <3> QED
      BY <1>8, <3>1, <3>4
  <2>2. CASE same = {}
    <3>1. list = <<new>> \o kept /\ <<new>> \in Seq(StoreRecord)
      BY <1>2, <2>2
    <3>2. renewed = old
      <4>1. \A i \in DOMAIN old : renewed[i] = old[i]
        BY <1>6, <1>7, <2>2
      <4>2. renewed = [i \in DOMAIN old |-> renewed[i]] /\ old = [i \in DOMAIN old |-> old[i]]
        BY <1>3, <1>5
      <4> QED
        BY <4>1, <4>2
    <3>3. \A q \in Alive(old) : ~Says(q, r)
      BY <1>3, <1>7, <2>2, AliveOf
    <3>4. ToSet(<<new>> \o kept) = {new} \cup ToSet(kept)
      <4> DEFINE s == <<new>> \o kept
                 k == Len(kept)
      <4>1. /\ k \in Nat /\ DOMAIN kept = 1..k /\ DOMAIN s = 1..(1 + k) /\ s[1] = new
            /\ \A i \in 1..k : s[i + 1] = kept[i]
        BY <1>2, <1>8, ConcatProperties
      <4> HIDE DEF s, k
      <4>2. \A i \in 1..(1 + k) : i = 1 \/ \E j \in 1..k : i = j + 1
        <5> TAKE i \in 1..(1 + k)
        <5>1. i # 1 => i - 1 \in 1..k /\ i = (i - 1) + 1
          BY <4>1
        <5> QED
          BY <5>1
      <4>3. \A i \in 1..k : i + 1 \in 1..(1 + k) /\ 1 \in 1..(1 + k)
        BY <4>1
      <4>4. 1 \in 1..(1 + k)
        BY <4>1
      <4>5. ASSUME NEW i \in 1..(1 + k) PROVE s[i] = new \/ s[i] \in ToSet(kept)
        BY <4>1, <4>2 DEF ToSet
      <4>6. \A x \in ToSet(kept) : \E i \in 1..(1 + k) : s[i] = x
        BY <4>1, <4>3 DEF ToSet
      <4>7. ToSet(s) = {s[i] : i \in 1..(1 + k)}
        BY <4>1 DEF ToSet
      <4>8. ToSet(s) = {new} \cup ToSet(kept)
        BY <4>1, <4>4, <4>5, <4>6, <4>7
      <4> QED
        BY <4>8 DEF s
    <3>5. Alive(list) = {new} \cup Alive(kept)
      BY <1>2, <3>1, <3>4 DEF Alive
    <3>6. list \in Seq(StoreRecord)
      BY <1>8, <3>1, ConcatProperties
    <3> HIDE DEF list
    <3> QED
      BY <1>8, <3>2, <3>3, <3>5, <3>6
  <2> QED
    BY <2>1, <2>2
<1> HIDE DEF list
<1>10. Updated(known, r)[r.name] = entry /\ \A n \in Name : n # r.name => Updated(known, r)[n] = known[n]
  BY <1>1, <1>4 DEF Entries
<1>11. ListOf(entry) = list
  <2> DEFINE was == IF known[r.name] = None THEN NewEntry ELSE known[r.name]
  <2>1. was \in EntryBy(now)
    BY <1>1 DEF Entries, EntryBy, NewEntry
  <2>2. entry = [was EXCEPT !.list = list]
    BY DEF WithList
  <2> HIDE DEF was, entry
  <2> QED
    BY <1>9, <2>1, <2>2, NoneIsNoEntry DEF ListOf
<1> HIDE DEF entry
<1> QED
  BY <1>1, <1>9, <1>10, <1>11 DEF Holds, old

Stored(answers, i) == {j \in 1..i : answers[j].ttl > 0}

LastSaid(answers, i) ==
    {j \in Stored(answers, i) : \A k \in Stored(answers, i) :
        answers[k].name = answers[j].name /\ Says(answers[k], answers[j]) => k <= j}

HoldsAfter(answers, i, n) ==
    {q \in Holds(entries, n) : \A j \in Stored(answers, i) : answers[j].name = n => ~Says(q, answers[j])}
    \cup {AsKept(answers[j]) : j \in {k \in LastSaid(answers, i) : answers[k].name = n}}

LEMMA StoredNext ==
    ASSUME NEW answers \in Seq(Rr), NEW i \in 1..Len(answers), NEW n \in Name
    PROVE  HoldsAfter(answers, i, n) =
             IF answers[i].ttl > 0 /\ answers[i].name = n
             THEN {q \in HoldsAfter(answers, i - 1, n) : ~Says(q, answers[i])} \cup {AsKept(answers[i])}
             ELSE HoldsAfter(answers, i - 1, n)
<1> DEFINE r == answers[i]
           Same(k, j) == answers[k].name = answers[j].name /\ Says(answers[k], answers[j])
<1>1. i \in Nat /\ i - 1 \in Nat /\ 1..i = (1..(i - 1)) \cup {i} /\ \A k \in 1..(i - 1) : k < i /\ k \in Nat
  OBVIOUS
<1>2. CASE ~(r.ttl > 0)
  <2>1. Stored(answers, i) = Stored(answers, i - 1)
    BY <1>1, <1>2 DEF Stored
  <2> QED
    BY <1>2, <2>1 DEF HoldsAfter, LastSaid
<1>3. CASE r.ttl > 0
  <2>1. Stored(answers, i) = Stored(answers, i - 1) \cup {i}
    BY <1>1, <1>3 DEF Stored
  <2>2. \A k \in Stored(answers, i - 1) : k < i /\ k \in Nat /\ ~(i <= k) /\ k <= i /\ i <= i
    BY <1>1 DEF Stored
  <2>3. LastSaid(answers, i) = {j \in LastSaid(answers, i - 1) : ~Same(i, j)} \cup {i}
    <3> HIDE DEF r
    <3> QED
      BY <1>1, <2>1, <2>2 DEF LastSaid
  <2> DEFINE Before == {q \in Holds(entries, n) :
                          \A j \in Stored(answers, i - 1) : answers[j].name = n => ~Says(q, answers[j])}
             Heard == {k \in LastSaid(answers, i - 1) : answers[k].name = n}
  <2>4. CASE r.name # n
    <3>1. {k \in LastSaid(answers, i) : answers[k].name = n} = Heard
      BY <2>3, <2>4
    <3>2. {q \in Holds(entries, n) :
             \A j \in Stored(answers, i) : answers[j].name = n => ~Says(q, answers[j])} = Before
      BY <2>1, <2>4
    <3> QED
      BY <2>4, <3>1, <3>2 DEF HoldsAfter
  <2>5. CASE r.name = n
    <3>1. {k \in LastSaid(answers, i) : answers[k].name = n}
            = {j \in Heard : ~Says(answers[j], r)} \cup {i}
      BY <2>3, <2>5 DEF Says
    <3>2. {q \in Holds(entries, n) :
             \A j \in Stored(answers, i) : answers[j].name = n => ~Says(q, answers[j])}
            = {q \in Before : ~Says(q, r)}
      BY <2>1, <2>5
    <3>3. \A j : Says(AsKept(answers[j]), r) <=> Says(answers[j], r)
      BY DEF Says, AsKept
    <3> HIDE DEF Before, Heard, r
    <3>4. HoldsAfter(answers, i, n) =
            {q \in Before : ~Says(q, r)} \cup {AsKept(answers[j]) : j \in {k \in Heard : ~Says(answers[k], r)}}
            \cup {AsKept(r)}
      BY <3>1, <3>2 DEF HoldsAfter, r
    <3>5. HoldsAfter(answers, i - 1, n) = Before \cup {AsKept(answers[j]) : j \in Heard}
      BY DEF HoldsAfter, Before, Heard
    <3>6. HoldsAfter(answers, i, n) = {q \in HoldsAfter(answers, i - 1, n) : ~Says(q, r)} \cup {AsKept(r)}
      BY <3>3, <3>4, <3>5
    <3> QED
      BY <1>3, <2>5, <3>6 DEF r
  <2> QED
    BY <2>4, <2>5
<1> QED
  BY <1>2, <1>3

LEMMA LearnedHolds ==
    ASSUME now \in Nat, entries \in Entries, NEW answers \in Seq(Rr)
    PROVE  \A n \in Name : Holds(Learned(answers), n) = HoldsAfter(answers, Len(answers), n)
<1> DEFINE N == Len(answers)
           Right(known, i) == \A n \in Name : Holds(known, n) = HoldsAfter(answers, i, n)
<1>1. PICK after : /\ Learned(answers) = after[N] /\ after[0] = entries
                   /\ \A i \in 1..N : after[i] = IF answers[i].ttl > 0
                                                 THEN Updated(after[i - 1], answers[i])
                                                 ELSE after[i - 1]
  BY LearnedUnfolds
<1> DEFINE Good == {i \in Nat : i <= N => after[i] \in Entries /\ Right(after[i], i)}
<1>2. 0 \in Good
  <2>1. Stored(answers, 0) = {} /\ LastSaid(answers, 0) = {}
    BY DEF Stored, LastSaid
  <2> QED
    BY <1>1, <2>1 DEF HoldsAfter
<1>3. \A i \in Nat : i \in Good => i + 1 \in Good
  <2> SUFFICES ASSUME NEW i \in Nat, i + 1 <= N, after[i] \in Entries, Right(after[i], i)
               PROVE  after[i + 1] \in Entries /\ Right(after[i + 1], i + 1)
    OBVIOUS
  <2> DEFINE k == i + 1
             r == answers[k]
             known == after[i]
  <2>1. k \in 1..N /\ k - 1 = i /\ r \in Rr /\ known \in Entries
    OBVIOUS
  <2>2. after[k] = IF r.ttl > 0 THEN Updated(known, r) ELSE known
    BY <1>1, <2>1
  <2>3. \A n \in Name : HoldsAfter(answers, k, n) =
             IF r.ttl > 0 /\ r.name = n
             THEN {q \in HoldsAfter(answers, i, n) : ~Says(q, r)} \cup {AsKept(r)}
             ELSE HoldsAfter(answers, i, n)
    BY <2>1, StoredNext
  <2>4. \A n \in Name : Holds(known, n) = HoldsAfter(answers, i, n)
    OBVIOUS
  <2> HIDE DEF k, r, known
  <2>5. CASE r.ttl > 0
    <3>1. Updated(known, r) \in Entries
      BY <2>1, <2>5, UpdatedTyped
    <3>2. /\ Holds(Updated(known, r), r.name) =
                {q \in Holds(known, r.name) : ~Says(q, r)} \cup {AsKept(r)}
          /\ \A n \in Name : n # r.name => Holds(Updated(known, r), n) = Holds(known, n)
      BY <2>1, <2>5, UpdatedHolds
    <3>3. Right(after[k], k)
      BY <2>2, <2>3, <2>4, <2>5, <3>2
    <3> QED
      BY <2>2, <2>5, <3>1, <3>3 DEF k
  <2>6. CASE ~(r.ttl > 0)
    BY <2>1, <2>2, <2>3, <2>4, <2>6 DEF k
  <2> QED
    BY <2>5, <2>6
<1> HIDE DEF Good
<1>4. N \in Good /\ N \in Nat
  BY <1>2, <1>3, Induct
<1> QED
  BY <1>1, <1>4 DEF Good

(* The sections that a response may be read to. *)
Sections == UNION {Prefixes(s) : s \in Section}

LEMMA ValidNext ==
    ASSUME now' = now
    PROVE  \A x : x \in Valid' <=> \E n \in Name : \E r \in Holds(entries', n) : x = Said(n, r)
<1> TAKE x
<1>1. ASSUME x \in Valid' PROVE \E n \in Name : \E r \in Holds(entries', n) : x = Said(n, r)
  <2>1. PICK n \in Name :
           /\ entries'[n] # None
           /\ \E r \in {q \in ToSet(entries'[n].list) : q.expire >= now} :
                 x = [name |-> n, type |-> r.type, data |-> r.data, expire |-> r.expire]
    BY <1>1 DEF Valid
  <2> QED
    BY <2>1 DEF Holds, Alive, ListOf, Said
<1>2. ASSUME NEW n \in Name, NEW r \in Holds(entries', n), x = Said(n, r) PROVE x \in Valid'
  <2>1. entries'[n] # None
    BY DEF Holds, ListOf, Alive, ToSet
  <2> QED
    BY <1>2, <2>1 DEF Valid, Holds, Alive, ListOf, Said
<1> QED
  BY <1>1, <1>2

LEMMA ValidStays ==
    ASSUME now' = now, entries \in Entries,
           \A n \in Name : Holds(entries', n) = Holds(entries, n)
    PROVE  Valid' = Valid
  BY ValidNext, ValidIsHeld

LEMMA LookedIsLook ==
    ASSUME now \in Nat, entries \in Entries, NEW n \in Name, Ends(n), now' = now,
           answer' = Result(n), \A m \in Name : Holds(entries', m) = Holds(Looked(n), m)
    PROVE  Cache!Look(n)
<1>1. Looking(n, LookUp(n)) /\ LookUp(n).at = None
  BY LookUpLooks DEF Ends
<1>2. \A m \in Name : Holds(entries', m) = Holds(entries, m)
  BY <1>1 DEF Looking, Looked
<1>3. Valid' = Valid
  BY <1>2, ValidStays
<1>4. \/ answer' \in Cache!Found(n, Valid)
      \/ answer' = None /\ Cache!LeadsNowhere(n, Valid)
  BY <1>1 DEF Looking, Result
<1> QED
  BY <1>3, <1>4 DEF Cache!Look

LEMMA RequestHolds ==
    ASSUME now \in Nat, entries \in Entries, NEW n \in Name, NEW entry \in Name, Request(n, entry)
    PROVE  \A m \in Name : Holds(entries', m) = Holds(Looked(n), m)
<1> DEFINE known == Looked(n)
           old == IF known[entry] = None THEN NewEntry ELSE known[entry]
           new == [old EXCEPT !.last_request = now]
<1>1. known \in Entries
  <2>1. LookUp(n) \in Looks
    BY LookUpTyped
  <2> QED
    BY <2>1 DEF Looked, Looks
<1>2. old \in EntryBy(now)
  BY <1>1 DEF Entries, EntryBy, NewEntry
<1>3. new \in EntryBy(now) /\ new.list = old.list /\ old.list \in Seq(StoreRecord)
  BY <1>2 DEF EntryBy
<1>4. entries' = [known EXCEPT ![entry] = new]
  BY DEF Request
<1>5. old.list = ListOf(known[entry])
  BY DEF ListOf, NewEntry
<1> HIDE DEF known, old, new
<1>6. new # None
  BY <1>3, NoneIsNoEntry
<1>7. ListOf(new) = ListOf(known[entry])
  BY <1>3, <1>5, <1>6 DEF ListOf
<1>8. \A m \in Name : entries'[m] = IF m = entry THEN new ELSE known[m]
  BY <1>1, <1>4 DEF Entries
<1> QED
  BY <1>7, <1>8 DEF Holds, known

LEMMA LearnedIsLearn ==
    ASSUME now \in Nat, entries \in Entries, NEW answers \in Seq(Rr), now' = now,
           entries' = Learned(answers), answer' = answer
    PROVE  Cache!Learn(answers)
<1> DEFINE N == Len(answers)
           kept == {i \in DOMAIN answers : answers[i].ttl > 0}
           last == {i \in kept : \A j \in kept :
                      Cache!Key(answers[j]) = Cache!Key(answers[i]) => j <= i}
           Heard(i) == [name |-> answers[i].name, type |-> answers[i].type,
                        data |-> answers[i].data, expire |-> now + answers[i].ttl]
<1>1. kept = Stored(answers, N) /\ last = LastSaid(answers, N)
  BY DEF Stored, LastSaid, Says, Cache!Key
<1>2. \A i \in kept : answers[i].name \in Name /\ Heard(i) = Said(answers[i].name, AsKept(answers[i]))
  <2> TAKE i \in kept
  <2>1. answers[i] \in Rr
    OBVIOUS
  <2> QED
    BY <2>1 DEF Rr, Said, AsKept
<1>3. \A n \in Name : \A q, i : Cache!Key(Said(n, q)) # Cache!Key(answers[i])
                               <=> (answers[i].name = n => ~Says(q, answers[i]))
  BY DEF Cache!Key, Said, Says
<1>4. \A n \in Name : Holds(entries', n) = HoldsAfter(answers, N, n)
  BY LearnedHolds
<1> HIDE DEF N, kept, last, Heard
<1> DEFINE Before == {r \in Valid : \A i \in kept : Cache!Key(r) # Cache!Key(answers[i])}
           After == {Heard(i) : i \in last}
<1>5. \A x : x \in Before <=>
         \E n \in Name : \E q \in Holds(entries, n) :
            x = Said(n, q) /\ \A i \in kept : answers[i].name = n => ~Says(q, answers[i])
  <2> TAKE x
  <2>1. ASSUME NEW n \in Name, NEW q \in Holds(entries, n), x = Said(n, q)
        PROVE  (\A i \in kept : Cache!Key(x) # Cache!Key(answers[i]))
               <=> \A i \in kept : answers[i].name = n => ~Says(q, answers[i])
    BY <1>3, <2>1
  <2>2. x \in Before <=> /\ \E n \in Name : \E q \in Holds(entries, n) : x = Said(n, q)
                         /\ \A i \in kept : Cache!Key(x) # Cache!Key(answers[i])
    BY ValidIsHeld
  <2> HIDE DEF Before
  <2> QED
    BY <2>1, <2>2
<1>6. last \subseteq kept
  BY DEF last
<1>7. \A x : x \in After <=>
         \E n \in Name : \E i \in last : answers[i].name = n /\ x = Said(n, AsKept(answers[i]))
  BY <1>2, <1>6
<1> HIDE DEF Before, After
<1>8. \A n \in Name : \A q : q \in Holds(entries', n) <=>
         \/ /\ q \in Holds(entries, n)
            /\ \A i \in kept : answers[i].name = n => ~Says(q, answers[i])
         \/ \E i \in last : answers[i].name = n /\ q = AsKept(answers[i])
  BY <1>1, <1>4 DEF HoldsAfter
<1>9. \A x : x \in Valid' <=> x \in Before \/ x \in After
  BY <1>5, <1>7, <1>8, ValidNext
<1>10. Valid' = Before \cup After
  BY <1>9
<1> QED
  BY <1>10 DEF Cache!Learn, Before, After, kept, last, Heard

LEMMA TickIsTick ==
    ASSUME now \in Nat, entries \in Entries, Tick
    PROVE  Cache!Tick
<1>1. now' = now + 1 /\ entries' = entries /\ answer' = answer
  BY DEF Tick, service
<1>2. \A n \in Name : entries[n] # None => \A q \in ToSet(entries[n].list) : q.expire \in Nat
  <2> TAKE n \in Name
  <2>1. entries[n] # None => entries[n].list \in Seq(StoreRecord)
    BY DEF Entries, EntryBy
  <2> QED
    BY <2>1 DEF ToSet, StoreRecord
<1>3. \A e \in Nat : e >= now + 1 => e >= now
  OBVIOUS
<1>4. ASSUME NEW x PROVE x \in Valid' <=> x \in Valid /\ x.expire >= now'
  <2> DEFINE S(n, r) == [name |-> n, type |-> r.type, data |-> r.data, expire |-> r.expire]
  <2>1. x \in Valid <=> \E n \in Name : /\ entries[n] # None
                                       /\ \E r \in ToSet(entries[n].list) :
                                            r.expire >= now /\ x = S(n, r)
    BY DEF Valid
  <2>2. x \in Valid' <=> \E n \in Name : /\ entries[n] # None
                                        /\ \E r \in ToSet(entries[n].list) :
                                             r.expire >= now + 1 /\ x = S(n, r)
    BY <1>1 DEF Valid
  <2>3. \A n, r : S(n, r).expire = r.expire
    OBVIOUS
  <2> HIDE DEF S
  <2> QED
    BY <1>1, <1>2, <1>3, <2>1, <2>2, <2>3
<1>5. Valid' = {r \in Valid : r.expire >= now'}
  BY <1>4
<1> QED
  BY <1>1, <1>5 DEF Cache!Tick

(* What is to be learned has been said. *)
HeardInv ==
    \A response \in responses : response.outcome # "refused" => response.answers \in Sections

LEMMA CacheNext ==
    ASSUME ServiceInv, HeardInv, [Next]_vars
    PROVE  [Cache!Next]_Cache!vars
<1>0. now \in Nat /\ entries \in Entries
  BY DEF ServiceInv, StoreInv
<1>1. ASSUME UNCHANGED <<now, entries, answer>> PROVE UNCHANGED Cache!vars
  <2>1. Valid' = Valid
    BY <1>1 DEF Valid
  <2> QED
    BY <1>1, <2>1 DEF Cache!vars
<1>2. ASSUME NEW n \in Name,
             \/ Get(n) \/ FetchFinds(n) \/ FetchRefused(n) \/ FetchCrashes(n)
      PROVE  Cache!Look(n)
  <2>1. Ends(n) /\ now' = now /\ answer' = Result(n) /\ entries' = Looked(n)
    BY <1>2 DEF Get, FetchFinds, FetchRefused, FetchCrashes, FetchMisses
  <2> QED
    BY <1>0, <2>1, LookedIsLook
<1>3. ASSUME NEW n \in Name, FetchRequests(n) PROVE Cache!Look(n)
  <2>1. Ends(n) /\ now' = now /\ answer' = Result(n)
    BY <1>3 DEF FetchRequests, FetchMisses
  <2>2. PICK entry \in Name : Request(n, entry)
    BY <1>3 DEF FetchRequests, StaleEntry
  <2> QED
    BY <1>0, <2>1, <2>2, LookedIsLook, RequestHolds
<1>4. ASSUME NEW response \in responses, ReceiveGood(response) \/ ReceiveBroken(response)
      PROVE  response.answers \in Sections /\ Cache!Learn(response.answers)
  <2>1. /\ response.outcome # "refused" /\ entries' = Learned(response.answers)
        /\ now' = now /\ answer' = answer
    BY <1>4 DEF ReceiveGood, ReceiveBroken, Receive
  <2>2. response.answers \in Seq(Rr)
    BY DEF ServiceInv, ResponseInv
  <2> QED
    BY <1>0, <2>1, <2>2, LearnedIsLearn DEF HeardInv
<1>5. ASSUME \/ \E n \in Name : LookUpOverflows(n)
             \/ \E response \in responses : ReceiveRefused(response)
             \/ \E i \in DOMAIN requests : Answer(i)
             \/ Flush \/ Ended \/ UNCHANGED vars
      PROVE  UNCHANGED <<now, entries, answer>>
  BY <1>5 DEF LookUpOverflows, ReceiveRefused, Receive, Answer, Flush, Ended, vars, service
<1>6. CASE Tick
  BY <1>0, <1>6, TickIsTick DEF Cache!Next
<1>7. ASSUME NEW n \in Name, Cache!Look(n) PROVE Cache!Next
  BY <1>7 DEF Cache!Next
<1>8. ASSUME NEW rrs \in Sections, Cache!Learn(rrs) PROVE Cache!Next
  BY <1>8 DEF Cache!Next, Sections
<1> QED
  BY <1>1, <1>2, <1>3, <1>4, <1>5, <1>6, <1>7, <1>8 DEF Next

LEMMA HeardInvNext ==
    ASSUME HeardInv, [Next]_vars
    PROVE  HeardInv'
<1>1. ASSUME responses' \subseteq responses PROVE HeardInv'
  BY <1>1 DEF HeardInv
<1>2. ASSUME NEW k \in DOMAIN requests, Answer(k) PROVE HeardInv'
  <2>1. PICK section \in SectionsFor(requests[k].name) :
           \E said \in {<<"good", section>>, <<"refused", << >> >>}
                       \cup {<<"broken", p>> : p \in Prefixes(section)} :
              responses' = responses \cup {[of |-> k, outcome |-> said[1], answers |-> said[2]]}
    BY <1>2 DEF Answer
  <2>2. PICK said \in {<<"good", section>>, <<"refused", << >> >>}
                      \cup {<<"broken", p>> : p \in Prefixes(section)} :
           responses' = responses \cup {[of |-> k, outcome |-> said[1], answers |-> said[2]]}
    BY <2>1
  <2>3. section \in Section
    BY DEF SectionsFor
  <2>4. Prefixes(section) \subseteq Sections
    BY <2>3 DEF Sections
  <2>5. section \in Prefixes(section)
    <3>1. section \in Seq(Rr)
      BY <2>3, SectionAssumption
    <3>2. SubSeq(section, 1, Len(section)) = section
      BY <3>1
    <3> QED
      BY <3>2, Len(section) \in 0..Len(section), <3>1 DEF Prefixes
  <2>6. said[1] # "refused" => said[2] \in Sections
    <3>1. CASE said = <<"good", section>>
      <4>1. said[2] = section
        BY <3>1
      <4> QED
        BY <2>4, <2>5, <4>1
    <3>2. CASE said = <<"refused", << >> >>
      <4>1. said[1] = "refused"
        BY <3>2
      <4> QED
        BY <4>1
    <3>3. CASE \E p \in Prefixes(section) : said = <<"broken", p>>
      <4>1. said[2] \in Prefixes(section)
        BY <3>3
      <4> QED
        BY <2>4, <4>1
    <3> QED
      BY <2>2, <3>1, <3>2, <3>3
  <2> DEFINE response == [of |-> k, outcome |-> said[1], answers |-> said[2]]
  <2>7. /\ responses' = responses \cup {response}
        /\ response.outcome = said[1] /\ response.answers = said[2]
    BY <2>2
  <2> HIDE DEF response
  <2> QED
    BY <2>6, <2>7 DEF HeardInv
<1>3. ASSUME NEW response \in responses,
             ReceiveGood(response) \/ ReceiveRefused(response) \/ ReceiveBroken(response)
      PROVE  responses' \subseteq responses
  BY <1>3 DEF ReceiveGood, ReceiveRefused, ReceiveBroken, Receive
<1>4. ASSUME \/ \E n \in Name : \/ Get(n) \/ LookUpOverflows(n) \/ FetchFinds(n)
                                \/ FetchRequests(n) \/ FetchRefused(n) \/ FetchCrashes(n)
             \/ Flush \/ Tick \/ Ended \/ UNCHANGED vars
      PROVE  responses' \subseteq responses
  BY <1>4 DEF Get, LookUpOverflows, FetchFinds, FetchRequests, FetchRefused, FetchCrashes,
              FetchMisses, Flush, Tick, Ended, vars
<1> QED
  BY <1>1, <1>2, <1>3, <1>4 DEF Next

LEMMA CacheInit == Init => Cache!Init
<1> SUFFICES ASSUME Init PROVE Cache!Init
  OBVIOUS
<1>1. Valid = {}
  BY DEF Init, Valid
<1> QED
  BY <1>1, SizeAssumption DEF Init, Cache!Init

(* A look-up finds an address that valid records lead to, and nothing only   *)
(* if they lead to a name without any; and the store holds what the last     *)
(* answers said of each record, for as long: for any names, records, answers *)
(* cut short or repeated, and however the aliases lead.                      *)
THEOREM IsANameCache == Spec => ImplementsNameCache
<1>1. Spec => [](ServiceInv /\ HeardInv)
  <2>1. Init => HeardInv
    BY DEF Init, HeardInv
  <2> QED
    BY <2>1, ServiceInvInit, ServiceInvNext, HeardInvNext, PTL DEF Spec
<1>2. ServiceInv /\ HeardInv /\ [Next]_vars => [Cache!Next]_Cache!vars
  BY CacheNext
<1> QED
  BY <1>1, <1>2, CacheInit, PTL DEF Spec, ImplementsNameCache, Cache!Spec

-----------------------------------------------------------------------------
(* The question read back.                                                   *)
(* The first dot behind k ends the label that begins there, or the name does. *)
LEMMA LabelEnds ==
    ASSUME NEW dn \in Seq(Byte), NEW k \in 0..Len(dn), NEW e, e = LabelEnd(dn, k)
    PROVE  /\ e \in (k + 1)..(Len(dn) + 1)
           /\ e = Len(dn) + 1 \/ dn[e] = DOT
           /\ \A j \in (k + 1)..(e - 1) : dn[j] # DOT
<1> DEFINE M == {j \in (k + 1)..Len(dn) : dn[j] = DOT} \cup {Len(dn) + 1}
<1>1. Len(dn) \in Nat /\ M \in SUBSET Nat /\ M # {}
  OBVIOUS
<1> HIDE DEF M
<1>2. \E x \in M : \A y \in M : x <= y
  BY <1>1, Least
<1>3. e = CHOOSE x \in M : \A y \in M : x <= y
  BY DEF LabelEnd, Min, M
<1>4. e \in M /\ \A y \in M : e <= y
  BY <1>2, <1>3
<1>5. e \in (k + 1)..(Len(dn) + 1) /\ (e = Len(dn) + 1 \/ dn[e] = DOT)
  BY <1>1, <1>4 DEF M
<1>6. ASSUME NEW j \in (k + 1)..(e - 1), dn[j] = DOT PROVE FALSE
  <2>1. j \in (k + 1)..Len(dn) /\ j < e
    BY <1>1, <1>5
  <2> QED
    BY <1>4, <1>6, <2>1 DEF M
<1> QED
  BY <1>5, <1>6

(* A label begins at k, or the name ends there. *)
Begins(dn, k) ==
    /\ k \in 0..(Len(dn) + 1)
    /\ k = 0 \/ k = Len(dn) + 1 \/ dn[k] = DOT

(* What encode_domain_name wrote has, where a label begins, its length.      *)
LEMMA EncodedLabel ==
    ASSUME NEW dn \in Question, NEW k, Begins(dn, k)
    PROVE  /\ k \in Nat /\ k + 1 \in 1..(Len(dn) + 2)
           /\ k = Len(dn) + 1 => Encoded(dn)[k + 1] = 0
           /\ k # Len(dn) + 1 =>
                \E e : /\ e \in (k + 1)..(Len(dn) + 1) /\ Begins(dn, e)
                       /\ Encoded(dn)[k + 1] = e - k - 1 /\ e - k - 1 \in 1..63
                       /\ e = Len(dn) + 1 \/ dn[e] = DOT
                       /\ \A j \in (k + 2)..e : Encoded(dn)[j] = dn[j - 1]
<1>1. dn \in Seq(Byte) /\ Len(dn) \in Nat
  BY MessageAssumption
<1>2. k \in Nat /\ k + 1 \in 1..(Len(dn) + 2)
  BY <1>1 DEF Begins
<1>3. \A j \in 1..(Len(dn) + 2) :
        Encoded(dn)[j] = IF j = Len(dn) + 2 THEN 0
                         ELSE IF j = 1 \/ dn[j - 1] = DOT THEN LabelSize(dn, j - 1)
                         ELSE dn[j - 1]
  BY DEF Encoded
<1>4. ASSUME k = Len(dn) + 1 PROVE Encoded(dn)[k + 1] = 0
  <2>1. k + 1 = Len(dn) + 2
    BY <1>1, <1>4
  <2> QED
    BY <1>2, <1>3, <2>1
<1>5. ASSUME k # Len(dn) + 1
      PROVE  \E e : /\ e \in (k + 1)..(Len(dn) + 1) /\ Begins(dn, e)
                    /\ Encoded(dn)[k + 1] = e - k - 1 /\ e - k - 1 \in 1..63
                    /\ e = Len(dn) + 1 \/ dn[e] = DOT
                    /\ \A j \in (k + 2)..e : Encoded(dn)[j] = dn[j - 1]
  <2>1. k \in 0..Len(dn) /\ (k = 0 \/ dn[k] = DOT)
    BY <1>1, <1>5 DEF Begins
  <2>2. PICK e : e = LabelEnd(dn, k)
    OBVIOUS
  <2>3. /\ e \in (k + 1)..(Len(dn) + 1)
        /\ e = Len(dn) + 1 \/ dn[e] = DOT
        /\ \A j \in (k + 1)..(e - 1) : dn[j] # DOT
    BY <1>1, <2>1, <2>2, LabelEnds
  <2>4. e - k - 1 \in 1..63
    BY <2>1, <2>2, QuestionAssumption
  <2>5. Encoded(dn)[k + 1] = e - k - 1
    <3>1. k + 1 # Len(dn) + 2 /\ (k + 1) - 1 = k /\ (k + 1 = 1 \/ dn[k] = DOT)
      BY <1>1, <2>1
    <3>2. Encoded(dn)[k + 1] = LabelSize(dn, k)
      BY <1>2, <1>3, <3>1
    <3>3. LabelSize(dn, k) = (e - k - 1) % 256
      BY <2>2 DEF LabelSize
    <3>4. \A v \in 1..63 : v % 256 = v
      OBVIOUS
    <3> QED
      BY <2>4, <3>2, <3>3, <3>4
  <2>6. ASSUME NEW j \in (k + 2)..e PROVE Encoded(dn)[j] = dn[j - 1]
    <3>1. j \in 1..(Len(dn) + 2) /\ j # Len(dn) + 2 /\ j # 1 /\ j - 1 \in (k + 1)..(e - 1)
      BY <1>1, <1>2, <2>3
    <3> QED
      BY <1>3, <2>3, <3>1
  <2>7. Begins(dn, e)
    BY <1>1, <1>2, <2>3 DEF Begins
  <2> QED
    BY <2>3, <2>4, <2>5, <2>6, <2>7
<1> QED
  BY <1>2, <1>4, <1>5

QuestionEnd(dn) == HEADER_SIZE + Len(dn) + 2
AnswerStart(dn) == QuestionEnd(dn) + 2 * FIELD_SIZE

(* The same in a packet that echoes the question. *)
LEMMA EchoedLabel ==
    ASSUME NEW dn \in Question, packet \in Seq(Byte), Echoes(dn), NEW k, Begins(dn, k),
           NEW o, o = HEADER_SIZE + k, NEW v, v = At(o), NEW e, e = k + 1 + v
    PROVE  /\ Has(o, 1) /\ o \in Nat
           /\ k = Len(dn) + 1 => v = 0
           /\ k # Len(dn) + 1 =>
                /\ v \in 1..63 /\ o + 1 + v <= Len(packet) /\ k + v <= Len(dn)
                /\ \A j \in 1..v : packet[o + 1 + j] = dn[k + j]
                /\ Begins(dn, e)
                /\ e = Len(dn) + 1 \/ dn[e] = DOT
<1>1. dn \in Seq(Byte) /\ Len(dn) \in Nat /\ HEADER_SIZE \in Nat /\ FIELD_SIZE \in Nat /\ Len(packet) \in Nat
  BY MessageAssumption
<1> DEFINE Q == HEADER_SIZE + Len(dn) + 2
<1>2. Q + 2 * FIELD_SIZE + 2 <= Len(packet) /\ SubSeq(packet, HEADER_SIZE + 1, Q) = Encoded(dn)
  BY DEF Echoes, Has
<1>3. \A j \in 1..(Len(dn) + 2) : packet[HEADER_SIZE + j] = Encoded(dn)[j]
  <2>1. \A j \in (HEADER_SIZE + 1)..Q : packet[j] \in Byte
    BY <1>1, <1>2
  <2>2. \A j \in 1..(Q - (HEADER_SIZE + 1) + 1) :
          SubSeq(packet, HEADER_SIZE + 1, Q)[j] = packet[(HEADER_SIZE + 1) + j - 1]
    BY <1>1, <2>1, SubSeqProperties
  <2>3. Q - (HEADER_SIZE + 1) + 1 = Len(dn) + 2 /\ \A j \in Nat : (HEADER_SIZE + 1) + j - 1 = HEADER_SIZE + j
    BY <1>1
  <2> HIDE DEF Q
  <2>4. \A j \in 1..(Len(dn) + 2) : j \in Nat
    BY <1>1
  <2> QED
    BY <1>2, <2>2, <2>3, <2>4
<1>4. /\ k \in Nat /\ k + 1 \in 1..(Len(dn) + 2)
      /\ k = Len(dn) + 1 => Encoded(dn)[k + 1] = 0
  BY EncodedLabel
<1>5. v = Encoded(dn)[k + 1]
  <2>1. o + 1 = HEADER_SIZE + (k + 1)
    BY <1>1, <1>4
  <2> QED
    BY <1>3, <1>4, <2>1 DEF At
<1>6. Has(o, 1) /\ o \in Nat
  BY <1>1, <1>2, <1>4 DEF Has
<1>7. ASSUME k # Len(dn) + 1
      PROVE  /\ v \in 1..63 /\ o + 1 + v <= Len(packet) /\ k + v <= Len(dn)
             /\ \A j \in 1..v : packet[o + 1 + j] = dn[k + j]
             /\ Begins(dn, e)
             /\ e = Len(dn) + 1 \/ dn[e] = DOT
  <2>1. PICK f : /\ f \in (k + 1)..(Len(dn) + 1) /\ Begins(dn, f)
                 /\ Encoded(dn)[k + 1] = f - k - 1 /\ f - k - 1 \in 1..63
                 /\ f = Len(dn) + 1 \/ dn[f] = DOT
                 /\ \A j \in (k + 2)..f : Encoded(dn)[j] = dn[j - 1]
    BY <1>7, EncodedLabel
  <2>3. v \in 1..63 /\ e = f
    <3>1. v = f - k - 1 /\ v \in 1..63
      BY <1>5, <2>1
    <3>2. f \in Nat
      BY <1>1, <1>4, <2>1
    <3>3. \A x, y \in Nat : y + 1 + (x - y - 1) = x
      OBVIOUS
    <3>4. k + 1 + (f - k - 1) = f
      BY <1>4, <3>2, <3>3
    <3> QED
      BY <3>1, <3>4
  <2>4. k + v <= Len(dn) /\ o + 1 + v <= Len(packet)
    <3>1. k + 1 + v <= Len(dn) + 1 /\ v \in Nat
      <4>1. f \in (k + 1)..(Len(dn) + 1) /\ k + 1 + v = f /\ v \in 1..63
        BY <2>1, <2>3
      <4> QED
        BY <1>1, <1>4, <4>1
    <3>2. HEADER_SIZE + Len(dn) + 2 <= Len(packet)
      <4>1. HEADER_SIZE + Len(dn) + 2 + 2 * FIELD_SIZE + 2 <= Len(packet)
        BY <1>2
      <4> QED
        BY <1>1, <4>1
    <3> QED
      BY <1>1, <1>4, <3>1, <3>2
  <2>5. ASSUME NEW j \in 1..v PROVE packet[o + 1 + j] = dn[k + j]
    <3>1. /\ o + 1 + j = HEADER_SIZE + (k + 1 + j) /\ k + 1 + j \in (k + 2)..e
          /\ k + 1 + j \in 1..(Len(dn) + 2) /\ (k + 1 + j) - 1 = k + j
      BY <1>1, <1>4, <2>1, <2>3
    <3>2. PICK i : i = k + 1 + j
      OBVIOUS
    <3>3. packet[HEADER_SIZE + i] = Encoded(dn)[i] /\ Encoded(dn)[i] = dn[i - 1]
      BY <1>3, <2>1, <2>3, <3>1, <3>2
    <3> QED
      BY <3>1, <3>2, <3>3
  <2> QED
    BY <2>1, <2>3, <2>4, <2>5
<1> QED
  BY <1>4, <1>5, <1>6, <1>7

(* The v bytes of p behind o are the label of d behind k, and a dot ends it. *)
LabelCopied(d, k, v, p, o) ==
    /\ d \in Seq(Byte) /\ k \in Nat /\ v \in Nat /\ k + 1 + v <= Len(d) /\ d[k + 1 + v] = DOT
    /\ p \in Seq(Byte) /\ o \in Nat /\ o + v <= Len(p)
    /\ \A j \in 1..v : p[o + j] = d[k + j]

First(d, k) == SubSeq(d, 1, k)
Grown(text, p, l, r) == text \o SubSeq(p, l, r) \o <<DOT>>

LEMMA TextGrows ==
    ASSUME NEW d, NEW k, NEW v, NEW p, NEW o, LabelCopied(d, k, v, p, o)
    PROVE  Grown(First(d, k), p, o + 1, o + v) = First(d, k + 1 + v)
<1>1. /\ d \in Seq(Byte) /\ k \in Nat /\ v \in Nat
      /\ p \in Seq(Byte) /\ o \in Nat /\ o + v <= Len(p)
      /\ \A j \in 1..v : p[o + j] = d[k + j]
  BY DEF LabelCopied
<1>2. DOT \in Byte /\ Len(d) \in Nat
  BY <1>1, DotIsByte
<1>3. PICK m \in Nat : m = k + v
  BY <1>1
<1>4. PICK e \in Nat : e = m + 1
  BY <1>3
<1>5. e = k + 1 + v /\ e <= Len(d) /\ d[e] = DOT /\ k <= Len(d)
  <2>1. e = k + 1 + v
    BY <1>1, <1>3, <1>4
  <2>2. e <= Len(d) /\ d[e] = DOT
    BY <2>1 DEF LabelCopied
  <2> QED
    BY <1>1, <1>2, <2>1, <2>2
<1>6. PICK a \in Seq(Byte) : /\ a = SubSeq(d, 1, k) /\ Len(a) = k
                             /\ \A j \in 1..k : a[j] = d[j]
  <2>1. 0 + k <= Len(d) /\ 1 = 0 + 1 /\ k = 0 + k
    BY <1>1, <1>5
  <2>2. /\ SubSeq(d, 1, k) \in Seq(Byte) /\ Len(SubSeq(d, 1, k)) = k
        /\ \A j \in 1..k : SubSeq(d, 1, k)[j] = d[0 + j]
    BY <1>1, <2>1, Prefix
  <2>3. \A j \in 1..k : 0 + j = j
    BY <1>1
  <2> QED
    BY <2>2, <2>3
<1>7. PICK b \in Seq(Byte) : /\ b = SubSeq(p, o + 1, o + v) /\ Len(b) = v
                             /\ \A j \in 1..v : b[j] = p[o + j]
  <2>1. PICK l \in Int : l = o + 1
    BY <1>1
  <2>2. PICK r \in Int : r = o + v
    BY <1>1
  <2>3. /\ SubSeq(p, l, r) \in Seq(Byte) /\ Len(SubSeq(p, l, r)) = v
        /\ \A j \in 1..v : SubSeq(p, l, r)[j] = p[o + j]
    BY <1>1, <2>1, <2>2, Prefix
  <2> QED
    BY <2>1, <2>2, <2>3
<1>8. PICK c \in Seq(Byte) : c = a \o b /\ Len(c) = m /\ \A j \in 1..m : c[j] = d[j]
  <2>1. /\ a \o b \in Seq(Byte) /\ Len(a \o b) = k + v
        /\ \A j \in 1..(k + v) : (a \o b)[j] = IF j <= k THEN a[j] ELSE b[j - k]
    <3>1. Len(a) = k /\ Len(b) = v
      BY <1>6, <1>7
    <3> QED
      BY <3>1, Joined
  <2>2. ASSUME NEW j \in 1..m PROVE (a \o b)[j] = d[j]
    <3>1. j \in 1..(k + v)
      BY <1>3
    <3>2. CASE j <= k
      <4>1. j \in 1..k
        BY <1>1, <3>2
      <4> QED
        BY <1>6, <2>1, <3>1, <3>2, <4>1
    <3>3. CASE ~(j <= k)
      <4>1. j - k \in 1..v /\ k + (j - k) = j
        BY <1>1, <3>1, <3>3
      <4>2. (a \o b)[j] = b[j - k]
        BY <2>1, <3>1, <3>3
      <4>3. b[j - k] = d[k + (j - k)]
        BY <1>1, <1>7, <4>1
      <4> QED
        BY <4>1, <4>2, <4>3
    <3> QED
      BY <3>2, <3>3
  <2> QED
    BY <1>3, <2>1, <2>2
<1>9. PICK w \in Seq(Byte) : w = c \o <<DOT>> /\ Len(w) = e /\ \A j \in 1..e : w[j] = d[j]
  <2>1. <<DOT>> \in Seq(Byte) /\ Len(<<DOT>>) = 1 /\ <<DOT>>[1] = DOT
    BY <1>2
  <2>2. PICK t \in Seq(Byte) : t = <<DOT>> /\ Len(t) = 1 /\ t[1] = DOT
    BY <2>1
  <2>3. /\ c \o t \in Seq(Byte) /\ Len(c \o t) = m + 1
        /\ \A j \in 1..(m + 1) : (c \o t)[j] = IF j <= m THEN c[j] ELSE t[j - m]
    <3>1. Len(c) = m /\ Len(t) = 1
      BY <1>8, <2>2
    <3>2. /\ c \o t \in Seq(Byte) /\ Len(c \o t) = Len(c) + Len(t)
          /\ \A j \in 1..(Len(c) + Len(t)) :
               (c \o t)[j] = IF j <= Len(c) THEN c[j] ELSE t[j - Len(c)]
      BY ConcatProperties
    <3> QED
      BY <3>1, <3>2
  <2>4. ASSUME NEW j \in 1..(m + 1) PROVE (c \o t)[j] = d[j]
    <3>1. CASE j <= m
      <4>1. j \in 1..m
        BY <3>1
      <4> QED
        BY <1>8, <2>3, <3>1, <4>1
    <3>2. CASE ~(j <= m)
      <4>1. j - m = 1 /\ j = e
        BY <1>4, <3>2, LastItem
      <4> QED
        BY <1>5, <2>2, <2>3, <3>2, <4>1
    <3> QED
      BY <3>1, <3>2
  <2> QED
    BY <1>4, <2>2, <2>3, <2>4
<1>10. PICK u \in Seq(Byte) : u = SubSeq(d, 1, e) /\ Len(u) = e /\ \A j \in 1..e : u[j] = d[j]
  <2>1. 0 + e <= Len(d) /\ 1 = 0 + 1 /\ e = 0 + e
    BY <1>5
  <2>2. /\ SubSeq(d, 1, e) \in Seq(Byte) /\ Len(SubSeq(d, 1, e)) = e
        /\ \A j \in 1..e : SubSeq(d, 1, e)[j] = d[0 + j]
    BY <1>1, <2>1, Prefix
  <2>3. \A j \in 1..e : 0 + j = j
    OBVIOUS
  <2> QED
    BY <2>2, <2>3
<1>11. w = u
  <2>1. Len(w) = Len(u) /\ \A j \in 1..Len(w) : w[j] = u[j]
    BY <1>9, <1>10
  <2> QED
    BY <2>1, SeqEqual
<1> QED
  BY <1>5, <1>6, <1>7, <1>8, <1>9, <1>10, <1>11 DEF First, Grown

LEMMA EchoFacts ==
    ASSUME NEW dn \in Question, packet \in Seq(Byte), Echoes(dn)
    PROVE  /\ header = <<"query", "answer">>
           /\ Has(QuestionEnd(dn), 2 * FIELD_SIZE) /\ AnswerStart(dn) \in Nat
           /\ Has(AnswerStart(dn), 1) /\ Has(AnswerStart(dn), 2)
           /\ At(AnswerStart(dn)) = 192 /\ At(AnswerStart(dn) + 1) = HEADER_SIZE
           /\ Target(AnswerStart(dn)) = HEADER_SIZE
<1>1. dn \in Seq(Byte) /\ Len(dn) \in Nat /\ HEADER_SIZE \in Nat /\ FIELD_SIZE \in Nat /\ Len(packet) \in Nat
  BY MessageAssumption
<1>2. PICK o : o = AnswerStart(dn)
  OBVIOUS
<1>3. o \in Nat /\ o = HEADER_SIZE + Len(dn) + 2 + 2 * FIELD_SIZE
  BY <1>1, <1>2 DEF AnswerStart, QuestionEnd
<1>4. o + 2 <= Len(packet) /\ SubSeq(packet, o + 1, o + 2) = <<192, HEADER_SIZE>> /\ header = <<"query", "answer">>
  BY <1>3 DEF Echoes, Has
<1>5. packet[o + 1] = 192 /\ packet[(o + 1) + 1] = HEADER_SIZE
  <2>1. PICK b \in Seq(Byte) : b = packet
    OBVIOUS
  <2>2. PICK l \in Int : l = o + 1
    BY <1>3
  <2>3. PICK r \in Int : r = o + 2
    BY <1>3
  <2>4. r <= Len(b) /\ SubSeq(b, l, r) = <<192, HEADER_SIZE>>
    BY <1>4, <2>1, <2>2, <2>3
  <2>5. b[l] = 192 /\ b[r] = HEADER_SIZE
    BY <1>3, <2>2, <2>3, <2>4, TwoItems
  <2>6. r = (o + 1) + 1
    BY <1>3, <2>3
  <2> QED
    BY <2>1, <2>2, <2>5, <2>6
<1>6. (192 % 64) * 256 + HEADER_SIZE = HEADER_SIZE
  BY <1>1
<1>7. /\ o + 1 <= Len(packet)
      /\ (HEADER_SIZE + Len(dn) + 2) + 2 * FIELD_SIZE <= Len(packet)
  BY <1>1, <1>3, <1>4
<1> QED
  BY <1>2, <1>3, <1>4, <1>5, <1>6, <1>7 DEF Has, At, Target, QuestionEnd

(* How far the question and the name of its answer have been read. *)
ReadBack(dn) ==
    \/ doing = "header" /\ offset = 0
    \/ doing = "returned" /\ (offset = 0 \/ rr.name = dn)
    \/ /\ doing = "qname" /\ todo = header /\ ~jumped
       /\ \E k : Begins(dn, k) /\ at = HEADER_SIZE + k /\ total_length <= k
    \/ doing = "tail" /\ todo = header /\ offset = QuestionEnd(dn)
    \/ /\ doing = "name" /\ todo = Tail(header) /\ ~jumped
       /\ at = AnswerStart(dn) /\ total_length = 0 /\ domain = << >>
    \/ /\ doing = "name" /\ todo = Tail(header) /\ jumped
       /\ \E k : /\ Begins(dn, k) /\ at = HEADER_SIZE + k /\ total_length = k
                 /\ domain = First(Append(dn, DOT), k)
    \/ doing \in {"meta", "rdata", "cname"} /\ todo = Tail(header) /\ rr.name = dn

(* In the echoed name there is a label that fits, or the end. *)
LEMMA LabelFits ==
    ASSUME NEW dn \in Question, MessageInv, Echoes(dn), NEW k, Begins(dn, k),
           at = HEADER_SIZE + k, total_length <= k
    PROVE  /\ Has(at, 1) /\ ~IsPointer(At(at))
           /\ IsLabel(At(at)) => TakesLabel
           /\ At(at) = 0 <=> k = Len(dn) + 1
           /\ IsLabel(At(at)) <=> k # Len(dn) + 1
<1>1. packet \in Seq(Byte) /\ total_length \in Nat /\ Len(dn) <= DNML /\ Len(dn) \in Nat /\ DNML \in Nat
  BY MessageAssumption, QuestionAssumption DEF MessageInv
<1>2. k \in Nat
  BY <1>1 DEF Begins
<1>3. PICK o : o = at
  OBVIOUS
<1>4. PICK v : v = At(o)
  OBVIOUS
<1>5. PICK e : e = k + 1 + v
  OBVIOUS
<1>6. o = HEADER_SIZE + k
  BY <1>3
<1>7. /\ Has(o, 1) /\ o \in Nat
      /\ k = Len(dn) + 1 => v = 0
      /\ k # Len(dn) + 1 => v \in 1..63 /\ o + 1 + v <= Len(packet) /\ k + v <= Len(dn)
  BY <1>1, <1>4, <1>5, <1>6, EchoedLabel
<1>8. CASE k = Len(dn) + 1
  <2>1. ~(0 >= 64) /\ 0 \notin 1..63
    OBVIOUS
  <2> QED
    BY <1>3, <1>4, <1>7, <1>8, <2>1 DEF IsPointer, IsLabel
<1>9. CASE k # Len(dn) + 1
  <2>1. v \in 1..63 /\ o + 1 + v <= Len(packet) /\ k + v <= Len(dn)
    BY <1>7, <1>9
  <2>2. ~(v >= 64) /\ v # 0 /\ ~(total_length + v > DNML)
    BY <1>1, <1>2, <2>1
  <2>3. o + (1 + v) <= Len(packet)
    <3>1. \A x, y \in Nat : x + (1 + y) = x + 1 + y
      OBVIOUS
    <3> QED
      BY <1>7, <2>1, <3>1
  <2> QED
    BY <1>3, <1>4, <1>7, <1>9, <2>1, <2>2, <2>3 DEF IsPointer, IsLabel, TakesLabel, TooLong, Has
<1> QED
  BY <1>8, <1>9

LEMMA ReadBackLabel ==
    ASSUME NEW dn \in Question, MessageInv, Echoes(dn), ReadBack(dn), Label
    PROVE  ReadBack(dn)'
<1>0. dn \in Seq(Byte) /\ packet \in Seq(Byte) /\ Len(dn) \in Nat
  BY MessageAssumption DEF MessageInv
<1>1. IsLabel(At(at)) /\ doing \in {"qname", "name", "cname"}
  BY DEF Label, ReadingName
<1>2. /\ UNCHANGED <<todo, header, doing, jumped, rr>>
      /\ at' = at + 1 + At(at)
      /\ total_length' = total_length + At(at) + (IF doing # "qname" THEN 1 ELSE 0)
      /\ doing # "qname" => domain' = domain \o SubSeq(packet, at + 2, at') \o <<DOT>>
  BY DEF Label, Kept
<1>3. CASE doing = "qname"
  <2>1. todo = header /\ ~jumped
    BY <1>3 DEF ReadBack
  <2>2. PICK k : Begins(dn, k) /\ at = HEADER_SIZE + k /\ total_length <= k
    BY <1>3 DEF ReadBack
  <2>3. k # Len(dn) + 1
    BY <1>1, <2>2, LabelFits
  <2>4. PICK v : v = At(at)
    OBVIOUS
  <2>5. PICK e : v \in 1..63 /\ e = k + 1 + v /\ Begins(dn, e)
    <3>1. PICK o : o = at
      OBVIOUS
    <3>2. PICK f : f = k + 1 + v
      OBVIOUS
    <3>3. o = HEADER_SIZE + k /\ v = At(o)
      BY <2>2, <2>4, <3>1
    <3>4. k # Len(dn) + 1 => v \in 1..63 /\ Begins(dn, f)
      BY <1>0, <2>2, <3>2, <3>3, EchoedLabel
    <3> QED
      BY <2>3, <3>2, <3>4
  <2>6. k \in Nat /\ HEADER_SIZE \in Nat /\ total_length \in Nat
    BY <1>0, <2>2, MessageAssumption DEF Begins, MessageInv
  <2>7. at' = HEADER_SIZE + e /\ total_length' <= e
    <3>1. at' = at + 1 + v /\ total_length' = total_length + v + 0
      BY <1>2, <1>3, <2>4
    <3> QED
      BY <2>2, <2>5, <2>6, <3>1
  <2> QED
    BY <1>2, <1>3, <2>1, <2>5, <2>7 DEF ReadBack
<1>4. CASE doing = "name"
  <2>1. todo = Tail(header)
    BY <1>4 DEF ReadBack
  <2>2. CASE ~jumped
    <3>1. At(at) = 192
      BY <1>0, <1>4, <2>2, EchoFacts DEF ReadBack
    <3> QED
      BY <1>1, <3>1 DEF IsLabel
  <2>3. CASE jumped
    <3>1. PICK k : /\ Begins(dn, k) /\ at = HEADER_SIZE + k /\ total_length = k
                   /\ domain = First(Append(dn, DOT), k)
      BY <1>4, <2>3 DEF ReadBack
    <3>0. Begins(dn, k) /\ at = HEADER_SIZE + k /\ total_length = k
      BY <3>1
    <3>2. k \in Nat /\ HEADER_SIZE \in Nat /\ total_length <= k
      BY <1>0, <3>0, MessageAssumption DEF Begins
    <3>3. k # Len(dn) + 1
      BY <1>1, <3>0, <3>2, LabelFits
    <3>4. PICK v : v = At(at)
      OBVIOUS
    <3>5. PICK e : /\ v \in 1..63 /\ at + 1 + v <= Len(packet) /\ k + v <= Len(dn) /\ at \in Nat
                   /\ \A j \in 1..v : packet[at + 1 + j] = dn[k + j]
                   /\ e = k + 1 + v /\ Begins(dn, e)
                   /\ e = Len(dn) + 1 \/ dn[e] = DOT
      <4>1. PICK o : o = at
        OBVIOUS
      <4>2. PICK f : f = k + 1 + v
        OBVIOUS
      <4>3. o = HEADER_SIZE + k /\ v = At(o)
        BY <3>0, <3>4, <4>1
      <4>4. /\ Has(o, 1) /\ o \in Nat
            /\ k # Len(dn) + 1 =>
                 /\ v \in 1..63 /\ o + 1 + v <= Len(packet) /\ k + v <= Len(dn)
                 /\ \A j \in 1..v : packet[o + 1 + j] = dn[k + j]
                 /\ Begins(dn, f)
                 /\ f = Len(dn) + 1 \/ dn[f] = DOT
        BY <1>0, <3>0, <4>2, <4>3, EchoedLabel
      <4> QED
        BY <3>3, <4>1, <4>2, <4>4
    <3>6. at' = at + 1 + v /\ total_length' = total_length + v + 1
      BY <1>2, <1>4, <3>4
    <3>7. at' = HEADER_SIZE + e /\ total_length' = e
      <4>0. v \in 1..63 /\ e = k + 1 + v
        BY <3>5
      <4>1. at = HEADER_SIZE + k /\ total_length = k /\ e = k + 1 + v /\ v \in Nat
        BY ONLY <3>0, <4>0
      <4> QED
        BY <3>2, <3>6, <4>1
    <3>8. domain' = First(Append(dn, DOT), e)
      <4>1. PICK d : d = Append(dn, DOT)
        OBVIOUS
      <4>2. d[e] = DOT
        <5>1. d[Len(dn) + 1] = DOT /\ \A j \in 1..Len(dn) : d[j] = dn[j]
          BY <1>0, <4>1, AppendProperties, DotIsByte
        <5>2. CASE e = Len(dn) + 1
          BY <3>5, <5>1, <5>2
        <5>3. CASE e # Len(dn) + 1
          <6>1. e \in 1..Len(dn)
            BY <1>0, <3>2, <3>5, <5>3
          <6> QED
            BY <3>5, <5>1, <5>3, <6>1
        <5> QED
          BY <5>2, <5>3
      <4>3. /\ d \in Seq(Byte) /\ Len(d) = Len(dn) + 1
            /\ \A j \in 1..Len(dn) : d[j] = dn[j]
        BY <1>0, <4>1, AppendProperties, DotIsByte
      <4>4. v \in Nat /\ HEADER_SIZE \in Nat
        BY <3>2, <3>5
      <4>5. PICK o \in Nat : o = at + 1
        BY <3>5
      <4>6. PICK b : b = packet
        OBVIOUS
      <4>7. LabelCopied(d, k, v, b, o)
        <5>1. k + 1 + v = e /\ k + v <= Len(dn) /\ at + 1 + v <= Len(b)
          BY <3>5, <4>6
        <5>2. k + 1 + v <= Len(d) /\ o + v <= Len(b)
          BY <1>0, <3>2, <3>5, <4>3, <4>4, <4>5, <5>1
        <5>3. ASSUME NEW j \in 1..v PROVE b[o + j] = d[k + j]
          <6>1. k + j \in 1..Len(dn)
            BY <1>0, <3>2, <4>4, <5>1
          <6>2. b[o + j] = dn[k + j]
            BY <3>5, <4>5, <4>6
          <6> QED
            BY <4>3, <6>1, <6>2
        <5> QED
          BY <1>0, <3>2, <4>2, <4>3, <4>4, <4>6, <5>1, <5>2, <5>3 DEF LabelCopied
      <4>8. Grown(First(d, k), b, o + 1, o + v) = First(d, k + 1 + v)
        BY <4>7, TextGrows
      <4>9. o + 1 = at + 2 /\ o + v = at' /\ k + 1 + v = e
        BY <3>5, <3>6, <4>4, <4>5
      <4>10. domain' = Grown(First(d, k), b, o + 1, o + v)
        BY <1>2, <1>4, <3>1, <4>1, <4>6, <4>9 DEF Grown
      <4> QED
        BY <4>1, <4>8, <4>9, <4>10
    <3> QED
      BY <1>2, <1>4, <2>1, <2>3, <3>5, <3>7, <3>8 DEF ReadBack
  <2> QED
    BY <2>2, <2>3
<1>5. CASE doing = "cname"
  BY <1>2, <1>5 DEF ReadBack
<1> QED
  BY <1>1, <1>3, <1>4, <1>5

LEMMA ReadBackNext ==
    ASSUME NEW dn \in Question, MessageInv, Echoes(dn), ReadBack(dn), MessageNext
    PROVE  ReadBack(dn)'
<1>0. /\ dn \in Seq(Byte) /\ packet \in Seq(Byte) /\ Len(dn) \in Nat
      /\ HEADER_SIZE \in Nat /\ FIELD_SIZE \in Nat /\ DNML \in Nat
  BY MessageAssumption DEF MessageInv
<1>1. /\ header = <<"query", "answer">>
      /\ header[1] = "query" /\ header # << >>
      /\ Tail(header)[1] = "answer" /\ Tail(header) # << >> /\ Tail(Tail(header)) = << >>
  <2>1. header = <<"query", "answer">>
    BY <1>0, EchoFacts
  <2> QED
    BY <2>1
<1>2. PICK p : p = AnswerStart(dn)
  OBVIOUS
<1>3. /\ Has(QuestionEnd(dn), 2 * FIELD_SIZE) /\ QuestionEnd(dn) + 2 * FIELD_SIZE = p
      /\ Has(p, 1) /\ Has(p, 2) /\ At(p) = 192 /\ Target(p) = HEADER_SIZE
      /\ IsPointer(At(p)) /\ ~IsLabel(At(p)) /\ At(p) # 0
  <2>1. /\ Has(QuestionEnd(dn), 2 * FIELD_SIZE)
        /\ Has(p, 1) /\ Has(p, 2) /\ At(p) = 192 /\ Target(p) = HEADER_SIZE
    BY <1>0, <1>2, EchoFacts
  <2>2. IsPointer(192) /\ ~IsLabel(192) /\ 192 # 0
    BY DEF IsPointer, IsLabel
  <2> QED
    BY <1>2, <2>1, <2>2 DEF AnswerStart
<1>4. \A k : Begins(dn, k) => k \in Nat
  BY <1>0 DEF Begins
<1>5. CASE HeaderIsRead
  <2>1. /\ doing' = "qname" /\ at' = HEADER_SIZE /\ ~jumped' /\ total_length' = 0
        /\ todo' = header /\ header' = header
    BY <1>1, <1>5 DEF HeaderIsRead, GoesOn
  <2>2. Begins(dn, 0) /\ at' = HEADER_SIZE + 0 /\ total_length' <= 0
    BY <1>0, <2>1 DEF Begins
  <2> QED
    BY <2>1, <2>2 DEF ReadBack
<1>6. CASE HeaderFails
  BY <1>6 DEF HeaderFails, Fails, ReadBack
<1>7. CASE Label
  BY <1>7, ReadBackLabel
<1>8. CASE Pointer
  <2>1. /\ IsPointer(At(at)) /\ doing \in {"qname", "name", "cname"}
        /\ UNCHANGED <<todo, header, doing, total_length, domain, rr>>
        /\ at' = Target(at) /\ jumped'
    BY <1>8 DEF Pointer, ReadingName
  <2>2. CASE doing = "qname"
    <3>1. PICK k : Begins(dn, k) /\ at = HEADER_SIZE + k /\ total_length <= k
      BY <2>2 DEF ReadBack
    <3> QED
      BY <2>1, <3>1, LabelFits
  <2>3. CASE doing = "name" /\ jumped
    <3>1. PICK k : Begins(dn, k) /\ at = HEADER_SIZE + k /\ total_length = k
      BY <2>3 DEF ReadBack
    <3>2. total_length <= k
      BY <1>4, <3>1
    <3> QED
      BY <2>1, <3>1, <3>2, LabelFits
  <2>4. CASE doing = "name" /\ ~jumped
    <3>1. at = p /\ total_length = 0 /\ domain = << >> /\ todo = Tail(header)
      BY <1>2, <2>4 DEF ReadBack
    <3>2. /\ Begins(dn, 0) /\ at' = HEADER_SIZE + 0 /\ total_length' = 0
          /\ domain' = First(Append(dn, DOT), 0)
      <4>1. First(Append(dn, DOT), 0) = << >>
        BY SubSeqEmpty DEF First
      <4>2. HEADER_SIZE + 0 = HEADER_SIZE /\ 0 \in 0..(Len(dn) + 1)
        BY <1>0
      <4> QED
        BY <1>3, <2>1, <3>1, <4>1, <4>2 DEF Begins
    <3> QED
      BY <2>1, <2>4, <3>1, <3>2 DEF ReadBack
  <2>5. CASE doing = "cname"
    BY <2>1, <2>5 DEF ReadBack
  <2> QED
    BY <2>1, <2>2, <2>3, <2>4, <2>5
<1>9. CASE NameFails
  <2>1. /\ doing \in {"qname", "name", "cname"}
        /\ \/ ~Has(at, 1)
           \/ Has(at, 1) /\ IsLabel(At(at)) /\ ~TakesLabel
           \/ Has(at, 1) /\ IsPointer(At(at)) /\ ~Has(at, 2)
        /\ doing' = "returned" /\ rr' = rr
    BY <1>9 DEF NameFails, ReadingName, Fails
  <2>2. CASE doing = "qname"
    <3>1. PICK k : Begins(dn, k) /\ at = HEADER_SIZE + k /\ total_length <= k
      BY <2>2 DEF ReadBack
    <3> QED
      BY <2>1, <3>1, LabelFits
  <2>3. CASE doing = "name" /\ jumped
    <3>1. PICK k : Begins(dn, k) /\ at = HEADER_SIZE + k /\ total_length = k
      BY <2>3 DEF ReadBack
    <3>2. total_length <= k
      BY <1>4, <3>1
    <3> QED
      BY <2>1, <3>1, <3>2, LabelFits
  <2>4. CASE doing = "name" /\ ~jumped
    <3>1. at = p
      BY <1>2, <2>4 DEF ReadBack
    <3> QED
      BY <1>3, <2>1, <3>1
  <2>5. CASE doing = "cname"
    BY <2>1, <2>5 DEF ReadBack
  <2> QED
    BY <2>1, <2>2, <2>3, <2>4, <2>5
<1>10. CASE QuestionNameEnds
  <2>1. /\ doing = "qname" /\ At(at) = 0 /\ offset' = AfterName /\ doing' = "tail"
        /\ UNCHANGED <<todo, header>>
    BY <1>10 DEF QuestionNameEnds, AtNameEnd
  <2>2. PICK k : Begins(dn, k) /\ at = HEADER_SIZE + k /\ total_length <= k
    BY <2>1 DEF ReadBack
  <2>3. k = Len(dn) + 1
    BY <2>1, <2>2, LabelFits
  <2>4. todo = header /\ AfterName = at + 1
    BY <2>1 DEF ReadBack, AfterName
  <2>5. offset' = QuestionEnd(dn)
    BY <1>0, <2>1, <2>2, <2>3, <2>4 DEF QuestionEnd
  <2> QED
    BY <2>1, <2>4, <2>5 DEF ReadBack
<1>11. CASE QuestionEnds
  <2>1. doing = "tail"
    BY <1>11 DEF QuestionEnds
  <2>2. todo = header /\ offset = QuestionEnd(dn)
    BY <2>1 DEF ReadBack
  <2>3. GoesOn(p, Tail(header)) /\ UNCHANGED header
    BY <1>3, <1>11, <2>2 DEF QuestionEnds
  <2>4. /\ doing' = "name" /\ at' = p /\ ~jumped' /\ total_length' = 0 /\ domain' = << >>
        /\ todo' = Tail(header) /\ header' = header
    BY <1>1, <2>3 DEF GoesOn
  <2> QED
    BY <1>2, <2>4 DEF ReadBack
<1>12. CASE NameEnds
  <2>1. /\ doing = "name" /\ At(at) = 0 /\ doing' = "meta"
        /\ rr' = [rr EXCEPT !.name = Text] /\ UNCHANGED <<todo, header>>
    BY <1>12 DEF NameEnds, AtNameEnd
  <2>2. todo = Tail(header)
    BY <2>1 DEF ReadBack
  <2>3. jumped
    BY <1>2, <1>3, <2>1 DEF ReadBack
  <2>4. PICK k : /\ Begins(dn, k) /\ at = HEADER_SIZE + k /\ total_length = k
                 /\ domain = First(Append(dn, DOT), k)
    BY <2>1, <2>3 DEF ReadBack
  <2>5. total_length <= k
    BY <1>4, <2>4
  <2>6. k = Len(dn) + 1
    BY <2>1, <2>4, <2>5, LabelFits
  <2>7. PICK d : d = Append(dn, DOT)
    OBVIOUS
  <2>8. d \in Seq(Byte) /\ Len(d) = Len(dn) + 1 /\ \A j \in 1..Len(dn) : d[j] = dn[j]
    BY <1>0, <2>7, AppendProperties, DotIsByte
  <2>9. domain = d
    <3>1. SubSeq(d, 1, Len(d)) = d
      BY <2>8, SubSeqFull
    <3> QED
      BY <2>4, <2>6, <2>7, <2>8, <3>1 DEF First
  <2>10. Text = SubSeq(d, 1, Len(dn))
    <3>1. d # << >> /\ Len(d) - 1 = Len(dn)
      BY <1>0, <2>8, EmptySeq
    <3> QED
      BY <2>9, <3>1 DEF Text
  <2>11. SubSeq(d, 1, Len(dn)) = dn
    <3>1. 0 + Len(dn) <= Len(d) /\ 1 = 0 + 1 /\ Len(dn) = 0 + Len(dn) /\ Len(dn) \in Int
      BY <1>0, <2>8
    <3>2. PICK u : u = SubSeq(d, 1, Len(dn))
      OBVIOUS
    <3>3. u \in Seq(Byte) /\ Len(u) = Len(dn) /\ \A j \in 1..Len(dn) : u[j] = d[0 + j]
      BY <1>0, <2>8, <3>1, <3>2, Prefix
    <3>4. \A j \in 1..Len(dn) : 0 + j = j
      BY <1>0
    <3>5. \A j \in 1..Len(u) : u[j] = dn[j]
      BY <2>8, <3>3, <3>4
    <3>6. u = dn
      BY <1>0, <3>3, <3>5, SeqEqual
    <3> QED
      BY <3>2, <3>6
  <2>12. rr'.name = dn
    <3>1. rr \in Record
      BY DEF MessageInv
    <3>2. \A r \in Record : \A t : [r EXCEPT !.name = t].name = t
      BY DEF Record
    <3> QED
      BY <2>1, <2>10, <2>11, <3>1, <3>2
  <2> QED
    BY <2>1, <2>2, <2>12 DEF ReadBack
<1>13. ASSUME NEW meta \in Meta, MetaIsRead(meta) PROVE ReadBack(dn)'
  <2>1. /\ doing = "meta" /\ doing' \in {"cname", "rdata"} /\ UNCHANGED <<todo, header>>
        /\ rr' = [rr EXCEPT !.meta = meta]
    BY <1>13 DEF MetaIsRead
  <2>2. rr'.name = rr.name
    <3>1. rr \in Record
      BY DEF MessageInv
    <3>2. \A r \in Record : \A t : [r EXCEPT !.meta = t].name = r.name
      BY DEF Record
    <3> QED
      BY <2>1, <3>1, <3>2
  <2> QED
    BY <2>1, <2>2 DEF ReadBack
<1>14. CASE MetaFails \/ DataFails \/ AliasFails
  <2>1. doing \in {"meta", "rdata", "cname"} /\ doing' = "returned" /\ rr' = rr
    BY <1>14 DEF MetaFails, DataFails, AliasFails, Fails
  <2> QED
    BY <2>1 DEF ReadBack
<1>15. CASE DataEnds \/ AliasEnds
  <2>1. /\ doing \in {"rdata", "cname"} /\ UNCHANGED rr
        /\ \E o : GoesOn(o, Tail(todo))
    BY <1>15 DEF DataEnds, AliasEnds, RecordEnds
  <2>2. todo = Tail(header) /\ rr.name = dn
    BY <2>1 DEF ReadBack
  <2>3. doing' = "returned"
    BY <1>1, <2>1, <2>2 DEF GoesOn
  <2> QED
    BY <2>1, <2>2, <2>3 DEF ReadBack
<1>16. CASE Returned
  BY <1>16 DEF Returned, messageVars, reading, ReadBack
<1> QED
  BY <1>5, <1>6, <1>7, <1>8, <1>9, <1>10, <1>11, <1>12, <1>13, <1>14, <1>15, <1>16
     DEF MessageNext, Reads

ReadsBack == \A dn \in Question : Echoes(dn) => ReadBack(dn)

(* Whatever labels a name has that fit its length: when an answer points to  *)
(* it in the question, its record gets that very name.                       *)
THEOREM QuestionsReadBack == MessageSpec => []QuestionReadsBack
<1>1. MessageInit => ReadsBack
  BY DEF MessageInit, ReadsBack, ReadBack
<1>2. MessageInv /\ ReadsBack /\ [MessageNext]_messageVars => ReadsBack'
  <2> SUFFICES ASSUME MessageInv, ReadsBack, [MessageNext]_messageVars,
                      NEW dn \in Question, Echoes(dn)'
               PROVE  ReadBack(dn)'
    BY DEF ReadsBack
  <2>1. UNCHANGED <<packet, header>>
    BY DEF MessageNext, Reads, HeaderIsRead, HeaderFails, Label, Pointer, NameFails, QuestionNameEnds,
           QuestionEnds, NameEnds, MetaIsRead, MetaFails, DataEnds, DataFails, AliasEnds, AliasFails,
           RecordEnds, Fails, Returned, messageVars
  <2>2. Echoes(dn) /\ ReadBack(dn)
    BY <2>1 DEF Echoes, Has, ReadsBack
  <2>3. CASE UNCHANGED messageVars
    BY <2>2, <2>3 DEF messageVars, reading, ReadBack
  <2> QED
    BY <2>2, <2>3, ReadBackNext
<1>3. ReadsBack => QuestionReadsBack
  BY DEF ReadsBack, ReadBack, QuestionReadsBack
<1>4. MessageInv /\ UNCHANGED messageVars => MessageInv'
  BY DEF messageVars, reading, MessageInv, ReadingName, Kept
<1>5. MessageInv /\ [MessageNext]_messageVars => MessageInv'
  BY <1>4, MessageInvNext
<1> QED
  BY <1>1, <1>2, <1>3, <1>5, MessageInvInit, PTL DEF MessageSpec
=============================================================================
