-------------------------- MODULE Socks5ServerProofs --------------------------
(***************************************************************************)
(* The SOCKS5 server, for any number of clients, blocks and descriptors,   *)
(* whatever the clients send and however it is cut into segments: it       *)
(* implements the event loop, so what is proved of the loop in             *)
(* EventLoopProofs holds with the server's handlers in it; its sessions    *)
(* stay matched with its connections; and a client is sent the reply it    *)
(* was promised, and no other.                                             *)
(***************************************************************************)
EXTENDS Socks5Server, SequenceTheorems, TLAPS

LoopProofs == INSTANCE EventLoopProofs

LEMMA ReadyIsEvents ==
    \A s \in Slot : Ready(s) \in SUBSET Loop!Event
  BY DEF Ready, Loop!Event

LEMMA LoopInit == Init => Loop!Init
  BY DEF Init

(* The steps of the clients, and the turns of the handlers that do not       *)
(* return, leave the loop where it is.                                       *)
LEMMA LoopStutters ==
    ASSUME \/ ClientNext \/ HelloAccepted \/ AuthBegin \/ DeadSpins
           \/ UNCHANGED vars
    PROVE  UNCHANGED Loop!vars
<1>1. CASE ClientNext
  BY <1>1 DEF ClientNext, Dial, Arrive, Shut, Reset, loopVars, Loop!vars
<1>2. CASE HelloAccepted \/ AuthBegin \/ DeadSpins
  BY <1>2 DEF HelloAccepted, AuthBegin, DeadSpins, loopVars, Loop!vars
<1>3. CASE UNCHANGED vars
  BY <1>3 DEF vars, loopVars, Loop!vars
<1> QED
  BY <1>1, <1>2, <1>3

(* Every other step is the step of the loop it is made of. *)
LEMMA LoopSteps == ServerNext => [Loop!Next]_(Loop!vars)
<1> SUFFICES ASSUME ServerNext PROVE Loop!Next \/ UNCHANGED Loop!vars
  OBVIOUS
<1>1. ASSUME NEW s \in Slot, NEW f \in Fd,
             Start(s, f) \/ \E c \in Client : Accept(s, f, c)
      PROVE  Loop!Next
  BY <1>1 DEF Start, Accept, Loop!Next
<1>2. CASE \/ StartFails \/ EnterLoop \/ PollFails \/ BatchDone
           \/ AcceptFails \/ \E c \in Client : RegisterFails(c)
  BY <1>2 DEF StartFails, EnterLoop, PollFails, BatchDone, AcceptFails, RegisterFails, Loop!Next
<1>3. CASE Poll
  <2>1. [s \in Slot |-> Ready(s)] \in [Slot -> SUBSET Loop!Event]
    BY ReadyIsEvents
  <2>2. Loop!Wait([s \in Slot |-> Ready(s)])
    BY <1>3 DEF Poll
  <2> QED
    BY <2>1, <2>2 DEF Loop!Next
<1>4. ASSUME NEW s \in Slot, Dispatch(s)
      PROVE  Loop!Next
  BY <1>4 DEF Dispatch, Loop!Next
<1>5. CASE NothingToRead \/ HelloIncomplete \/ HelloRefused \/ AuthRefused \/ DeadReturns
  BY <1>5 DEF NothingToRead, HelloIncomplete, HelloRefused, AuthRefused, DeadReturns,
              HandlerReturns, Loop!Next
<1>6. CASE HelloAccepted \/ AuthBegin \/ DeadSpins
  BY <1>6, LoopStutters
<1>7. CASE Send \/ Keep \/ Close \/ Stop
  BY <1>7 DEF Send, Keep, Close, Stop, Loop!Next
<1> QED
  BY <1>1, <1>2, <1>3, <1>4, <1>5, <1>6, <1>7 DEF ServerNext

(* No handler of the server adds, closes or skips an item behind the back    *)
(* of the event loop: the server refines it.                                 *)
THEOREM RunsInEventLoop == Spec => ImplementsEventLoop
<1>1. Init => Loop!Init
  BY LoopInit
<1>2. [Next]_vars => [Loop!Next]_(Loop!vars)
  BY LoopStutters, LoopSteps DEF Next, Ended
<1> QED
  BY <1>1, <1>2, PTL DEF Spec, ImplementsEventLoop, Loop!Spec

(* The module of the proofs instantiates the same loop. *)
LEMMA SameLoop == Loop!Spec => LoopProofs!Spec
<1>1. Loop!Init => LoopProofs!Init
  BY DEF Loop!Init, LoopProofs!Init, Loop!NoEvents, LoopProofs!NoEvents
<1>2. [Loop!Next]_(Loop!vars) => [LoopProofs!Next]_(LoopProofs!vars)
    BY DEF Loop!Next, LoopProofs!Next, Loop!Listen, LoopProofs!Listen,
           Loop!Connect, LoopProofs!Connect, Loop!Register, LoopProofs!Register,
           Loop!Live, LoopProofs!Live, Loop!FreeFd, LoopProofs!FreeFd,
           Loop!StartFails, LoopProofs!StartFails, Loop!EnterLoop,
           LoopProofs!EnterLoop, Loop!Wait, LoopProofs!Wait, Loop!WaitFails,
           LoopProofs!WaitFails, Loop!Dispatch, LoopProofs!Dispatch,
           Loop!BatchDone, LoopProofs!BatchDone, Loop!Accept, LoopProofs!Accept,
           Loop!EndHandling, LoopProofs!EndHandling, Loop!AcceptFails,
           LoopProofs!AcceptFails, Loop!RecvReturns, LoopProofs!RecvReturns,
           Loop!SendReturns, LoopProofs!SendReturns, Loop!Keep, LoopProofs!Keep,
           Loop!Close, LoopProofs!Close, Loop!CloseItem, LoopProofs!CloseItem,
           Loop!CloseUnlisted, LoopProofs!CloseUnlisted, Loop!StopEmpty,
           LoopProofs!StopEmpty, Loop!StopWithItems, LoopProofs!StopWithItems,
           Loop!Ended, LoopProofs!Ended, Loop!Event, LoopProofs!Event,
           Loop!NoEvents, LoopProofs!NoEvents, Loop!items, LoopProofs!items,
           Loop!vars, LoopProofs!vars
<1> QED
  BY <1>1, <1>2, PTL DEF Loop!Spec, LoopProofs!Spec

(* With the server's handlers in it, too, the loop never handles an event of *)
(* a connection that is gone, whatever the clients do and however            *)
(* connections come and go within a batch.                                   *)
THEOREM NoEventOutlivesItsConnection == Spec => []Loop!EventsAreLive
<1>1. LoopProofs!Spec => []LoopProofs!EventsAreLive
  BY LoopProofs!NoEventOutlivesItsItem, NoneAssumption
<1>2. LoopProofs!EventsAreLive => Loop!EventsAreLive
  BY DEF Loop!EventsAreLive, LoopProofs!EventsAreLive, Loop!Live, LoopProofs!Live
<1>3. Spec => Loop!Spec
  BY RunsInEventLoop DEF ImplementsEventLoop
<1> QED
  BY <1>1, <1>2, <1>3, SameLoop, PTL

(* And no item, registration or descriptor is leaked by a server that has    *)
(* not crashed.                                                              *)
THEOREM BooksAreKeptWithSessions == Spec => []Loop!Bookkeeping
<1>1. LoopProofs!Spec => []LoopProofs!Bookkeeping
  BY LoopProofs!BooksAreKept, NoneAssumption
<1>2. LoopProofs!Bookkeeping => Loop!Bookkeeping
  BY DEF Loop!Bookkeeping, LoopProofs!Bookkeeping, Loop!Live, LoopProofs!Live
<1>3. Spec => Loop!Spec
  BY RunsInEventLoop DEF ImplementsEventLoop
<1> QED
  BY <1>1, <1>2, <1>3, SameLoop, PTL
-----------------------------------------------------------------------------
(* What is proved of the loop, as facts about the server. *)
LoopFacts == Loop!TypeOK /\ Loop!Bookkeeping /\ Loop!EventsAreLive

LEMMA LoopInvariant == Spec => []LoopFacts
<1>1. LoopProofs!Spec => []LoopProofs!TypeOK
  BY LoopProofs!TypeCorrect, NoneAssumption
<1>2. LoopProofs!TypeOK => Loop!TypeOK
  BY DEF LoopProofs!TypeOK, Loop!TypeOK, LoopProofs!Event, Loop!Event
<1>3. Spec => Loop!Spec
  BY RunsInEventLoop DEF ImplementsEventLoop
<1> QED
  BY <1>1, <1>2, <1>3, SameLoop, NoEventOutlivesItsConnection,
     BooksAreKeptWithSessions, PTL DEF LoopFacts

-----------------------------------------------------------------------------
(* The types.                                                                *)
Byte == 0..255

SessionType ==
    {r \in [status : Status \cup {"none"}, read : Seq(Byte), write : Seq(Byte),
            auth_method : Byte, scheme : Byte] : Len(r.read) <= 2 + 255}

Types ==
    /\ config \in Configured
    /\ session \in [Slot -> SessionType]
    /\ retcode \in {"unset", "done"}
    /\ pc # "recv" => retcode = "unset"
    /\ sock \in [Fd -> Client \cup {None}]
    /\ inq \in [Client -> Seq(Byte)]
    /\ reply \in [Client -> Seq(Byte)]
    /\ link \in [Client -> {"none", "backlog", "open", "closed"}]
    /\ hello \in [Client -> Hello]
    /\ sent \in [Client -> Nat]
    /\ \A c \in Client : sent[c] \in 0..Len(hello[c])
    /\ client \in [Client -> {"new", "open", "shut", "reset"}]

(* Every connection has a session that is not blank, and the server knows    *)
(* nothing of a client that has not dialled.                                 *)
Matched ==
    /\ SessionsMatchItems
    /\ \A c \in Client : client[c] = "new" => link[c] = "none"
    /\ pc # "crashed" =>
         \A s \in Slot : type[s] = "connection" => session[s].status # "none"

LEMMA SessionTypes ==
    /\ NoSession \in SessionType /\ NewSession \in SessionType
    /\ NoSession.status = "none" /\ NoSession.read = <<>> /\ NoSession.write = <<>>
    /\ NewSession.status = "NEGOTIATING" /\ NewSession.read = <<>> /\ NewSession.write = <<>>
    /\ NewSession.auth_method = NO_ACCEPTABLE
    /\ NewSession # NoSession
<1>1. <<>> \in Seq(Byte) /\ 255 \in Byte
  BY DEF Byte
<1>2. /\ NoSession \in SessionType
      /\ NoSession.status = "none" /\ NoSession.read = <<>> /\ NoSession.write = <<>>
      /\ NoSession.auth_method = NO_ACCEPTABLE
  BY <1>1 DEF NoSession, SessionType, NO_ACCEPTABLE
<1>3. /\ NewSession \in SessionType
      /\ NewSession.status = "NEGOTIATING" /\ NewSession.read = <<>> /\ NewSession.write = <<>>
      /\ NewSession.auth_method = NO_ACCEPTABLE
  BY <1>2 DEF NewSession, SessionType, Status
<1> QED
  BY <1>2, <1>3

(* The item that is being handled, its session and its client.               *)
LEMMA Current ==
    ASSUME LoopFacts, Types, Matched, pc \in {"recv", "send", "check"}
    PROVE  /\ cur \in Slot /\ cur \in listed /\ type[cur] = "connection"
           /\ fd[cur] \in Fd /\ epoll[fd[cur]] = cur
           /\ C \in Client
           /\ S \in SessionType /\ S.status \in Status
           /\ Len(S.read) <= 257
           /\ \A f \in Fd \ {fd[cur]} : epoll[f] # cur /\ sock[f] # C
<1>1. cur \in Slot /\ type[cur] = "connection" /\ cur \in Loop!Live
  BY DEF LoopFacts, Loop!EventsAreLive, Loop!Live
<1>2. fd[cur] \in Fd /\ epoll[fd[cur]] = cur
  BY <1>1 DEF LoopFacts, Loop!Bookkeeping
<1>3. cur \in listed
  BY <1>1 DEF Matched, SessionsMatchItems
<1>4. C # None /\ C \in Client
  BY <1>2, <1>3 DEF Matched, SessionsMatchItems, Types, C
<1>5. S \in SessionType /\ S.status \in Status /\ Len(S.read) <= 257
  BY <1>1 DEF Matched, Types, S, SessionType
<1>6. \A f \in Fd \ {fd[cur]} : epoll[f] # cur
  BY <1>1, <1>2, NoneAssumption DEF LoopFacts, Loop!Bookkeeping
<1>7. \A f \in Fd \ {fd[cur]} : sock[f] # C
  BY <1>2, <1>4 DEF Matched, SessionsMatchItems, C
<1> QED
  BY <1>1, <1>2, <1>3, <1>4, <1>5, <1>6, <1>7

LEMMA TwoMore == \A x \in Byte : 2 + x \in Nat /\ 2 + x <= 257
  BY DEF Byte

LEMMA MinAndMax ==
    ASSUME NEW r \in Nat, NEW w \in Nat, NEW l \in Nat
    PROVE  /\ MIN(w, l) \in Nat /\ MIN(w, l) <= w /\ MIN(w, l) <= l
           /\ MAX(r, MIN(w, l)) \in Nat
           /\ MAX(r, MIN(w, l)) = r \/ MAX(r, MIN(w, l)) = MIN(w, l)
           /\ MAX(r, MIN(w, l)) >= r /\ MAX(r, MIN(w, l)) >= MIN(w, l)
           /\ MIN(w, l) = w \/ MIN(w, l) = l
  BY DEF MIN, MAX

(* What is held of a hello is its beginning, and no more than one hello.     *)
LEMMA HeldFacts ==
    ASSUME S \in SessionType, Len(S.read) <= 257,
           NEW bytes \in Seq(Byte), Len(S.read) <= Len(bytes)
    PROVE  /\ Wanted(bytes) \in Nat /\ Wanted(bytes) <= 257
           /\ Held(bytes) \in Seq(Byte)
           /\ Len(Held(bytes)) \in Nat /\ Len(Held(bytes)) <= 257
           /\ Len(Held(bytes)) = MAX(Len(S.read), MIN(Wanted(bytes), Len(bytes)))
           /\ Len(Held(bytes)) <= Len(bytes)
           /\ Held(bytes) = SubSeq(bytes, 1, Len(Held(bytes)))
           /\ \A i \in 1..Len(Held(bytes)) : Held(bytes)[i] = bytes[i]
<1> DEFINE n == MAX(Len(S.read), MIN(Wanted(bytes), Len(bytes)))
<1> HIDE DEF n
<1>1. S.read \in Seq(Byte) /\ Len(S.read) \in Nat /\ Len(bytes) \in Nat
  BY DEF SessionType
<1>2. Wanted(bytes) \in Nat /\ Wanted(bytes) <= 257
  <2>1. \A i \in Nat : 1 <= i /\ i <= Len(bytes) => bytes[i] \in Byte
    BY ElementOfSeq
  <2>2. CASE Len(bytes) = 0 \/ bytes[1] # VERSION
    BY <2>2 DEF Wanted
  <2>3. CASE ~(Len(bytes) = 0 \/ bytes[1] # VERSION) /\ Len(bytes) = 1
    BY <2>3 DEF Wanted
  <2>4. CASE ~(Len(bytes) = 0 \/ bytes[1] # VERSION) /\ Len(bytes) # 1
    <3>0. 2 <= Len(bytes)
      <4>1. Len(bytes) # 0 /\ Len(bytes) # 1 /\ Len(bytes) \in Nat
        BY <2>4, <1>1
      <4> QED
        BY <4>1
    <3>1. bytes[2] \in Byte
      BY <2>1, <3>0
    <3>2. Wanted(bytes) = 2 + bytes[2]
      BY <2>4, <1>1 DEF Wanted
    <3> QED
      BY <3>1, <3>2, TwoMore
  <2> QED
    BY <2>2, <2>3, <2>4
<1>3. n \in Nat /\ n <= 257 /\ n <= Len(bytes)
  <2>2. /\ MIN(Wanted(bytes), Len(bytes)) <= Wanted(bytes)
        /\ MIN(Wanted(bytes), Len(bytes)) <= Len(bytes)
        /\ MIN(Wanted(bytes), Len(bytes)) \in Nat
        /\ n \in Nat /\ (n = Len(S.read) \/ n = MIN(Wanted(bytes), Len(bytes)))
    BY <1>1, <1>2, MinAndMax DEF n
  <2> QED
    BY <1>1, <1>2, <2>2
<1>4. Held(bytes) = SubSeq(bytes, 1, n)
  BY DEF Held, n
<1>5. /\ SubSeq(bytes, 1, n) \in Seq(Byte)
      /\ Len(SubSeq(bytes, 1, n)) = n
      /\ \A i \in 1..n : SubSeq(bytes, 1, n)[i] = bytes[i]
  <2>1. \A i \in 1..n : bytes[i] \in Byte
    BY <1>1, <1>3, ElementOfSeq
  <2> QED
    BY <1>1, <1>3, <2>1, SubSeqProperties
<1> QED
  BY <1>2, <1>3, <1>4, <1>5 DEF n

-----------------------------------------------------------------------------
(* How the steps leave the sessions matched.                                 *)

LEMMA TypesInit == Init => Types
<1> SUFFICES ASSUME Init PROVE Types
  OBVIOUS
<1>1. hello \in [Client -> Hello] /\ \A c \in Client : Len(hello[c]) \in Nat
  BY BytesAssumption DEF Init, Byte
<1>2. session \in [Slot -> SessionType] /\ \A s \in Slot : Len(session[s].read) = 0
  BY SessionTypes DEF Init
<1> QED
  BY <1>1, <1>2 DEF Init, Types, Loop!Init

LEMMA MatchedInit == Init => Matched
<1> SUFFICES ASSUME Init PROVE Matched
  OBVIOUS
<1>1. /\ type = [s \in Slot |-> "free"] /\ listed = {}
      /\ epoll = [f \in Fd |-> None] /\ sock = [f \in Fd |-> None]
      /\ session = [s \in Slot |-> NoSession] /\ link = [c \in Client |-> "none"]
  BY DEF Init, Loop!Init
<1> QED
  BY <1>1, NoneAssumption DEF Matched, SessionsMatchItems

LEMMA Reading ==
    ASSUME LoopFacts, Types, Matched, pc = "recv"
    PROVE  /\ C \in Client /\ S \in SessionType /\ Len(S.read) <= 257
           /\ Available \in Seq(Byte) /\ Len(S.read) <= Len(Available)
           /\ Held(Available) \in Seq(Byte)
           /\ SubSeq(Available, Len(Held(Available)) + 1, Len(Available)) \in Seq(Byte)
           /\ Held(Available) \o
                SubSeq(Available, Len(Held(Available)) + 1, Len(Available)) = Available
<1>1. C \in Client /\ S \in SessionType /\ Len(S.read) <= 257
  BY Current
<1>2. S.read \in Seq(Byte) /\ inq[C] \in Seq(Byte)
  BY <1>1 DEF SessionType, Types
<1>3. Available \in Seq(Byte) /\ Len(S.read) <= Len(Available)
  <2>1. Len(S.read) \in Nat /\ Len(inq[C]) \in Nat
    BY <1>2
  <2>2. Available \in Seq(Byte) /\ Len(Available) = Len(S.read) + Len(inq[C])
    BY <1>2, ConcatProperties DEF Available
  <2>3. \A k, l \in Nat : k <= k + l
    OBVIOUS
  <2> QED
    BY <2>1, <2>2, <2>3, Zenon
<1> DEFINE n == Len(Held(Available))
<1> HIDE DEF n
<1>4. /\ Held(Available) \in Seq(Byte)
      /\ n \in Nat /\ n <= Len(Available)
      /\ Held(Available) = SubSeq(Available, 1, n)
  BY <1>1, <1>3, HeldFacts DEF n
<1>5. Len(Available) \in Nat
  BY <1>3
<1>6. SubSeq(Available, n + 1, Len(Available)) \in Seq(Byte)
  <2>1. n + 1 \in Int /\ Len(Available) \in Int
    BY <1>4, <1>5
  <2>2. \A i \in (n + 1)..Len(Available) : Available[i] \in Byte
    <3> SUFFICES ASSUME NEW i \in (n + 1)..Len(Available) PROVE Available[i] \in Byte
      OBVIOUS
    <3>1. i \in 1..Len(Available)
      BY <1>4, <1>5
    <3> QED
      BY <1>3, <3>1, ElementOfSeq
  <2> QED
    BY <2>1, <2>2, SubSeqProperties
<1>7. SubSeq(Available, 1, n) \o SubSeq(Available, n + 1, Len(Available)) = Available
  <2>1. 1 \in 1..(Len(Available) + 1) /\ n \in (1 - 1)..Len(Available)
        /\ Len(Available) \in n..Len(Available)
    BY <1>4, <1>5
  <2>2. SubSeq(Available, 1, n) \o SubSeq(Available, n + 1, Len(Available))
          = SubSeq(Available, 1, Len(Available))
    BY <1>3, <2>1, ConcatAdjacentSubSeq
  <2> QED
    BY <1>3, <2>2, SubSeqFull
<1> QED
  BY <1>1, <1>3, <1>4, <1>6, <1>7 DEF n

(* A session keeps its type when one of its fields is given a value.         *)
LEMMA SessionUpdates ==
    ASSUME NEW r \in SessionType
    PROVE  /\ \A x \in Status : /\ [r EXCEPT !.status = x] \in SessionType
                               /\ [r EXCEPT !.status = x].read = r.read
                               /\ [r EXCEPT !.status = x].write = r.write
                               /\ [r EXCEPT !.status = x].status = x
                               /\ [r EXCEPT !.status = x].auth_method = r.auth_method
           /\ \A x \in Seq(Byte) : /\ Len(x) <= 257 => [r EXCEPT !.read = x] \in SessionType
                                  /\ [r EXCEPT !.read = x].read = x
                                  /\ [r EXCEPT !.read = x].write = r.write
                                  /\ [r EXCEPT !.read = x].status = r.status
                                  /\ [r EXCEPT !.read = x].auth_method = r.auth_method
           /\ \A x \in Seq(Byte) : /\ [r EXCEPT !.write = x] \in SessionType
                                  /\ [r EXCEPT !.write = x].read = r.read
                                  /\ [r EXCEPT !.write = x].write = x
                                  /\ [r EXCEPT !.write = x].status = r.status
                                  /\ [r EXCEPT !.write = x].auth_method = r.auth_method
           /\ \A x \in Byte : /\ [r EXCEPT !.scheme = x] \in SessionType
                             /\ [r EXCEPT !.scheme = x].read = r.read
                             /\ [r EXCEPT !.scheme = x].write = r.write
                             /\ [r EXCEPT !.scheme = x].status = r.status
                             /\ [r EXCEPT !.scheme = x].auth_method = r.auth_method
  BY DEF SessionType

LEMMA Agreed ==
    ASSUME NEW r \in SessionType, NEW w \in Seq(Byte), NEW a \in Byte
    PROVE  [r EXCEPT !.status = "NEGOTIATED", !.read = <<>>, !.auth_method = a,
                     !.write = w] \in SessionType
<1> DEFINE new == [r EXCEPT !.status = "NEGOTIATED", !.read = <<>>, !.auth_method = a,
                            !.write = w]
<1>1. new \in [status : Status \cup {"none"}, read : Seq(Byte), write : Seq(Byte),
                auth_method : Byte, scheme : Byte]
  <2>1. <<>> \in Seq(Byte) /\ "NEGOTIATED" \in Status \cup {"none"}
    BY DEF Status
  <2>2. r \in [status : Status \cup {"none"}, read : Seq(Byte), write : Seq(Byte),
               auth_method : Byte, scheme : Byte]
    BY DEF SessionType
  <2> QED
    BY <2>1, <2>2
<1>2. new.read = <<>>
  BY DEF SessionType
<1>3. Len(<<>>) <= 2 + 255
  OBVIOUS
<1> QED
  BY <1>1, <1>2, <1>3, Zenon DEF SessionType

(* The steps that are the loop's alone. *)
LoopOnly ==
    \/ \E s \in Slot, f \in Fd : Start(s, f)
    \/ StartFails \/ EnterLoop \/ Poll \/ PollFails \/ BatchDone
    \/ \E s \in Slot : Dispatch(s)
    \/ AcceptFails \/ Keep \/ Stop

LEMMA TypesNext ==
    ASSUME LoopFacts, Types, Matched, Next
    PROVE  Types'
<1>1. CASE LoopOnly
  BY <1>1 DEF LoopOnly, Start, StartFails, EnterLoop, Poll, PollFails, BatchDone,
              Dispatch, AcceptFails, Keep, Stop, Loop!Listen, Loop!StartFails,
              Loop!EnterLoop, Loop!Wait, Loop!WaitFails, Loop!BatchDone, Loop!Dispatch,
              Loop!AcceptFails, Loop!Keep, Loop!StopEmpty, Loop!StopWithItems,
              sessionVars, socketVars, clientVars, Types
<1>2. ASSUME NEW c \in Client, Dial(c) \/ Shut(c) \/ Reset(c)
      PROVE  Types'
  BY <1>2 DEF Dial, Shut, Reset, loopVars, sessionVars, socketVars, Types
<1>3. ASSUME NEW c \in Client, NEW n \in 1..Len(hello[c]), Arrive(c, n)
      PROVE  Types'
  <2>1. hello[c] \in Seq(Byte) /\ inq[c] \in Seq(Byte) /\ sent[c] \in Nat
    BY BytesAssumption DEF Types, Byte
  <2>2. Len(hello[c]) \in Nat /\ sent[c] <= Len(hello[c])
    BY <2>1 DEF Types
  <2>3. n \in Nat /\ sent[c] + n <= Len(hello[c])
    <3>1. n \in 1..(Len(hello[c]) - sent[c])
      BY <1>3 DEF Arrive
    <3>2. sent[c] \in Nat
      BY <2>1
    <3> QED
      BY <3>1, <3>2, <2>2
  <2>4. SubSeq(hello[c], sent[c] + 1, sent[c] + n) \in Seq(Byte)
    <3>1. \A i \in (sent[c] + 1)..(sent[c] + n) : hello[c][i] \in Byte
      <4> SUFFICES ASSUME NEW i \in (sent[c] + 1)..(sent[c] + n) PROVE hello[c][i] \in Byte
        OBVIOUS
      <4>1. i \in 1..Len(hello[c])
        BY <2>1, <2>2, <2>3
      <4> QED
        BY <2>1, <4>1, ElementOfSeq
    <3>2. sent[c] + 1 \in Int /\ sent[c] + n \in Int
      BY <2>1, <2>3
    <3> QED
      BY <3>1, <3>2, SubSeqProperties
  <2>5. inq' \in [Client -> Seq(Byte)]
    BY <1>3, <2>1, <2>4, ConcatProperties DEF Arrive, Types
  <2>6. sent' \in [Client -> Nat] /\ \A d \in Client : sent'[d] \in 0..Len(hello[d])
    BY <1>3, <2>1, <2>2, <2>3 DEF Arrive, Types
  <2> QED
    BY <1>3, <2>5, <2>6 DEF Arrive, loopVars, sessionVars, Types
<1>4. ASSUME NEW s \in Slot, NEW f \in Fd, NEW c \in Client, Accept(s, f, c)
      PROVE  Types'
  <2>2. session' \in [Slot -> SessionType]
    BY <1>4, SessionTypes DEF Accept, Types
  <2>3. pc = "accept" /\ pc' = "dispatch"
    BY <1>4 DEF Accept, Loop!Accept, Loop!EndHandling
  <2> QED
    BY <1>4, <2>2, <2>3 DEF Accept, clientVars, Types
<1>5. ASSUME NEW c \in Client, RegisterFails(c)
      PROVE  Types'
  BY <1>5 DEF RegisterFails, Loop!AcceptFails, Loop!EndHandling, sessionVars, clientVars, Types
<1>6. CASE NothingToRead \/ DeadReturns \/ DeadSpins
  BY <1>6 DEF NothingToRead, DeadReturns, DeadSpins, HandlerReturns, Loop!RecvReturns, Turn,
              loopVars, socketVars, clientVars, Types
<1>7. CASE HelloIncomplete \/ HelloRefused
  <2>1. pc = "recv" /\ pc' = "send" /\ retcode' = "unset"
    BY <1>7 DEF HelloIncomplete, HelloRefused, HandlerReturns, Loop!RecvReturns
  <2>2. inq' \in [Client -> Seq(Byte)]
    BY <1>7, <2>1, Reading DEF HelloIncomplete, HelloRefused, Reads, Types
  <2>3. Held(Available) \in Seq(Byte) /\ Len(Held(Available)) <= 257
    BY <2>1, Reading, HeldFacts
  <2>4. cur \in Slot /\ S \in SessionType /\ session \in [Slot -> SessionType]
    BY <2>1, Current DEF Types
  <2> DEFINE new == [S EXCEPT !.read = Held(Available)]
  <2>5. new \in SessionType
    BY <2>3, <2>4, SessionUpdates
  <2>6. session' = [session EXCEPT ![cur] = new]
        \/ session' = [session EXCEPT ![cur] = [new EXCEPT !.status = "DEAD"]]
    BY <1>7 DEF HelloIncomplete, HelloRefused, S
  <2> HIDE DEF new
  <2>7. [new EXCEPT !.status = "DEAD"] \in SessionType
    BY <2>5, SessionUpdates DEF Status
  <2>8. session' \in [Slot -> SessionType]
    BY <2>4, <2>5, <2>6, <2>7
  <2> QED
    BY <1>7, <2>1, <2>2, <2>8 DEF HelloIncomplete, HelloRefused, clientVars, Types
<1>8. CASE HelloAccepted
  <2>1. pc = "recv" /\ inq' \in [Client -> Seq(Byte)]
    BY <1>8, Reading DEF HelloAccepted, Turn, Reads, Types
  <2>2. config \in Byte /\ VERSION \in Byte /\ cur \in Slot /\ S \in SessionType
    BY <2>1, Current, BytesAssumption DEF Types, Byte, VERSION
  <2>3. S.write \o <<VERSION, config>> \in Seq(Byte) /\ <<>> \in Seq(Byte)
    <3>1. S.write \in Seq(Byte) /\ <<VERSION, config>> \in Seq(Byte) /\ <<>> \in Seq(Byte)
      BY <2>2 DEF SessionType
    <3> QED
      BY <3>1, ConcatProperties
  <2> DEFINE new == [S EXCEPT !.status = "NEGOTIATED", !.read = <<>>, !.auth_method = config,
                              !.write = S.write \o <<VERSION, config>>]
  <2>4. new \in SessionType
    BY <2>2, <2>3, Agreed
  <2>5. session' = [session EXCEPT ![cur] = new]
    BY <1>8 DEF HelloAccepted
  <2> HIDE DEF new
  <2>6. session' \in [Slot -> SessionType]
    BY <2>2, <2>4, <2>5 DEF Types
  <2> QED
    BY <1>8, <2>1, <2>6 DEF HelloAccepted, loopVars, clientVars, Types
<1>9. CASE AuthBegin \/ AuthRefused
  <2>1. pc = "recv" /\ cur \in Slot /\ S \in SessionType
    BY <1>9, Current DEF AuthBegin, AuthRefused, Turn
  <2>2. session' = [session EXCEPT ![cur] = [S EXCEPT !.scheme = AUTH_PLAIN]]
        \/ session' = [session EXCEPT ![cur] = [S EXCEPT !.status = "DEAD"]]
    BY <1>9 DEF AuthBegin, AuthRefused, S
  <2>3. /\ [S EXCEPT !.scheme = AUTH_PLAIN] \in SessionType
        /\ [S EXCEPT !.status = "DEAD"] \in SessionType
    <3>1. AUTH_PLAIN \in Byte /\ "DEAD" \in Status
      BY DEF AUTH_PLAIN, Byte, Status
    <3> QED
      BY <2>1, <3>1, SessionUpdates
  <2>4. session' \in [Slot -> SessionType]
    BY <2>1, <2>2, <2>3 DEF Types
  <2> QED
    BY <1>9, <2>1, <2>4 DEF AuthBegin, AuthRefused, HandlerReturns, Loop!RecvReturns,
                        loopVars, socketVars, clientVars, Types
<1>10. CASE Send
  <2>1. /\ pc = "send" /\ pc' = "check" /\ cur \in Slot /\ S \in SessionType
        /\ C \in Client /\ <<>> \in Seq(Byte)
    BY <1>10, Current DEF Send, Loop!SendReturns
  <2>2. session' \in [Slot -> SessionType]
    <3>1. session' = session \/ session' = [session EXCEPT ![cur] = [S EXCEPT !.write = <<>>]]
      BY <1>10 DEF Send, S
    <3>2. [S EXCEPT !.write = <<>>] \in SessionType
      BY <2>1, SessionUpdates
    <3> QED
      BY <2>1, <3>1, <3>2 DEF Types
  <2>3. reply' \in [Client -> Seq(Byte)]
    <3>1. reply[C] \in Seq(Byte) /\ S.write \in Seq(Byte)
      BY <2>1 DEF Types, SessionType
    <3>2. reply[C] \o S.write \in Seq(Byte)
      BY <3>1, ConcatProperties
    <3> QED
      BY <1>10, <2>1, <3>2 DEF Send, Types
  <2> QED
    BY <1>10, <2>1, <2>2, <2>3 DEF Send, clientVars, Types
<1>11. CASE Close
  <2>1. pc' = "dispatch" /\ pc = "check" /\ cur \in Slot
    BY <1>11, Current DEF Close, Loop!Close, Loop!EndHandling
  <2>2. session' \in [Slot -> SessionType]
    BY <1>11, <2>1, SessionTypes DEF Close, Types
  <2>3. sock' \in [Fd -> Client \cup {None}]
        /\ link' \in [Client -> {"none", "backlog", "open", "closed"}]
    BY <1>11 DEF Close, Types
  <2> QED
    BY <1>11, <2>1, <2>2, <2>3 DEF Close, clientVars, Types
<1>12. CASE Ended
  BY <1>12 DEF Ended, vars, loopVars, sessionVars, socketVars, clientVars, Types
<1> QED
  BY <1>1, <1>2, <1>3, <1>4, <1>5, <1>6, <1>7, <1>8, <1>9, <1>10, <1>11, <1>12
     DEF Next, ClientNext, ServerNext, LoopOnly

-----------------------------------------------------------------------------
(* A handler changes nothing but the session it runs for. *)
Handling ==
    \/ NothingToRead \/ HelloIncomplete \/ HelloRefused \/ HelloAccepted
    \/ AuthBegin \/ AuthRefused \/ DeadReturns \/ DeadSpins \/ Send

LEMMA HandlersKeepTheirSession ==
    ASSUME LoopFacts, Types, Matched, Handling
    PROVE  /\ pc \in {"recv", "send"} /\ pc' # "crashed"
           /\ UNCHANGED <<type, fd, epoll, listed, sock, link, client>>
           /\ \E new : /\ session' = [session EXCEPT ![cur] = new]
                       /\ new.status # "none"
<1>1. pc \in {"recv", "send"} /\ pc' \in {"recv", "send", "check"}
      /\ UNCHANGED <<type, fd, epoll, listed, sock, link, client>>
  BY DEF Handling, NothingToRead, HelloIncomplete, HelloRefused, HelloAccepted, AuthBegin,
         AuthRefused, DeadReturns, DeadSpins, Send, Turn, HandlerReturns,
         Loop!RecvReturns, Loop!SendReturns, Loop!items, loopVars, socketVars, clientVars
<1>2. /\ cur \in Slot /\ S \in SessionType /\ S.status # "none"
      /\ session \in [Slot -> SessionType]
  BY <1>1, Current DEF Status, Types
<1>3. CASE session' = session
  <2>1. session' = [session EXCEPT ![cur] = S]
    BY <1>2, <1>3 DEF S
  <2> QED
    BY <1>1, <1>2, <2>1
<1>4. CASE HelloIncomplete \/ HelloRefused
  <2>1. Held(Available) \in Seq(Byte) /\ Len(Held(Available)) <= 257
    <3>1. pc = "recv"
      BY <1>4 DEF HelloIncomplete, HelloRefused, Turn
    <3> QED
      BY <3>1, Reading, HeldFacts
  <2> DEFINE new == [S EXCEPT !.read = Held(Available)]
  <2>2. new \in SessionType /\ new.status = S.status
    BY <1>2, <2>1, SessionUpdates
  <2>3. session' = [session EXCEPT ![cur] = new]
        \/ session' = [session EXCEPT ![cur] = [new EXCEPT !.status = "DEAD"]]
    BY <1>4 DEF HelloIncomplete, HelloRefused, S
  <2> HIDE DEF new
  <2>4. [new EXCEPT !.status = "DEAD"].status = "DEAD"
    BY <2>2, SessionUpdates DEF Status
  <2> QED
    BY <1>1, <1>2, <2>2, <2>3, <2>4
<1>5. CASE HelloAccepted
  <2> DEFINE new == [S EXCEPT !.status = "NEGOTIATED", !.read = <<>>, !.auth_method = config,
                              !.write = S.write \o <<VERSION, config>>]
  <2>1. new.status = "NEGOTIATED"
    BY <1>2 DEF SessionType
  <2>2. session' = [session EXCEPT ![cur] = new]
    BY <1>5 DEF HelloAccepted
  <2> HIDE DEF new
  <2> QED
    BY <1>1, <2>1, <2>2
<1>6. CASE AuthBegin \/ AuthRefused
  <2>1. session' = [session EXCEPT ![cur] = [S EXCEPT !.scheme = AUTH_PLAIN]]
        \/ session' = [session EXCEPT ![cur] = [S EXCEPT !.status = "DEAD"]]
    BY <1>6 DEF AuthBegin, AuthRefused, S
  <2>2. [S EXCEPT !.scheme = AUTH_PLAIN].status = S.status
        /\ [S EXCEPT !.status = "DEAD"].status = "DEAD"
    <3>1. AUTH_PLAIN \in Byte /\ "DEAD" \in Status
      BY DEF AUTH_PLAIN, Byte, Status
    <3> QED
      BY <1>2, <3>1, SessionUpdates
  <2> QED
    BY <1>1, <1>2, <2>1, <2>2
<1>7. CASE Send /\ session' # session
  <2>1. session' = [session EXCEPT ![cur] = [S EXCEPT !.write = <<>>]]
    BY <1>7 DEF Send, S
  <2>2. [S EXCEPT !.write = <<>>].status = S.status
    BY <1>2, SessionUpdates
  <2> QED
    BY <1>1, <1>2, <2>1, <2>2
<1> QED
  BY <1>3, <1>4, <1>5, <1>6, <1>7
     DEF Handling, NothingToRead, DeadReturns, DeadSpins

LEMMA MatchedNext ==
    ASSUME LoopFacts, Types, Matched, Next
    PROVE  Matched'
<1> USE SessionTypes
<1>0. /\ type \in [Slot -> {"free", "connection", "listening"}]
      /\ fd \in [Slot -> Fd \cup {None}] /\ epoll \in [Fd -> Slot \cup {None}]
      /\ listed \subseteq Slot
      /\ session \in [Slot -> SessionType] /\ sock \in [Fd -> Client \cup {None}]
      /\ link \in [Client -> {"none", "backlog", "open", "closed"}]
      /\ client \in [Client -> {"new", "open", "shut", "reset"}]
  BY DEF LoopFacts, Loop!TypeOK, Types
<1>1. CASE LoopOnly /\ ~\E s \in Slot, f \in Fd : Start(s, f)
  BY <1>1 DEF LoopOnly, StartFails, EnterLoop, Poll, PollFails, BatchDone,
              Dispatch, AcceptFails, Keep, Stop, Loop!StartFails,
              Loop!EnterLoop, Loop!Wait, Loop!WaitFails, Loop!BatchDone, Loop!Dispatch,
              Loop!AcceptFails, Loop!EndHandling, Loop!Keep, Loop!StopEmpty,
              Loop!StopWithItems, Loop!items,
              sessionVars, socketVars, clientVars, Matched, SessionsMatchItems
<1>2. ASSUME NEW s \in Slot, NEW f \in Fd, Start(s, f)
      PROVE  Matched'
  <2>1. /\ pc = "start" /\ pc' = "start" /\ type[s] = "free" /\ epoll[f] = None
        /\ type' = [type EXCEPT ![s] = "listening"] /\ epoll' = [epoll EXCEPT ![f] = s]
        /\ UNCHANGED <<listed, session, sock, link, client>>
    BY <1>2 DEF Start, Loop!Listen, Loop!Register, Loop!Live, Loop!FreeFd,
                sessionVars, socketVars, clientVars
  <2>2. s \notin listed /\ epoll[f] \notin listed
    BY <1>0, <2>1, NoneAssumption DEF Matched, SessionsMatchItems
  <2> QED
    BY <1>0, <2>1, <2>2 DEF Matched, SessionsMatchItems
<1>3. ASSUME NEW c \in Client, Dial(c)
      PROVE  Matched'
  <2>1. client[c] = "new" /\ link[c] = "none"
    BY <1>3 DEF Dial, Matched
  <2> QED
    BY <1>0, <1>3, <2>1 DEF Dial, loopVars, sessionVars, Matched, SessionsMatchItems
<1>4. ASSUME NEW c \in Client, Shut(c) \/ Reset(c) \/ \E n \in 1..Len(hello[c]) : Arrive(c, n)
      PROVE  Matched'
  BY <1>0, <1>4 DEF Shut, Reset, Arrive, loopVars, sessionVars, socketVars, Matched, SessionsMatchItems
<1>5. ASSUME NEW s \in Slot, NEW f \in Fd, NEW c \in Client, Accept(s, f, c)
      PROVE  Matched'
  <2>1. /\ pc = "accept" /\ type[s] = "free" /\ epoll[f] = None /\ link[c] = "backlog"
        /\ type' = [type EXCEPT ![s] = "connection"] /\ epoll' = [epoll EXCEPT ![f] = s]
        /\ listed' = listed \cup {s} /\ session' = [session EXCEPT ![s] = NewSession]
        /\ sock' = [sock EXCEPT ![f] = c] /\ link' = [link EXCEPT ![c] = "open"]
        /\ client' = client
    BY <1>5 DEF Accept, Loop!Accept, Loop!Register, Loop!Live, Loop!FreeFd, clientVars
  <2>2. s \notin listed /\ epoll[f] \notin listed /\ sock[f] = None
        /\ \A g \in Fd : sock[g] # c
    BY <1>0, <2>1, NoneAssumption DEF Matched, SessionsMatchItems
  <2>3. \A g \in Fd : epoll[g] # s
    BY <2>1, NoneAssumption DEF LoopFacts, Loop!Bookkeeping, Loop!Live
  <2>4. \A g \in Fd : sock'[g] # None <=> epoll'[g] \in listed'
    BY <1>0, <2>1, <2>2, <2>3, NoneAssumption DEF Matched, SessionsMatchItems
  <2>5. \A d \in Client : link'[d] = "open" <=> \E g \in Fd : sock'[g] = d
    BY <1>0, <2>1, <2>2, NoneAssumption DEF Matched, SessionsMatchItems
  <2>6. \A g, h \in Fd : sock'[g] = sock'[h] /\ sock'[g] # None => g = h
    BY <1>0, <2>1, <2>2 DEF Matched, SessionsMatchItems
  <2>7. \A u \in Slot : /\ session'[u] # NoSession <=> type'[u] = "connection"
                        /\ type'[u] = "connection" => session'[u].status # "none"
    BY <1>0, <2>1 DEF Matched, SessionsMatchItems
  <2>8. listed' = {u \in Slot : type'[u] = "connection"}
    BY <1>0, <2>1 DEF Matched, SessionsMatchItems
  <2> QED
    BY <1>0, <2>1, <2>4, <2>5, <2>6, <2>7, <2>8 DEF Matched, SessionsMatchItems
<1>6. ASSUME NEW c \in Client, RegisterFails(c)
      PROVE  Matched'
  BY <1>0, <1>6 DEF RegisterFails, Loop!AcceptFails, Loop!EndHandling, Loop!items,
                    sessionVars, clientVars, Matched, SessionsMatchItems
<1>7. CASE Handling
  <2>1. /\ pc \in {"recv", "send"} /\ pc' # "crashed"
        /\ UNCHANGED <<type, fd, epoll, listed, sock, link, client>>
        /\ cur \in Slot /\ type[cur] = "connection"
    BY <1>7, HandlersKeepTheirSession, Current
  <2>2. PICK new : session' = [session EXCEPT ![cur] = new] /\ new.status # "none"
    BY <1>7, HandlersKeepTheirSession
  <2>3. \A u \in Slot : /\ session'[u] # NoSession <=> type[u] = "connection"
                        /\ type[u] = "connection" => session'[u].status # "none"
    BY <1>0, <2>1, <2>2 DEF Matched, SessionsMatchItems
  <2> QED
    BY <2>1, <2>3 DEF Matched, SessionsMatchItems
<1>8. CASE Close
  <2>1. /\ pc = "check" /\ cur \in Slot /\ fd[cur] \in Fd /\ C \in Client
        /\ epoll[fd[cur]] = cur /\ C = sock[fd[cur]] /\ type[cur] = "connection"
        /\ \A f \in Fd \ {fd[cur]} : epoll[f] # cur /\ sock[f] # C
    BY <1>8, Current DEF Close, Loop!Close, C
  <2>2. /\ type' = [type EXCEPT ![cur] = "free"] /\ epoll' = [epoll EXCEPT ![fd[cur]] = None]
        /\ listed' = listed \ {cur} /\ session' = [session EXCEPT ![cur] = NoSession]
        /\ sock' = [sock EXCEPT ![fd[cur]] = None] /\ link' = [link EXCEPT ![C] = "closed"]
        /\ client' = client
    BY <1>8 DEF Close, Loop!Close, Loop!CloseItem, clientVars
  <2>4. \A g \in Fd : sock'[g] # None <=> epoll'[g] \in listed'
    BY <1>0, <2>1, <2>2, NoneAssumption DEF Matched, SessionsMatchItems
  <2>5. \A d \in Client : link'[d] = "open" <=> \E g \in Fd : sock'[g] = d
    BY <1>0, <2>1, <2>2, NoneAssumption DEF Matched, SessionsMatchItems
  <2>6. \A g, h \in Fd : sock'[g] = sock'[h] /\ sock'[g] # None => g = h
    BY <1>0, <2>1, <2>2 DEF Matched, SessionsMatchItems
  <2>7. \A u \in Slot : /\ session'[u] # NoSession <=> type'[u] = "connection"
                        /\ type'[u] = "connection" => session'[u].status # "none"
    BY <1>0, <2>1, <2>2 DEF Matched, SessionsMatchItems
  <2>8. listed' = {u \in Slot : type'[u] = "connection"}
    BY <1>0, <2>1, <2>2 DEF Matched, SessionsMatchItems
  <2>9. \A d \in Client : client'[d] = "new" => link'[d] = "none"
    <3>1. link[C] = "open"
      BY <2>1 DEF Matched, SessionsMatchItems
    <3> QED
      BY <1>0, <2>1, <2>2, <3>1 DEF Matched
  <2> QED
    BY <2>4, <2>5, <2>6, <2>7, <2>8, <2>9 DEF Matched, SessionsMatchItems
<1>9. CASE Ended
  BY <1>9 DEF Ended, vars, loopVars, sessionVars, socketVars, clientVars,
              Matched, SessionsMatchItems
<1> QED
  BY <1>1, <1>2, <1>3, <1>4, <1>5, <1>6, <1>7, <1>8, <1>9
     DEF Next, ClientNext, ServerNext, LoopOnly, Handling

-----------------------------------------------------------------------------
(* What a session s, the bytes q it has still to read and the bytes r its    *)
(* client has been sent say of each other, when n bytes of the hello h have  *)
(* come and m is the configured method.                                      *)
Methods(h) == {h[i] : i \in {j \in 3..Len(h) : j <= 2 + h[2]}}

Agreement(bytes, h, m) == bytes = <<>> \/ (bytes = <<VERSION, m>> /\ m \in Methods(h))

Promised(a, w, r) == w = <<VERSION, a>> \/ (w = <<>> /\ r = <<VERSION, a>>)

Talk(s, q, r, h, n, m) ==
    /\ s.status = "NEGOTIATING" =>
          /\ Len(s.read) <= 2
          /\ s.read \o q = SubSeq(h, 1, n)
          /\ s.write = <<>> /\ r = <<>>
    /\ Agreement(s.write, h, m)
    /\ s.write = <<>> \/ r = <<>>
    /\ Agreement(r, h, m)
    /\ s.auth_method # NO_ACCEPTABLE => Promised(s.auth_method, s.write, r)

Progress ==
    /\ \A c \in Client : Agreement(reply[c], hello[c], config)
    /\ \A c \in Client : link[c] \in {"none", "backlog"} =>
          reply[c] = <<>> /\ inq[c] = SubSeq(hello[c], 1, sent[c])
    /\ pc # "crashed" => \A f \in Fd : sock[f] # None =>
          LET c == sock[f] IN
          Talk(session[epoll[f]], inq[c], reply[c], hello[c], sent[c], config)

LEMMA ProgressInit == Init => Progress
<1> SUFFICES ASSUME Init PROVE Progress
  OBVIOUS
<1>1. \A c \in Client : hello[c] \in Seq(Byte)
  BY BytesAssumption DEF Init, Byte
<1>2. \A c \in Client : SubSeq(hello[c], 1, 0) = <<>>
  BY <1>1, SubSeqEmpty
<1> QED
  BY <1>2 DEF Init, Progress, Agreement

(* A hello that is long enough and offers the configured method has it among *)
(* the methods it lists: what is held of it ends where its list does.        *)
LEMMA OfferIsMade ==
    ASSUME S \in SessionType, Len(S.read) <= 2,
           NEW h \in Seq(Byte), NEW n \in Nat, n <= Len(h),
           Len(S.read) <= Len(SubSeq(h, 1, n)), Offers(SubSeq(h, 1, n))
    PROVE  config \in Methods(h)
<1> DEFINE bytes == SubSeq(h, 1, n)
<1>1. bytes \in Seq(Byte) /\ Len(bytes) = n /\ \A i \in 1..n : bytes[i] = h[i]
  <2>1. \A i \in 1..n : h[i] \in Byte
    BY ElementOfSeq
  <2> QED
    BY <2>1, SubSeqProperties
<1>2. bytes[1] = VERSION /\ \E i \in 3..Len(Held(bytes)) : bytes[i] = config
  BY DEF Offers
<1>3. Len(S.read) <= Len(bytes)
  OBVIOUS
<1> HIDE DEF bytes
<1>4. PICK i \in 3..Len(Held(bytes)) : bytes[i] = config
  BY <1>2
<1>5. Len(S.read) \in Nat /\ Len(S.read) <= 257
  BY DEF SessionType
<1>6. /\ Len(Held(bytes)) \in Nat /\ Wanted(bytes) \in Nat
      /\ Len(Held(bytes)) = MAX(Len(S.read), MIN(Wanted(bytes), Len(bytes)))
  BY <1>1, <1>3, <1>5, HeldFacts
<1>7. i \in Nat /\ 3 <= i /\ i <= Wanted(bytes) /\ i <= n
  <2>1. i \in Nat /\ 3 <= i /\ i <= Len(Held(bytes))
    BY <1>4, <1>6
  <2>2. /\ MIN(Wanted(bytes), n) \in Nat
        /\ MIN(Wanted(bytes), n) <= Wanted(bytes) /\ MIN(Wanted(bytes), n) <= n
        /\ Len(Held(bytes)) = Len(S.read) \/ Len(Held(bytes)) = MIN(Wanted(bytes), n)
    BY <1>1, <1>5, <1>6, MinAndMax
  <2> QED
    BY <2>1, <2>2, <1>5, <1>6
<1>8. Wanted(bytes) = 2 + h[2]
  <2>1. n # 0 /\ n # 1
    BY <1>7
  <2>2. bytes[2] = h[2]
    BY <1>1, <1>7
  <2> QED
    BY <1>1, <1>2, <2>1, <2>2 DEF Wanted
<1>9. h[i] = config
  BY <1>1, <1>4, <1>7
<1>10. i \in 3..Len(h) /\ i <= 2 + h[2]
  BY <1>7, <1>8
<1> QED
  BY <1>9, <1>10 DEF Methods

(* The conversation with the client that is being handled, before and after  *)
(* the handler.                                                              *)
LEMMA CurrentTalk ==
    ASSUME LoopFacts, Types, Matched, Progress, pc \in {"recv", "send", "check"}
    PROVE  /\ Talk(S, inq[C], reply[C], hello[C], sent[C], config)
           /\ link[C] = "open"
           /\ hello[C] \in Seq(Byte) /\ sent[C] \in Nat /\ sent[C] <= Len(hello[C])
           /\ inq[C] \in Seq(Byte) /\ reply[C] \in Seq(Byte)
<1>1. fd[cur] \in Fd /\ epoll[fd[cur]] = cur /\ C \in Client /\ C = sock[fd[cur]]
  BY Current DEF C
<1>2. Talk(S, inq[C], reply[C], hello[C], sent[C], config)
  BY <1>1, NoneAssumption DEF Progress, S
<1>3. link[C] = "open"
  BY <1>1 DEF Matched, SessionsMatchItems
<1>4. hello[C] \in Seq(Byte) /\ inq[C] \in Seq(Byte) /\ reply[C] \in Seq(Byte)
  BY <1>1, BytesAssumption DEF Types, Byte
<1>5. Len(hello[C]) \in Nat /\ sent[C] \in 0..Len(hello[C])
  BY <1>1, <1>4 DEF Types
<1> QED
  BY <1>2, <1>3, <1>4, <1>5

LEMMA HandlersTalk ==
    ASSUME LoopFacts, Types, Matched, Progress, Handling
    PROVE  /\ UNCHANGED <<config, hello, sent>>
           /\ \E new, q, r :
                /\ session' = [session EXCEPT ![cur] = new]
                /\ inq' = [inq EXCEPT ![C] = q]
                /\ reply' = [reply EXCEPT ![C] = r]
                /\ Talk(new, q, r, hello[C], sent[C], config)
<1>1. pc \in {"recv", "send"} /\ UNCHANGED <<config, hello, sent>>
  BY DEF Handling, NothingToRead, HelloIncomplete, HelloRefused, HelloAccepted, AuthBegin,
         AuthRefused, DeadReturns, DeadSpins, Send, Turn, HandlerReturns,
         Loop!RecvReturns, Loop!SendReturns, loopVars, socketVars, clientVars
<1>2. /\ cur \in Slot /\ C \in Client /\ S \in SessionType /\ S.status \in Status
      /\ session \in [Slot -> SessionType] /\ S = session[cur]
      /\ inq \in [Client -> Seq(Byte)] /\ reply \in [Client -> Seq(Byte)]
  BY <1>1, Current DEF Types, S
<1>3. Talk(S, inq[C], reply[C], hello[C], sent[C], config)
  BY <1>1, CurrentTalk
<1>4. /\ session = [session EXCEPT ![cur] = S] /\ inq = [inq EXCEPT ![C] = inq[C]]
      /\ reply = [reply EXCEPT ![C] = reply[C]]
  BY <1>2
<1>5. CASE NothingToRead \/ DeadReturns \/ DeadSpins
  <2>1. UNCHANGED <<session, inq, reply>>
    BY <1>5 DEF NothingToRead, DeadReturns, DeadSpins, socketVars
  <2> QED
    BY <1>1, <1>3, <1>4, <2>1
<1>6. CASE HelloIncomplete \/ HelloRefused
  <2> DEFINE rest == SubSeq(Available, Len(Held(Available)) + 1, Len(Available))
             new == [S EXCEPT !.read = Held(Available)]
  <2>0. pc = "recv" /\ S.status = "NEGOTIATING"
    BY <1>6 DEF HelloIncomplete, HelloRefused, Turn
  <2>1. /\ Held(Available) \in Seq(Byte) /\ Len(Held(Available)) <= 257
        /\ Available \in Seq(Byte) /\ Len(S.read) <= Len(Available)
        /\ Held(Available) \o rest = Available
    BY <2>0, Reading, HeldFacts
  <2>2. Available = SubSeq(hello[C], 1, sent[C])
    BY <1>3, <2>0 DEF Talk, Available
  <2>3. /\ new \in SessionType /\ new.status = S.status
        /\ new.read = Held(Available) /\ new.write = S.write
        /\ new.auth_method = S.auth_method
    BY <1>2, <2>1, SessionUpdates
  <2>4. inq' = [inq EXCEPT ![C] = rest] /\ reply' = reply
    BY <1>6 DEF HelloIncomplete, HelloRefused, Reads
  <2>5. CASE HelloIncomplete
    <3>1. session' = [session EXCEPT ![cur] = new]
      BY <2>5 DEF HelloIncomplete, S
    <3> HIDE DEF new, rest
    <3>2. Len(Held(Available)) <= 2
      <4>1. Len(S.read) \in Nat /\ Len(S.read) <= 2
        BY <1>2, <1>3, <2>0 DEF Talk, SessionType
      <4>2. Len(Available) <= MAX(Len(S.read), 2)
        BY <2>5 DEF HelloIncomplete, Starved
      <4>3. MAX(Len(S.read), 2) = 2
        <5>1. \A x \in Nat : x <= 2 => MAX(x, 2) = 2
          BY DEF MAX
        <5> QED
          BY <4>1, <5>1
      <4>4. /\ Len(Held(Available)) \in Nat /\ Len(Available) \in Nat
            /\ Len(Held(Available)) <= Len(Available)
        BY <1>2, <2>0, <2>1, Reading, HeldFacts
      <4> QED
        BY <4>2, <4>3, <4>4
    <3>3. Talk(new, rest, reply[C], hello[C], sent[C], config)
      BY <1>3, <2>0, <2>1, <2>2, <2>3, <3>2 DEF Talk
    <3> QED
      BY <1>1, <1>4, <2>4, <3>1, <3>3
  <2>6. CASE HelloRefused
    <3> DEFINE dead == [new EXCEPT !.status = "DEAD"]
    <3>1. session' = [session EXCEPT ![cur] = dead]
      BY <2>6 DEF HelloRefused, S
    <3> HIDE DEF new, rest
    <3>2. dead.status = "DEAD" /\ dead.write = S.write /\ dead.auth_method = S.auth_method
      BY <2>3, SessionUpdates DEF Status
    <3> HIDE DEF dead
    <3>3. Talk(dead, rest, reply[C], hello[C], sent[C], config)
      BY <1>3, <3>2 DEF Talk
    <3> QED
      BY <1>1, <1>4, <2>4, <3>1, <3>3
  <2> QED
    BY <1>6, <2>5, <2>6
<1>7. CASE HelloAccepted
  <2> DEFINE rest == SubSeq(Available, Len(Held(Available)) + 1, Len(Available))
             new == [S EXCEPT !.status = "NEGOTIATED", !.read = <<>>, !.auth_method = config,
                              !.write = S.write \o <<VERSION, config>>]
  <2>0. pc = "recv" /\ S.status = "NEGOTIATING" /\ Offers(Available)
    BY <1>7 DEF HelloAccepted, Turn
  <2>1. Available = SubSeq(hello[C], 1, sent[C]) /\ S.write = <<>> /\ reply[C] = <<>>
        /\ Len(S.read) <= 2
    BY <1>3, <2>0 DEF Talk, Available
  <2>2. config \in Methods(hello[C])
    <3>1. Len(S.read) <= Len(Available)
      BY <2>0, Reading
    <3>2. hello[C] \in Seq(Byte) /\ sent[C] \in Nat /\ sent[C] <= Len(hello[C])
      BY <1>1, CurrentTalk
    <3> QED
      BY <1>2, <2>0, <2>1, <3>1, <3>2, OfferIsMade
  <2>3. <<>> \o <<VERSION, config>> = <<VERSION, config>>
    OBVIOUS
  <2>4. new.status = "NEGOTIATED" /\ new.write = <<VERSION, config>>
        /\ new.auth_method = config
    BY <1>2, <2>1, <2>3 DEF SessionType
  <2>5. /\ session' = [session EXCEPT ![cur] = new]
        /\ inq' = [inq EXCEPT ![C] = rest] /\ reply' = reply
    BY <1>7 DEF HelloAccepted, Reads
  <2> HIDE DEF new, rest
  <2>6. Talk(new, rest, reply[C], hello[C], sent[C], config)
    BY <2>1, <2>2, <2>4 DEF Talk, Agreement, Promised
  <2> QED
    BY <1>1, <1>4, <2>5, <2>6
<1>8. CASE AuthBegin \/ AuthRefused
  <2>1. /\ S.status = "NEGOTIATED" /\ UNCHANGED <<inq, reply>>
        /\ \/ session' = [session EXCEPT ![cur] = [S EXCEPT !.scheme = AUTH_PLAIN]]
           \/ session' = [session EXCEPT ![cur] = [S EXCEPT !.status = "DEAD"]]
    BY <1>8 DEF AuthBegin, AuthRefused, Turn, S, socketVars
  <2>2. /\ [S EXCEPT !.scheme = AUTH_PLAIN].status = S.status
        /\ [S EXCEPT !.scheme = AUTH_PLAIN].write = S.write
        /\ [S EXCEPT !.scheme = AUTH_PLAIN].auth_method = S.auth_method
        /\ [S EXCEPT !.status = "DEAD"].auth_method = S.auth_method
        /\ [S EXCEPT !.status = "DEAD"].status = "DEAD"
        /\ [S EXCEPT !.status = "DEAD"].write = S.write
    <3>1. AUTH_PLAIN \in Byte /\ "DEAD" \in Status
      BY DEF AUTH_PLAIN, Byte, Status
    <3> QED
      BY <1>2, <3>1, SessionUpdates
  <2>3. /\ Talk([S EXCEPT !.scheme = AUTH_PLAIN], inq[C], reply[C], hello[C], sent[C], config)
        /\ Talk([S EXCEPT !.status = "DEAD"], inq[C], reply[C], hello[C], sent[C], config)
    BY <1>3, <2>1, <2>2 DEF Talk
  <2> QED
    BY <1>1, <1>4, <2>1, <2>3
<1>9. CASE Send
  <2>1. CASE UNCHANGED <<session, reply>>
    BY <1>1, <1>3, <1>4, <1>9, <2>1 DEF Send
  <2>2. CASE ~UNCHANGED <<session, reply>>
    <3> DEFINE new == [S EXCEPT !.write = <<>>]
               r == reply[C] \o S.write
    <3>1. /\ session' = [session EXCEPT ![cur] = new]
          /\ reply' = [reply EXCEPT ![C] = r] /\ inq' = inq
      BY <1>9, <2>2 DEF Send, S
    <3>2. new.status = S.status /\ new.read = S.read /\ new.write = <<>>
          /\ new.auth_method = S.auth_method
      BY <1>2, SessionUpdates
    <3>3. reply[C] \in Seq(Byte) /\ S.write \in Seq(Byte)
      BY <1>2 DEF SessionType
    <3>4. (S.write = <<>> => r = reply[C]) /\ (reply[C] = <<>> => r = S.write)
      BY <3>3, ConcatEmptySeq
    <3> HIDE DEF new, r
    <3>5. Talk(new, inq[C], r, hello[C], sent[C], config)
      BY <1>3, <3>2, <3>4 DEF Talk, Agreement, Promised
    <3> QED
      BY <1>1, <1>4, <3>1, <3>5
  <2> QED
    BY <2>1, <2>2
<1> QED
  BY <1>5, <1>6, <1>7, <1>8, <1>9 DEF Handling

LEMMA ProgressNext ==
    ASSUME LoopFacts, Types, Matched, Progress, Next
    PROVE  Progress'
<1>0. /\ epoll \in [Fd -> Slot \cup {None}] /\ listed \subseteq Slot
      /\ session \in [Slot -> SessionType] /\ sock \in [Fd -> Client \cup {None}]
      /\ link \in [Client -> {"none", "backlog", "open", "closed"}]
      /\ inq \in [Client -> Seq(Byte)] /\ reply \in [Client -> Seq(Byte)]
      /\ sent \in [Client -> Nat]
  BY DEF LoopFacts, Loop!TypeOK, Types
<1>1. CASE LoopOnly /\ ~\E s \in Slot, f \in Fd : Start(s, f)
  <2>1. UNCHANGED <<config, session, sock, inq, reply, link, hello, sent>>
    BY <1>1 DEF LoopOnly, StartFails, EnterLoop, Poll, PollFails, BatchDone, Dispatch,
                AcceptFails, Keep, Stop, sessionVars, socketVars, clientVars
  <2>2. pc' = "crashed" \/ (pc # "crashed" /\ epoll' = epoll)
    BY <1>1 DEF LoopOnly, StartFails, EnterLoop, Poll, PollFails, BatchDone, Dispatch,
                AcceptFails, Keep, Stop, Loop!StartFails, Loop!EnterLoop, Loop!Wait,
                Loop!WaitFails, Loop!BatchDone, Loop!Dispatch, Loop!AcceptFails,
                Loop!Keep, Loop!StopEmpty, Loop!StopWithItems, Loop!items
  <2> QED
    BY <2>1, <2>2 DEF Progress
<1>2. ASSUME NEW s \in Slot, NEW f \in Fd, Start(s, f)
      PROVE  Progress'
  <2>1. /\ pc = "start" /\ pc' = "start" /\ epoll[f] = None
        /\ epoll' = [epoll EXCEPT ![f] = s]
        /\ UNCHANGED <<config, session, sock, inq, reply, link, hello, sent>>
    BY <1>2 DEF Start, Loop!Listen, Loop!Register, Loop!FreeFd,
                sessionVars, socketVars, clientVars
  <2>2. sock[f] = None
    BY <1>0, <2>1, NoneAssumption DEF Matched, SessionsMatchItems
  <2>3. \A g \in Fd : sock[g] # None => epoll'[g] = epoll[g]
    BY <1>0, <2>1, <2>2
  <2> QED
    BY <2>1, <2>3 DEF Progress
<1>3. ASSUME NEW c \in Client, Dial(c) \/ Shut(c) \/ Reset(c)
      PROVE  Progress'
  <2>1. /\ UNCHANGED <<pc, epoll, config, session, sock, inq, reply, hello, sent>>
        /\ \A d \in Client : link'[d] \in {"none", "backlog"} => link[d] \in {"none", "backlog"}
    BY <1>0, <1>3 DEF Dial, Shut, Reset, Matched, loopVars, sessionVars, socketVars
  <2> QED
    BY <2>1 DEF Progress
<1>4. ASSUME NEW c \in Client, NEW n \in 1..Len(hello[c]), Arrive(c, n)
      PROVE  Progress'
  <2> DEFINE more == SubSeq(hello[c], sent[c] + 1, sent[c] + n)
  <2>1. /\ UNCHANGED <<pc, epoll, config, session, sock, reply, link, hello>>
        /\ inq' = [inq EXCEPT ![c] = inq[c] \o more]
        /\ sent' = [sent EXCEPT ![c] = sent[c] + n]
    BY <1>4 DEF Arrive, loopVars, sessionVars
  <2>2. hello[c] \in Seq(Byte) /\ inq[c] \in Seq(Byte) /\ sent[c] \in Nat
        /\ Len(hello[c]) \in Nat
    BY <1>0, BytesAssumption DEF Types, Byte
  <2>3. n \in Nat /\ sent[c] <= Len(hello[c]) /\ sent[c] + n <= Len(hello[c])
    <3>1. n \in 1..(Len(hello[c]) - sent[c])
      BY <1>4 DEF Arrive
    <3>2. sent[c] \in Nat /\ Len(hello[c]) \in Nat
      BY <2>2
    <3> QED
      BY <3>1, <3>2
  <2>4. SubSeq(hello[c], 1, sent[c]) \o more = SubSeq(hello[c], 1, sent[c] + n)
    <3>1. 1 \in 1..(Len(hello[c]) + 1) /\ sent[c] \in (1 - 1)..Len(hello[c])
          /\ sent[c] + n \in sent[c]..Len(hello[c])
      BY <2>2, <2>3
    <3> QED
      BY <2>2, <3>1, ConcatAdjacentSubSeq
  <2>5. more \in Seq(Byte)
    <3>1. \A i \in (sent[c] + 1)..(sent[c] + n) : hello[c][i] \in Byte
      <4> SUFFICES ASSUME NEW i \in (sent[c] + 1)..(sent[c] + n) PROVE hello[c][i] \in Byte
        OBVIOUS
      <4>1. i \in 1..Len(hello[c])
        BY <2>2, <2>3
      <4> QED
        BY <2>2, <4>1, ElementOfSeq
    <3>2. sent[c] + 1 \in Int /\ sent[c] + n \in Int
      BY <2>2, <2>3
    <3> QED
      BY <3>1, <3>2, SubSeqProperties
  <2> HIDE DEF more
  <2>6. ASSUME NEW b \in Seq(Byte)
        PROVE  b \o (inq[c] \o more) = (b \o inq[c]) \o more
    <3>1. inq[c] \in Seq(Byte)
      BY <2>2
    <3>2. \A x, y \in Seq(Byte) : b \o (x \o y) = (b \o x) \o y
      BY ConcatAssociative
    <3> QED
      BY <3>1, <3>2, <2>5
  <2>7. ASSUME NEW s \in SessionType, NEW m,
               Talk(s, inq[c], reply[c], hello[c], sent[c], m)
        PROVE  Talk(s, inq[c] \o more, reply[c], hello[c], sent[c] + n, m)
    <3>1. s.read \in Seq(Byte)
      BY DEF SessionType
    <3>2. s.read \o (inq[c] \o more) = (s.read \o inq[c]) \o more
      BY <2>6, <3>1
    <3> QED
      BY <2>4, <2>7, <3>2 DEF Talk
  <2>8. inq'[c] = inq[c] \o more /\ sent'[c] = sent[c] + n
        /\ \A d \in Client \ {c} : inq'[d] = inq[d] /\ sent'[d] = sent[d]
    BY <1>0, <2>1
  <2>9. \A d \in Client : link[d] \in {"none", "backlog"} =>
           reply[d] = <<>> /\ inq'[d] = SubSeq(hello[d], 1, sent'[d])
    BY <2>4, <2>8 DEF Progress
  <2>10. ASSUME pc # "crashed", NEW f \in Fd, sock[f] # None
         PROVE  Talk(session[epoll[f]], inq'[sock[f]], reply[sock[f]], hello[sock[f]],
                     sent'[sock[f]], config)
    <3>1. session[epoll[f]] \in SessionType /\ sock[f] \in Client
      BY <1>0, <2>10 DEF Matched, SessionsMatchItems
    <3>2. Talk(session[epoll[f]], inq[sock[f]], reply[sock[f]], hello[sock[f]],
               sent[sock[f]], config)
      BY <2>10 DEF Progress
    <3> QED
      BY <2>7, <2>8, <3>1, <3>2
  <2> QED
    BY <2>1, <2>9, <2>10 DEF Progress
<1>5. ASSUME NEW s \in Slot, NEW f \in Fd, NEW c \in Client, Accept(s, f, c)
      PROVE  Progress'
  <2>1. /\ pc = "accept" /\ type[s] = "free" /\ epoll[f] = None /\ link[c] = "backlog"
        /\ epoll' = [epoll EXCEPT ![f] = s] /\ session' = [session EXCEPT ![s] = NewSession]
        /\ sock' = [sock EXCEPT ![f] = c] /\ link' = [link EXCEPT ![c] = "open"]
        /\ UNCHANGED <<config, inq, reply, hello, sent>>
    BY <1>5 DEF Accept, Loop!Accept, Loop!Register, Loop!Live, Loop!FreeFd, clientVars
  <2>2. reply[c] = <<>> /\ inq[c] = SubSeq(hello[c], 1, sent[c]) /\ inq[c] \in Seq(Byte)
    BY <1>0, <2>1 DEF Progress
  <2>3. Talk(NewSession, inq[c], reply[c], hello[c], sent[c], config)
    <3>1. <<>> \o inq[c] = inq[c] /\ Len(<<>>) <= 2
      BY <2>2, ConcatEmptySeq
    <3> QED
      BY <2>2, <3>1, SessionTypes DEF Talk, Agreement
  <2>4. \A g \in Fd : epoll[g] # s
    BY <2>1, NoneAssumption DEF LoopFacts, Loop!Bookkeeping, Loop!Live
  <2>5. ASSUME NEW g \in Fd, sock'[g] # None
        PROVE  Talk(session'[epoll'[g]], inq[sock'[g]], reply[sock'[g]], hello[sock'[g]],
                    sent[sock'[g]], config)
    <3>1. CASE g = f
      BY <1>0, <2>1, <2>3, <3>1
    <3>2. CASE g # f
      <4>1. sock'[g] = sock[g] /\ epoll'[g] = epoll[g] /\ session'[epoll[g]] = session[epoll[g]]
        BY <1>0, <2>1, <2>4, <3>2
      <4> QED
        BY <2>1, <2>5, <4>1 DEF Progress
    <3> QED
      BY <3>1, <3>2
  <2>6. \A d \in Client : link'[d] \in {"none", "backlog"} => link[d] \in {"none", "backlog"}
    BY <1>0, <2>1
  <2> QED
    BY <2>1, <2>5, <2>6 DEF Progress
<1>6. ASSUME NEW c \in Client, RegisterFails(c)
      PROVE  Progress'
  <2>1. /\ pc = "accept" /\ pc' = "dispatch" /\ link' = [link EXCEPT ![c] = "closed"]
        /\ UNCHANGED <<epoll, config, session, sock, inq, reply, hello, sent>>
    BY <1>6 DEF RegisterFails, Loop!AcceptFails, Loop!EndHandling, Loop!items,
                sessionVars, clientVars
  <2>2. \A d \in Client : link'[d] \in {"none", "backlog"} => link[d] \in {"none", "backlog"}
    BY <1>0, <2>1
  <2> QED
    BY <2>1, <2>2 DEF Progress
<1>7. CASE Handling
  <2>1. /\ pc \in {"recv", "send"} /\ UNCHANGED <<epoll, sock, link, config, hello, sent>>
    BY <1>7, HandlersKeepTheirSession, HandlersTalk
  <2>2. /\ cur \in Slot /\ fd[cur] \in Fd /\ epoll[fd[cur]] = cur /\ C \in Client
        /\ C = sock[fd[cur]] /\ link[C] = "open"
        /\ \A f \in Fd \ {fd[cur]} : epoll[f] # cur /\ sock[f] # C
    BY <2>1, Current, CurrentTalk DEF C
  <2>3. PICK new, q, r :
          /\ session' = [session EXCEPT ![cur] = new]
          /\ inq' = [inq EXCEPT ![C] = q]
          /\ reply' = [reply EXCEPT ![C] = r]
          /\ Talk(new, q, r, hello[C], sent[C], config)
    BY <1>7, HandlersTalk
  <2>4. /\ session'[cur] = new /\ inq'[C] = q /\ reply'[C] = r
        /\ \A d \in Client : d # C => inq'[d] = inq[d] /\ reply'[d] = reply[d]
        /\ \A u \in Slot : u # cur => session'[u] = session[u]
    BY <1>0, <2>2, <2>3
  <2>5. \A d \in Client : Agreement(reply'[d], hello[d], config)
    <3>1. Agreement(r, hello[C], config)
      BY <2>3 DEF Talk
    <3> QED
      BY <2>4, <3>1 DEF Progress
  <2>6. \A d \in Client : link[d] \in {"none", "backlog"} =>
           reply'[d] = <<>> /\ inq'[d] = SubSeq(hello[d], 1, sent[d])
    BY <2>2, <2>4 DEF Progress
  <2>7. ASSUME NEW g \in Fd, sock[g] # None
        PROVE  Talk(session'[epoll[g]], inq'[sock[g]], reply'[sock[g]], hello[sock[g]],
                    sent[sock[g]], config)
    <3>1. CASE g = fd[cur]
      BY <2>2, <2>3, <2>4, <3>1
    <3>2. CASE g # fd[cur]
      <4>1. epoll[g] \in Slot /\ epoll[g] # cur /\ sock[g] \in Client /\ sock[g] # C
        BY <1>0, <2>1, <2>2, <2>7, <3>2 DEF Matched, SessionsMatchItems
      <4>2. Talk(session[epoll[g]], inq[sock[g]], reply[sock[g]], hello[sock[g]],
                 sent[sock[g]], config)
        BY <2>1, <2>7 DEF Progress
      <4> QED
        BY <2>4, <4>1, <4>2
    <3> QED
      BY <3>1, <3>2
  <2> QED
    BY <2>1, <2>5, <2>6, <2>7 DEF Progress
<1>8. CASE Close
  <2>1. /\ pc = "check" /\ cur \in Slot /\ fd[cur] \in Fd /\ C \in Client
        /\ \A f \in Fd \ {fd[cur]} : epoll[f] # cur
    BY <1>8, Current DEF Close, Loop!Close
  <2>2. /\ epoll' = [epoll EXCEPT ![fd[cur]] = None]
        /\ session' = [session EXCEPT ![cur] = NoSession]
        /\ sock' = [sock EXCEPT ![fd[cur]] = None] /\ link' = [link EXCEPT ![C] = "closed"]
        /\ UNCHANGED <<config, inq, reply, hello, sent>>
    BY <1>8 DEF Close, Loop!Close, Loop!CloseItem, clientVars
  <2>3. ASSUME NEW g \in Fd, sock'[g] # None
        PROVE  Talk(session'[epoll'[g]], inq[sock'[g]], reply[sock'[g]], hello[sock'[g]],
                    sent[sock'[g]], config)
    <3>1. g # fd[cur]
      BY <1>0, <2>1, <2>2, <2>3
    <3>2. sock'[g] = sock[g] /\ epoll'[g] = epoll[g] /\ session'[epoll[g]] = session[epoll[g]]
      BY <1>0, <2>1, <2>2, <3>1
    <3> QED
      BY <2>1, <2>3, <3>2 DEF Progress
  <2>4. \A d \in Client : link'[d] \in {"none", "backlog"} => link[d] \in {"none", "backlog"}
    BY <1>0, <2>1, <2>2
  <2> QED
    BY <2>2, <2>3, <2>4 DEF Progress
<1>9. CASE Ended
  BY <1>9 DEF Ended, vars, loopVars, sessionVars, socketVars, clientVars, Progress
<1> QED
  BY <1>1, <1>2, <1>3, <1>4, <1>5, <1>6, <1>7, <1>8, <1>9
     DEF Next, ClientNext, ServerNext, LoopOnly, Handling

-----------------------------------------------------------------------------
(* The invariant as a whole. *)
Inv == Types /\ Matched /\ Progress

LEMMA InvInvariant == Spec => []Inv
<1>1. Init => Inv
  BY TypesInit, MatchedInit, ProgressInit DEF Inv
<1>2. LoopFacts /\ Inv /\ Next => Inv'
  BY TypesNext, MatchedNext, ProgressNext DEF Inv
<1>3. Inv /\ UNCHANGED vars => Inv'
  BY DEF Inv, vars, loopVars, sessionVars, socketVars, clientVars,
         Types, Matched, SessionsMatchItems, Progress
<1>4. LoopFacts /\ Inv /\ [Next]_vars => Inv'
  BY <1>2, <1>3
<1> QED
  BY <1>1, <1>4, LoopInvariant, PTL DEF Spec

(* The variables keep their types: in particular a session never holds more  *)
(* than one hello of its client, whose list of methods may have any length a *)
(* byte can tell, and what a handler's local holds is gone when it returns.  *)
THEOREM TypeCorrect == Spec => []TypeOK
<1>1. LoopFacts /\ Types => TypeOK
  <2> SUFFICES ASSUME LoopFacts, Types PROVE TypeOK
    OBVIOUS
  <2>1. session \in [Slot -> [status : Status \cup {"none"}, read : Seq(0..255),
                              write : Seq(0..255), auth_method : 0..255, scheme : 0..255]]
        /\ \A s \in Slot : Len(session[s].read) <= 2 + 255
    BY DEF Types, SessionType, Byte
  <2>2. /\ inq \in [Client -> Seq(0..255)] /\ reply \in [Client -> Seq(0..255)]
    BY DEF Types, Byte
  <2> QED
    BY <2>1, <2>2 DEF LoopFacts, Types, TypeOK
<1> QED
  BY <1>1, InvInvariant, LoopInvariant, PTL DEF Inv

(* However clients dial, send, hang up and reset, and however connections    *)
(* come and go within a batch: every connection in memory has one session,   *)
(* one descriptor and one client, and the other way round.                   *)
THEOREM SessionsStayMatched == Spec => []SessionsMatchItems
<1>1. Matched => SessionsMatchItems
  BY DEF Matched
<1> QED
  BY <1>1, InvInvariant, PTL DEF Inv

(* Whatever the clients send and however it is cut into segments, a client   *)
(* is sent one hello reply at most, and only for a method that its hello     *)
(* lists: neither the request behind the list nor the bytes before it are    *)
(* taken for an offer.                                                       *)
THEOREM RepliesAreAgreements == Spec => []ReplyIsTheAgreement
<1>1. Progress => ReplyIsTheAgreement
  BY DEF Progress, Agreement, ReplyIsTheAgreement, Offered, Methods
<1> QED
  BY <1>1, InvInvariant, PTL DEF Inv

-----------------------------------------------------------------------------
(* Why no reply is lost: epoll says that a connection can be written to with *)
(* whatever else it says of it, so whenever the loop asks whether to close a *)
(* connection, its send_handler has just run.                                *)
Delivery ==
    /\ pc # "crashed" =>
          \A s \in Slot : type[s] = "connection" /\ batch[s] # {} => "OUT" \in batch[s]
    /\ pc \in {"recv", "send", "check"} => "OUT" \in events
    /\ pc = "check" => client[C] = "reset" \/ S.write = <<>>
    /\ \A s \in listed : fd[s] \in Fd /\ sock[fd[s]] \in Client /\ link[sock[fd[s]]] = "open"

LEMMA DeliveryInit == Init => Delivery
  BY DEF Init, Loop!Init, Loop!NoEvents, Delivery

LEMMA EventsSayOut ==
    ASSUME LoopFacts, Types, Matched, Delivery, Next
    PROVE  /\ pc' # "crashed" => \A s \in Slot :
                 type'[s] = "connection" /\ batch'[s] # {} => "OUT" \in batch'[s]
           /\ pc' \in {"recv", "send", "check"} => "OUT" \in events'
<1>0. /\ type \in [Slot -> {"free", "connection", "listening"}] /\ cur \in Slot \cup {None}
      /\ batch \in [Slot -> SUBSET Loop!Event]
      /\ pc # "crashed" => \A s \in Slot : batch[s] # {} => type[s] # "free"
  BY DEF LoopFacts, Loop!TypeOK, Loop!EventsAreLive, Loop!Live
<1>1. CASE Poll
  <2>1. /\ batch' = [s \in Slot |-> Ready(s)] /\ type' = type
        /\ pc = "wait" /\ pc' = "dispatch"
    BY <1>1 DEF Poll, Loop!Wait, Loop!items
  <2>2. \A s \in Slot : type[s] = "connection" => "OUT" \in Ready(s)
    BY DEF Ready
  <2> QED
    BY <2>1, <2>2
<1>2. ASSUME NEW s \in Slot, Dispatch(s)
      PROVE  /\ pc' # "crashed" => \A u \in Slot :
                   type'[u] = "connection" /\ batch'[u] # {} => "OUT" \in batch'[u]
             /\ pc' \in {"recv", "send", "check"} => "OUT" \in events'
  <2>1. /\ pc = "dispatch" /\ batch[s] # {} /\ batch' = [batch EXCEPT ![s] = {}]
        /\ events' = batch[s] /\ type' = type
        /\ pc' = IF type[s] = "listening" THEN "accept" ELSE "recv"
    BY <1>2 DEF Dispatch, Loop!Dispatch, Loop!items
  <2> QED
    BY <1>0, <2>1 DEF Delivery
<1>3. ASSUME NEW s \in Slot, NEW f \in Fd,
             Start(s, f) \/ \E c \in Client : Accept(s, f, c)
      PROVE  /\ pc' # "crashed" => \A u \in Slot :
                   type'[u] = "connection" /\ batch'[u] # {} => "OUT" \in batch'[u]
             /\ pc' \in {"recv", "send", "check"} => "OUT" \in events'
  <2>1. /\ pc \in {"start", "accept"} /\ pc' \in {"start", "dispatch"} /\ type[s] = "free"
        /\ \E x : type' = [type EXCEPT ![s] = x]
        /\ batch' = batch
    BY <1>3 DEF Start, Accept, Loop!Listen, Loop!Accept, Loop!Register, Loop!Live,
                Loop!EndHandling
  <2> QED
    BY <1>0, <2>1 DEF Delivery
<1>4. CASE Close
  <2>1. /\ pc = "check" /\ pc' = "dispatch" /\ batch' = batch
        /\ type' = [type EXCEPT ![cur] = "free"]
    BY <1>4 DEF Close, Loop!Close, Loop!CloseItem, Loop!EndHandling
  <2> QED
    BY <1>0, <2>1 DEF Delivery
<1>5. CASE Stop
  <2>1. pc = "stop" /\ pc' \in {"exited", "crashed"}
        /\ (pc' # "crashed" => type' = type /\ batch' = batch)
    BY <1>5 DEF Stop, Loop!StopEmpty, Loop!StopWithItems, Loop!items
  <2> QED
    BY <2>1 DEF Delivery
<1>6. CASE \/ StartFails \/ EnterLoop \/ PollFails \/ BatchDone
           \/ AcceptFails \/ \E c \in Client : RegisterFails(c)
           \/ Keep \/ Handling \/ ClientNext \/ Ended
  <2>1. UNCHANGED <<type, batch>> /\ (pc' # "crashed" => pc # "crashed")
    BY <1>6 DEF StartFails, EnterLoop, PollFails, BatchDone, AcceptFails, RegisterFails, Keep,
                Handling, NothingToRead, HelloIncomplete, HelloRefused, HelloAccepted,
                AuthBegin, AuthRefused, DeadReturns, DeadSpins, Send, HandlerReturns,
                Loop!StartFails, Loop!EnterLoop, Loop!WaitFails, Loop!BatchDone,
                Loop!AcceptFails, Loop!EndHandling, Loop!Keep, Loop!RecvReturns,
                Loop!SendReturns, Loop!items, ClientNext, Dial, Arrive, Shut, Reset,
                Ended, Loop!Ended, loopVars, vars
  <2>2. pc' \in {"recv", "send", "check"}
           => pc \in {"recv", "send", "check"} /\ events' = events
    BY <1>6 DEF StartFails, EnterLoop, PollFails, BatchDone, AcceptFails, RegisterFails, Keep,
                Handling, NothingToRead, HelloIncomplete, HelloRefused, HelloAccepted,
                AuthBegin, AuthRefused, DeadReturns, DeadSpins, Send, HandlerReturns,
                Turn, Loop!StartFails, Loop!EnterLoop, Loop!WaitFails, Loop!BatchDone,
                Loop!AcceptFails, Loop!EndHandling, Loop!Keep, Loop!RecvReturns,
                Loop!SendReturns, Loop!items, ClientNext, Dial, Arrive, Shut, Reset,
                Ended, Loop!Ended, loopVars, vars
  <2> QED
    BY <2>1, <2>2 DEF Delivery
<1> QED
  BY <1>1, <1>2, <1>3, <1>4, <1>5, <1>6 DEF Next, ServerNext, Handling

LEMMA CheckedIsWritten ==
    ASSUME LoopFacts, Types, Matched, Delivery, Next, pc' = "check"
    PROVE  client'[C'] = "reset" \/ S'.write = <<>>
<1>1. client \in [Client -> {"new", "open", "shut", "reset"}] /\ session \in [Slot -> SessionType]
  BY DEF Types
<1>2. CASE Send
  <2>1. /\ pc = "send" /\ "OUT" \in events
        /\ UNCHANGED <<cur, fd, sock, client>>
    BY <1>2 DEF Delivery, Send, Loop!SendReturns, Loop!items, clientVars
  <2>2. C' = C /\ S' = session'[cur]
    BY <2>1 DEF C, S
  <2>3. cur \in Slot /\ S \in SessionType
    BY <2>1, Current
  <2>4. CASE client[C] # "reset"
    <3>1. session' = [session EXCEPT ![cur] = [S EXCEPT !.write = <<>>]]
      BY <1>2, <2>1, <2>4 DEF Send, S
    <3>2. [S EXCEPT !.write = <<>>].write = <<>>
      BY <2>3, SessionUpdates
    <3> QED
      BY <1>1, <2>2, <2>3, <3>1, <3>2
  <2> QED
    BY <2>1, <2>2, <2>4
<1>3. CASE ClientNext \/ Ended
  <2>1. pc = "check" /\ C' = C /\ S' = S
    BY <1>3 DEF ClientNext, Dial, Arrive, Shut, Reset, Ended, Loop!Ended, vars,
                loopVars, sessionVars, socketVars, C, S
  <2>2. C \in Client
    BY <2>1, Current
  <2>3. \/ client' = client
        \/ \E c \in Client, x \in {"shut", "reset"} :
              client[c] # "reset" /\ client' = [client EXCEPT ![c] = x]
        \/ \E c \in Client : client[c] = "new" /\ client' = [client EXCEPT ![c] = "open"]
        \/ \E c \in Client : client' = [client EXCEPT ![c] = "reset"]
    BY <1>3 DEF ClientNext, Dial, Arrive, Shut, Reset, Ended, vars, clientVars
  <2>4. client[C] = "reset" => client'[C] = "reset"
    BY <1>1, <2>2, <2>3
  <2> QED
    BY <2>1, <2>4 DEF Delivery
<1> QED
  BY <1>2, <1>3 DEF Next, ServerNext, Start, StartFails, EnterLoop, Poll, PollFails, BatchDone,
                    Dispatch, AcceptFails, RegisterFails, Accept, Keep, Close, Stop,
                    NothingToRead, HelloIncomplete, HelloRefused, HelloAccepted,
                    AuthBegin, AuthRefused, DeadReturns, DeadSpins, HandlerReturns, Turn,
                    Loop!Listen, Loop!StartFails, Loop!EnterLoop, Loop!Wait, Loop!WaitFails,
                    Loop!BatchDone, Loop!Dispatch, Loop!Accept, Loop!AcceptFails,
                    Loop!EndHandling, Loop!Keep, Loop!Close, Loop!StopEmpty,
                    Loop!StopWithItems, Loop!RecvReturns, loopVars

LEMMA ListedAreOpen ==
    ASSUME LoopFacts, Types, Matched, Delivery, Next, LoopFacts', Types', Matched'
    PROVE  \A s \in listed' :
              fd'[s] \in Fd /\ sock'[fd'[s]] \in Client /\ link'[sock'[fd'[s]]] = "open"
<1>1. CASE pc' # "crashed"
  <2> SUFFICES ASSUME NEW s \in listed'
               PROVE  fd'[s] \in Fd /\ sock'[fd'[s]] \in Client
                      /\ link'[sock'[fd'[s]]] = "open"
    OBVIOUS
  <2>1. s \in Slot /\ type'[s] = "connection"
    BY <1>1 DEF Matched, SessionsMatchItems
  <2>2. fd'[s] \in Fd /\ epoll'[fd'[s]] = s
    BY <1>1, <2>1 DEF LoopFacts, Loop!Bookkeeping, Loop!Live
  <2>3. sock'[fd'[s]] # None /\ sock'[fd'[s]] \in Client
    BY <1>1, <2>2 DEF Matched, SessionsMatchItems, Types
  <2> QED
    BY <1>1, <2>2, <2>3 DEF Matched, SessionsMatchItems
<1>2. CASE pc' = "crashed"
  <2>1. CASE pc = "crashed"
    <3>1. ClientNext \/ Ended
      BY <2>1 DEF Next, ServerNext, Start, StartFails, EnterLoop, Poll, PollFails, BatchDone,
                  Dispatch, AcceptFails, RegisterFails, Accept, Keep, Close, Stop, Send,
                  NothingToRead, HelloIncomplete, HelloRefused, HelloAccepted,
                  AuthBegin, AuthRefused, DeadReturns, DeadSpins, HandlerReturns, Turn,
                  Loop!Listen, Loop!StartFails, Loop!EnterLoop, Loop!Wait, Loop!WaitFails,
                  Loop!BatchDone, Loop!Dispatch, Loop!Accept, Loop!AcceptFails,
                  Loop!Keep, Loop!Close, Loop!StopEmpty, Loop!SendReturns,
                  Loop!StopWithItems, Loop!RecvReturns
    <3>2. /\ UNCHANGED <<listed, fd, sock>>
          /\ link' = link \/ \E c \in Client : link[c] = "none"
                                           /\ link' = [link EXCEPT ![c] = "backlog"]
      BY <3>1 DEF ClientNext, Dial, Arrive, Shut, Reset, Ended, vars, loopVars,
                  socketVars, Matched
    <3> QED
      BY <3>2 DEF Delivery, Types
  <2>2. CASE pc # "crashed"
    <3>1. Stop /\ Loop!StopWithItems
      BY <1>2, <2>2 DEF Next, ServerNext, ClientNext, Dial, Arrive, Shut, Reset, Ended,
                  Start, StartFails, EnterLoop, Poll, PollFails, BatchDone,
                  Dispatch, AcceptFails, RegisterFails, Accept, Keep, Close, Stop, Send,
                  NothingToRead, HelloIncomplete, HelloRefused, HelloAccepted,
                  AuthBegin, AuthRefused, DeadReturns, DeadSpins, HandlerReturns, Turn,
                  Loop!Listen, Loop!StartFails, Loop!EnterLoop, Loop!Wait, Loop!WaitFails,
                  Loop!BatchDone, Loop!Dispatch, Loop!Accept, Loop!AcceptFails,
                  Loop!EndHandling, Loop!Keep, Loop!Close, Loop!StopEmpty,
                  Loop!SendReturns, Loop!RecvReturns, loopVars, vars
    <3>2. PICK u \in listed : listed' = listed \ {u} /\ fd' = [fd EXCEPT ![u] = None]
      BY <3>1 DEF Loop!StopWithItems, Loop!CloseItem
    <3>3. fd \in [Slot -> Fd \cup {None}] /\ listed \subseteq Slot
          /\ sock' = sock /\ link' = link
      BY <3>1 DEF LoopFacts, Loop!TypeOK, Stop, socketVars
    <3> QED
      BY <3>2, <3>3 DEF Delivery
  <2> QED
    BY <2>1, <2>2
<1> QED
  BY <1>1, <1>2

(* A step that closes a client's connection is Close, of the item that is    *)
(* being handled.                                                            *)
LEMMA ClosedAfterReply ==
    ASSUME LoopFacts, Inv, Delivery, Next,
           NEW s \in listed, link'[sock[fd[s]]] = "closed", client[sock[fd[s]]] # "reset",
           session[s].auth_method # NO_ACCEPTABLE
    PROVE  reply[sock[fd[s]]] = <<VERSION, session[s].auth_method>>
<1>1. fd[s] \in Fd /\ sock[fd[s]] \in Client /\ link[sock[fd[s]]] = "open"
  BY DEF Delivery
<1>2. link \in [Client -> {"none", "backlog", "open", "closed"}]
      /\ \A c \in Client : client[c] = "new" => link[c] = "none"
  BY DEF Inv, Types, Matched
<1>3. CASE Close
  <2>1. pc = "check" /\ link' = [link EXCEPT ![C] = "closed"]
    BY <1>3 DEF Close, Loop!Close
  <2>2. sock[fd[s]] = C
    BY <1>1, <1>2, <2>1
  <2>3. fd[cur] \in Fd /\ epoll[fd[cur]] = cur /\ C \in Client
        /\ \A f \in Fd \ {fd[cur]} : sock[f] # C
    BY <2>1, Current DEF Inv
  <2>4. s \in Slot /\ epoll[fd[s]] = s
    BY <2>1 DEF LoopFacts, Loop!TypeOK, Loop!Bookkeeping, Loop!Live
  <2>5. s = cur
    BY <1>1, <2>2, <2>3, <2>4
  <2>6. S.write = <<>> /\ S.auth_method # NO_ACCEPTABLE
    BY <2>1, <2>2, <2>5 DEF Delivery, S
  <2>7. Promised(S.auth_method, S.write, reply[C])
    <3>1. Talk(S, inq[C], reply[C], hello[C], sent[C], config)
      BY <2>1, CurrentTalk DEF Inv
    <3> QED
      BY <2>6, <3>1 DEF Talk
  <2>8. <<>> # <<VERSION, S.auth_method>>
    OBVIOUS
  <2> QED
    BY <2>2, <2>5, <2>6, <2>7, <2>8 DEF Promised, S
<1>4. ASSUME ~Close PROVE FALSE
  <2>1. \/ link' = link
        \/ \E c \in Client : client[c] = "new" /\ link' = [link EXCEPT ![c] = "backlog"]
        \/ \E c \in Client : link' = [link EXCEPT ![c] = "open"]
        \/ \E c \in Client : link[c] = "backlog" /\ link' = [link EXCEPT ![c] = "closed"]
    BY <1>4 DEF Next, ServerNext, ClientNext, Dial, Arrive, Shut, Reset, Ended,
                Start, StartFails, EnterLoop, Poll, PollFails, BatchDone,
                Dispatch, AcceptFails, RegisterFails, Accept, Keep, Stop, Send,
                NothingToRead, HelloIncomplete, HelloRefused, HelloAccepted,
                AuthBegin, AuthRefused, DeadReturns, DeadSpins, vars, socketVars
  <2> QED
    BY <1>1, <1>2, <2>1
<1> QED
  BY <1>3, <1>4

LEMMA DeliveryInvariant == Spec => []Delivery
<1>1. LoopFacts /\ LoopFacts' /\ Inv /\ Inv' /\ Delivery /\ Next => Delivery'
  BY EventsSayOut, CheckedIsWritten, ListedAreOpen DEF Inv, Delivery
<1>2. Delivery /\ UNCHANGED vars => Delivery'
  BY DEF vars, loopVars, sessionVars, socketVars, clientVars, Delivery, C, S
<1>3. LoopFacts /\ LoopFacts' /\ Inv /\ Inv' /\ Delivery /\ [Next]_vars => Delivery'
  BY <1>1, <1>2
<1> QED
  BY <1>3, DeliveryInit, InvInvariant, LoopInvariant, PTL DEF Spec

(* Once a method is agreed on, the client is told: the server never closes   *)
(* the connection of a client that has not reset it without having sent the  *)
(* reply, though the session is dead as soon as the reply is written and the *)
(* client may have hung up long before.                                      *)
THEOREM RepliesAreNotLost == Spec => NoReplyLost
<1> DEFINE Kept(s) ==
      LET c == sock[fd[s]] IN
      link'[c] = "closed" /\ client[c] # "reset"
      /\ session[s].auth_method # NO_ACCEPTABLE
        => reply[c] = <<VERSION, session[s].auth_method>>
<1>1. LoopFacts /\ Inv /\ Delivery /\ Next => \A s \in listed : Kept(s)
  BY ClosedAfterReply
<1>2. LoopFacts /\ Inv /\ Delivery /\ [Next]_vars => [\A s \in listed : Kept(s)]_vars
  BY <1>1
<1> QED
  BY <1>2, DeliveryInvariant, InvInvariant, LoopInvariant, PTL DEF Spec, NoReplyLost
=============================================================================
