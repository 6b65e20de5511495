--------------------------- MODULE EventLoopProofs ---------------------------
(***************************************************************************)
(* The event loop never handles an event of an item that is gone, for any  *)
(* number of items and descriptors: the proofs of the invariants and of    *)
(* the action property of EventLoop.                                       *)
(*                                                                         *)
(* EventsAreLive alone is not inductive.  That the item being closed is    *)
(* not named by the rest of the batch needs Quiet below; that an event     *)
(* names a live item to begin with needs Bookkeeping.                      *)
(***************************************************************************)
EXTENDS EventLoop, TLAPS

(* Where no event can be left over: outside the batch, and for the item that *)
(* is being handled.                                                         *)
Quiet ==
    /\ pc \in {"start", "wait", "stop"} => \A s \in Slot : batch[s] = {}
    /\ cur # None => batch[cur] = {}

IInv == TypeOK /\ Bookkeeping /\ EventsAreLive /\ Quiet

-----------------------------------------------------------------------------
(* The items: allocating one and closing one keep the books. *)

Books ==
    /\ type \in [Slot -> {"free", "connection", "listening"}]
    /\ fd \in [Slot -> Fd \cup {None}]
    /\ epoll \in [Fd -> Slot \cup {None}]
    /\ listed \subseteq Slot
    /\ \A s \in Live : fd[s] \in Fd /\ epoll[fd[s]] = s
    /\ \A f \in Fd : epoll[f] # None => epoll[f] \in Live /\ fd[epoll[f]] = f
    /\ \A s \in listed : type[s] = "connection"

(* A new item keeps the books whether it is listed, as an accepted           *)
(* connection is, or not, and leaves every other item as it was.             *)
LEMMA RegisterKeepsBooks ==
    ASSUME Books,
           NEW s \in Slot, NEW f \in Fd, NEW t \in {"connection", "listening"},
           Register(s, f, t),
           \/ listed' = listed
           \/ listed' = listed \cup {s} /\ t = "connection"
    PROVE  /\ Books'
           /\ \A u \in Live : u # s /\ type'[u] = type[u] /\ fd'[u] = fd[u]
<1>1. s # None /\ f # None
  BY NoneAssumption
<1>2. type[s] = "free" /\ epoll[f] = None
  BY DEF Register, Live, FreeFd
<1>3. /\ type' \in [Slot -> {"free", "connection", "listening"}]
      /\ fd' \in [Slot -> Fd \cup {None}]
      /\ epoll' \in [Fd -> Slot \cup {None}]
      /\ listed' \subseteq Slot
  BY DEF Books, Register
<1>4. Live' = Live \cup {s}
  BY DEF Books, Register, Live
<1>5. \A u \in Live : u # s /\ type'[u] = type[u] /\ fd'[u] = fd[u]
  BY <1>2 DEF Books, Register, Live
<1>6. \A u \in Live' : fd'[u] \in Fd /\ epoll'[fd'[u]] = u
  <2> SUFFICES ASSUME NEW u \in Live' PROVE fd'[u] \in Fd /\ epoll'[fd'[u]] = u
    OBVIOUS
  <2>1. CASE u = s
    BY <2>1 DEF Books, Register
  <2>2. CASE u \in Live
    <3>1. fd[u] \in Fd /\ epoll[fd[u]] = u /\ u # None
      BY <2>2, NoneAssumption DEF Books, Live
    <3>2. fd[u] # f
      BY <3>1, <1>2
    <3> QED
      BY <3>1, <3>2, <1>5, <2>2 DEF Books, Register
  <2> QED
    BY <1>4, <2>1, <2>2
<1>7. \A g \in Fd : epoll'[g] # None => epoll'[g] \in Live' /\ fd'[epoll'[g]] = g
  BY <1>4, <1>5 DEF Books, Register
<1>8. \A u \in listed' : type'[u] = "connection"
  BY <1>4, <1>5 DEF Books, Register, Live
<1> QED
  BY <1>3, <1>5, <1>6, <1>7, <1>8 DEF Books

(* Closing an item keeps the books and leaves every other item as it was.    *)
LEMMA CloseKeepsBooks ==
    ASSUME Books, NEW s \in Live, CloseItem(s)
    PROVE  /\ Books'
           /\ Live' = Live \ {s}
           /\ \A u \in Slot \ {s} : type'[u] = type[u] /\ fd'[u] = fd[u]
<1>1. s \in Slot /\ s # None /\ fd[s] \in Fd /\ epoll[fd[s]] = s
  BY NoneAssumption DEF Books, Live
<1>2. /\ type' \in [Slot -> {"free", "connection", "listening"}]
      /\ fd' \in [Slot -> Fd \cup {None}]
      /\ epoll' \in [Fd -> Slot \cup {None}]
      /\ listed' \subseteq Slot
  BY <1>1 DEF Books, CloseItem
<1>3. Live' = Live \ {s}
  BY <1>1 DEF Books, CloseItem, Live
<1>4. \A u \in Slot \ {s} : type'[u] = type[u] /\ fd'[u] = fd[u]
  BY DEF Books, CloseItem
<1>5. \A u \in Live' : fd'[u] \in Fd /\ epoll'[fd'[u]] = u
  <2> SUFFICES ASSUME NEW u \in Live' PROVE fd'[u] \in Fd /\ epoll'[fd'[u]] = u
    OBVIOUS
  <2>1. u \in Live /\ u # s
    BY <1>3
  <2>2. fd[u] \in Fd /\ epoll[fd[u]] = u /\ fd[u] # fd[s]
    BY <1>1, <2>1 DEF Books
  <2> QED
    BY <1>1, <1>4, <2>1, <2>2 DEF Books, CloseItem, Live
<1>6. \A g \in Fd : epoll'[g] # None => epoll'[g] \in Live' /\ fd'[epoll'[g]] = g
  <2> SUFFICES ASSUME NEW g \in Fd, epoll'[g] # None
               PROVE  epoll'[g] \in Live' /\ fd'[epoll'[g]] = g
    OBVIOUS
  <2>1. g # fd[s] /\ epoll'[g] = epoll[g]
    BY <1>1 DEF Books, CloseItem
  <2>2. epoll[g] \in Live /\ fd[epoll[g]] = g
    BY <2>1 DEF Books
  <2> QED
    BY <1>3, <1>4, <2>1, <2>2 DEF Live
<1>7. \A u \in listed' : type'[u] = "connection"
  BY <1>4 DEF Books, CloseItem
<1> QED
  BY <1>2, <1>3, <1>4, <1>5, <1>6, <1>7 DEF Books

(* Nothing of this changes when the items do not. *)
LEMMA SameBooks ==
    ASSUME Books, UNCHANGED items
    PROVE  Books' /\ Live' = Live
  BY DEF Books, items, Live

LEMMA BooksOfIInv ==
    ASSUME IInv, pc # "crashed"
    PROVE  Books
  BY DEF IInv, TypeOK, Bookkeeping, Books

-----------------------------------------------------------------------------
(* The control variables. *)

Control ==
    /\ pc \in {"start", "wait", "dispatch", "accept", "recv", "send", "check",
               "stop", "exited", "crashed"}
    /\ batch \in [Slot -> SUBSET Event]
    /\ cur \in Slot \cup {None}
    /\ events \in SUBSET Event
    /\ pc \in {"accept", "recv", "send", "check"} => cur # None
    /\ pc \in {"start", "wait", "dispatch", "stop"} => cur = None

LEMMA IInvInit == Init => IInv
<1> SUFFICES ASSUME Init PROVE IInv
  OBVIOUS
<1>1. Live = {}
  BY DEF Init, Live
<1>2. Books
  BY <1>1, NoneAssumption DEF Init, Books
<1>3. Control
  BY NoneAssumption DEF Init, Control, NoEvents, Event
<1>4. EventsAreLive /\ Quiet
  BY DEF Init, EventsAreLive, Quiet, NoEvents
<1> QED
  BY <1>2, <1>3, <1>4 DEF Books, Control, IInv, TypeOK, Bookkeeping

(* The steps that add an item. *)
LEMMA IInvRegister ==
    ASSUME IInv, NEW s \in Slot, NEW f \in Fd,
           Listen(s, f) \/ Connect(s, f) \/ Accept(s, f)
    PROVE  IInv'
<1>1. pc # "crashed" /\ Books
  BY BooksOfIInv DEF Listen, Connect, Accept
<1>2. /\ Books'
      /\ \A u \in Live : u # s /\ type'[u] = type[u] /\ fd'[u] = fd[u]
  BY <1>1, RegisterKeepsBooks DEF Listen, Connect, Accept
<1>3. Control'
  BY DEF Listen, Connect, Accept, EndHandling, IInv, TypeOK, Control
<1>4. EventsAreLive'
  <2>1. \A u \in Slot : batch[u] # {} => u \in Live'
    BY <1>1, <1>2 DEF IInv, EventsAreLive, Live
  <2> QED
    BY <2>1 DEF Listen, Connect, Accept, EndHandling, EventsAreLive
<1>5. Quiet'
  BY DEF Listen, Connect, Accept, EndHandling, IInv, Quiet
<1> QED
  BY <1>2, <1>3, <1>4, <1>5 DEF Books, Control, IInv, TypeOK, Bookkeeping

(* The steps that close one. *)
LEMMA IInvClose ==
    ASSUME IInv, Close
    PROVE  IInv'
<1>1. pc = "check" /\ Books /\ cur \in Slot
  BY BooksOfIInv, NoneAssumption DEF Close, IInv, TypeOK
<1>2. cur \in Live
  BY <1>1 DEF IInv, EventsAreLive
<1>3. /\ Books'
      /\ Live' = Live \ {cur}
  BY <1>1, <1>2, CloseKeepsBooks DEF Close
<1>4. Control'
  BY DEF Close, EndHandling, IInv, TypeOK, Control
<1>5. EventsAreLive'
  <2>1. batch[cur] = {}
    BY <1>1, NoneAssumption DEF IInv, Quiet
  <2>2. \A u \in Slot : batch[u] # {} => u \in Live'
    BY <1>1, <1>3, <2>1 DEF IInv, EventsAreLive
  <2> QED
    BY <2>2 DEF Close, EndHandling, EventsAreLive
<1>6. Quiet'
  BY DEF Close, EndHandling, Quiet
<1> QED
  BY <1>3, <1>4, <1>5, <1>6 DEF Books, Control, IInv, TypeOK, Bookkeeping

(* The steps that end in a crash, after which nothing is claimed of items.   *)
LEMMA IInvCrash ==
    ASSUME IInv, CloseUnlisted \/ StopWithItems
    PROVE  IInv'
<1>1. pc' = "crashed" /\ UNCHANGED <<batch, cur, events>>
  BY DEF CloseUnlisted, StopWithItems
<1>2. TypeOK'
  BY <1>1 DEF CloseUnlisted, StopWithItems, CloseItem, IInv, TypeOK
<1>3. Bookkeeping' /\ EventsAreLive' /\ Quiet'
  BY <1>1 DEF Bookkeeping, EventsAreLive, Quiet, IInv
<1> QED
  BY <1>2, <1>3 DEF IInv

(* The steps that leave the items alone. *)
LEMMA IInvOther ==
    ASSUME IInv,
           \/ StartFails \/ EnterLoop \/ WaitFails \/ BatchDone \/ AcceptFails
           \/ RecvReturns \/ SendReturns \/ Keep \/ StopEmpty
           \/ \E ready \in [Slot -> SUBSET Event] : Wait(ready)
           \/ \E s \in Slot : Dispatch(s)
    PROVE  IInv'
<1>1. pc # "crashed" /\ UNCHANGED items
  BY DEF StartFails, EnterLoop, WaitFails, BatchDone, AcceptFails, RecvReturns,
         SendReturns, Keep, StopEmpty, Wait, Dispatch
<1>2. Books /\ Books' /\ Live' = Live
  BY <1>1, BooksOfIInv, SameBooks
<1>3. CASE \E ready \in [Slot -> SUBSET Event] : Wait(ready)
  <2>1. PICK ready \in [Slot -> SUBSET Event] : Wait(ready)
    BY <1>3
  <2>2. Control' /\ Quiet'
    BY <2>1, NoneAssumption DEF Wait, IInv, TypeOK, Control, Quiet
  <2>3. \A s \in Slot : ready[s] # {} => s \in Live
    BY <2>1, <1>2, NoneAssumption DEF Wait, Books
  <2>4. EventsAreLive'
    BY <2>1, <2>3, <1>2 DEF Wait, EventsAreLive
  <2> QED
    BY <1>2, <2>2, <2>4 DEF Books, Control, IInv, TypeOK, Bookkeeping
<1>4. CASE \E s \in Slot : Dispatch(s)
  <2>1. PICK s \in Slot : Dispatch(s)
    BY <1>4
  <2>2. s # None /\ s \in Live
    BY <2>1, NoneAssumption DEF Dispatch, IInv, EventsAreLive
  <2>3. Control'
    BY <2>1, <2>2 DEF Dispatch, IInv, TypeOK, Control
  <2>4. Quiet'
    BY <2>1, <2>2 DEF Dispatch, IInv, TypeOK, Quiet
  <2>5. EventsAreLive'
    <3>1. \A u \in Slot : batch'[u] # {} => u \in Live
      BY <2>1 DEF Dispatch, IInv, TypeOK, EventsAreLive
    <3>2. pc' \in {"recv", "send", "check"} => type[s] = "connection"
      BY <2>1, <2>2 DEF Dispatch, IInv, TypeOK, Live
    <3> QED
      BY <1>1, <1>2, <2>1, <2>2, <3>1, <3>2 DEF Dispatch, EventsAreLive, items
  <2> QED
    BY <1>2, <2>3, <2>4, <2>5 DEF Books, Control, IInv, TypeOK, Bookkeeping
<1>5. CASE BatchDone
  <2>1. Control' /\ Quiet' /\ EventsAreLive'
    BY <1>1, <1>2, <1>5
       DEF BatchDone, IInv, TypeOK, Control, Quiet, EventsAreLive, NoEvents, items
  <2> QED
    BY <1>2, <2>1 DEF Books, Control, IInv, TypeOK, Bookkeeping
<1>6. CASE \/ StartFails \/ EnterLoop \/ WaitFails \/ AcceptFails
           \/ RecvReturns \/ SendReturns \/ Keep \/ StopEmpty
  <2>1. Control'
    BY <1>6 DEF StartFails, EnterLoop, WaitFails, AcceptFails, RecvReturns, SendReturns,
                Keep, StopEmpty, EndHandling, IInv, TypeOK, Control
  <2>2. Quiet'
    BY <1>6 DEF StartFails, EnterLoop, WaitFails, AcceptFails, RecvReturns, SendReturns,
                Keep, StopEmpty, EndHandling, IInv, Quiet
  <2>3. EventsAreLive'
    BY <1>1, <1>2, <1>6
       DEF StartFails, EnterLoop, WaitFails, AcceptFails, RecvReturns, SendReturns,
           Keep, StopEmpty, EndHandling, IInv, EventsAreLive, items
  <2> QED
    BY <1>2, <2>1, <2>2, <2>3 DEF Books, Control, IInv, TypeOK, Bookkeeping
<1> QED
  BY <1>3, <1>4, <1>5, <1>6

LEMMA IInvStutter ==
    ASSUME IInv, UNCHANGED vars
    PROVE  IInv'
  BY DEF vars, IInv, TypeOK, Bookkeeping, EventsAreLive, Quiet, Live

LEMMA IInvNext == IInv /\ [Next]_vars => IInv'
<1> SUFFICES ASSUME IInv, [Next]_vars PROVE IInv'
  OBVIOUS
<1>1. ASSUME NEW s \in Slot, NEW f \in Fd, Listen(s, f) \/ Connect(s, f) \/ Accept(s, f)
      PROVE  IInv'
  BY <1>1, IInvRegister
<1>2. CASE Close
  BY <1>2, IInvClose
<1>3. CASE CloseUnlisted \/ StopWithItems
  BY <1>3, IInvCrash
<1>4. CASE \/ StartFails \/ EnterLoop \/ WaitFails \/ BatchDone \/ AcceptFails
           \/ RecvReturns \/ SendReturns \/ Keep \/ StopEmpty
           \/ \E ready \in [Slot -> SUBSET Event] : Wait(ready)
           \/ \E s \in Slot : Dispatch(s)
  BY <1>4, IInvOther
<1>5. CASE Ended \/ UNCHANGED vars
  BY <1>5, IInvStutter DEF Ended
<1> QED
  BY <1>1, <1>2, <1>3, <1>4, <1>5 DEF Next

THEOREM Invariance == Spec => []IInv
<1>1. Init => IInv
  BY IInvInit
<1>2. IInv /\ [Next]_vars => IInv'
  BY IInvNext
<1> QED
  BY <1>1, <1>2, PTL DEF Spec

-----------------------------------------------------------------------------
(* The variables of the loop keep their types, and the loop is handling an   *)
(* item exactly while pc says so.                                            *)
THEOREM TypeCorrect == Spec => []TypeOK
<1>1. IInv => TypeOK
  BY DEF IInv
<1> QED
  BY <1>1, Invariance, PTL

(* Unless the process has crashed, the blocks, the epoll set and the list    *)
(* agree (ss_network_item_create, ss_network_item_close and their callers):  *)
(* no item, registration or descriptor is ever leaked.                       *)
THEOREM BooksAreKept == Spec => []Bookkeeping
<1>1. IInv => Bookkeeping
  BY DEF IInv
<1> QED
  BY <1>1, Invariance, PTL

(* The loop never dereferences a freed item: every entry of the batch that   *)
(* epoll_wait returned still names one when its turn comes.                  *)
THEOREM NoEventOutlivesItsItem == Spec => []EventsAreLive
<1>1. IInv => EventsAreLive
  BY DEF IInv
<1> QED
  BY <1>1, Invariance, PTL

(* A block that is named by an entry of the batch is not given to another    *)
(* item before that entry is handled.                                        *)
THEOREM EventsStayWithTheirItem == Spec => EventsKeepTheirItem
<1> DEFINE Keeps == \A s \in Slot : batch'[s] # {} /\ pc # "wait"
                                    => fd'[s] = fd[s] /\ type'[s] = type[s]
<1>1. IInv /\ [Next]_vars => [Keeps]_vars
  <2> SUFFICES ASSUME IInv, Next, NEW s \in Slot, batch'[s] # {}, pc # "wait"
               PROVE  fd'[s] = fd[s] /\ type'[s] = type[s]
    BY DEF Keeps
  <2>1. ASSUME NEW u \in Slot, NEW f \in Fd, Listen(u, f) \/ Connect(u, f) \/ Accept(u, f)
        PROVE  fd'[s] = fd[s] /\ type'[s] = type[s]
    <3>1. pc # "crashed" /\ batch' = batch /\ Books
      BY <2>1, BooksOfIInv DEF Listen, Connect, Accept
    <3>2. s \in Live
      BY <3>1 DEF IInv, EventsAreLive
    <3>3. \A v \in Live : u # v /\ type'[v] = type[v] /\ fd'[v] = fd[v]
      BY <2>1, <3>1, RegisterKeepsBooks DEF Listen, Connect, Accept
    <3> QED
      BY <3>2, <3>3
  <2>2. CASE Close
    <3>1. pc = "check" /\ batch' = batch /\ Books /\ cur \in Live
      BY <2>2, BooksOfIInv DEF Close, IInv, EventsAreLive
    <3>2. s # cur
      BY <3>1, NoneAssumption DEF IInv, Quiet, Live
    <3> QED
      BY <2>2, <3>1, <3>2, CloseKeepsBooks DEF Close
  <2>3. CASE StopWithItems
    BY <2>3 DEF StopWithItems, IInv, Quiet
  <2>4. CASE CloseUnlisted
    BY <2>4 DEF CloseUnlisted
  <2>5. CASE Ended
    BY <2>5 DEF Ended, vars
  <2>6. CASE \/ StartFails \/ EnterLoop \/ WaitFails \/ BatchDone \/ AcceptFails
             \/ RecvReturns \/ SendReturns \/ Keep \/ StopEmpty
             \/ \E ready \in [Slot -> SUBSET Event] : Wait(ready)
             \/ \E u \in Slot : Dispatch(u)
    BY <2>6 DEF StartFails, EnterLoop, WaitFails, BatchDone, AcceptFails, RecvReturns,
                SendReturns, Keep, StopEmpty, Wait, Dispatch, items
  <2> QED
    BY <2>1, <2>2, <2>3, <2>4, <2>5, <2>6 DEF Next
<1> QED
  BY <1>1, Invariance, PTL DEF Spec, EventsKeepTheirItem, Keeps
=============================================================================
