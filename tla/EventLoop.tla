------------------------------ MODULE EventLoop ------------------------------
(***************************************************************************)
(* The event loop that every part of the program runs in,                  *)
(* network/ss_network.c, from main()'s preparation to ss_network_stop.     *)
(*                                                                         *)
(* An item (ss_network_item_t) is a listening socket or a connection.  It  *)
(* lives in a block of memory, a member of Slot, that malloc may hand out  *)
(* again once the item is deleted; the kernel keeps the address of that    *)
(* block with the item's descriptor and gives it back with each event.     *)
(* The handlers of an item are those of the server it belongs to: here     *)
(* they run without touching the loop's own state and answer check_status  *)
(* as they like.  Socks5Server puts the real ones in their place.          *)
(***************************************************************************)
EXTENDS Integers, FiniteSets

CONSTANTS
    Slot,    \* the blocks of memory items can be allocated in
    Fd,      \* the descriptors the process may have open
    None     \* no item, no descriptor

ASSUME NoneAssumption == None \notin Slot /\ None \notin Fd

VARIABLES
    pc,       \* where the program is
    type,     \* nitem->type of the item in each block; "free" for a block without one
    fd,       \* the descriptor of the item in each block
    epoll,    \* the block registered in the epoll set with each descriptor
    listed,   \* the items in network_item_list; the others have a null lnode
    batch,    \* the events epoll_wait returned that are still to be handled
    cur,      \* the item whose event is being handled
    events    \* the events reported for it

vars == <<pc, type, fd, epoll, listed, batch, cur, events>>
items == <<type, fd, epoll, listed>>

(* HUP stands for EPOLLERR and EPOLLRDHUP, which are always tested together. *)
Event == {"IN", "OUT", "HUP"}

NoEvents == [s \in Slot |-> {}]

Live == {s \in Slot : type[s] # "free"}

FreeFd == {f \in Fd : epoll[f] = None}

-----------------------------------------------------------------------------
Init ==
    /\ pc = "start"
    /\ type = [s \in Slot |-> "free"]
    /\ fd = [s \in Slot |-> None]
    /\ epoll = [f \in Fd |-> None]
    /\ listed = {}
    /\ batch = NoEvents
    /\ cur = None
    /\ events = {}

(* An item of type t is allocated in block s and registered with descriptor f. *)
Register(s, f, t) ==
    /\ s \notin Live
    /\ f \in FreeFd
    /\ type' = [type EXCEPT ![s] = t]
    /\ fd' = [fd EXCEPT ![s] = f]
    /\ epoll' = [epoll EXCEPT ![f] = s]

-----------------------------------------------------------------------------
(* Before the loop: main() starts the servers and the services they use.  An *)
(* attempt that fails undoes itself, and main() returns if it was a server's. *)

Listen(s, f) ==
    /\ pc = "start"
    /\ Register(s, f, "listening")
    /\ UNCHANGED <<pc, listed, batch, cur, events>>

(* The connection is registered; unlike an accepted one it is not listed. *)
Connect(s, f) ==
    /\ pc = "start"
    /\ Register(s, f, "connection")
    /\ UNCHANGED <<pc, listed, batch, cur, events>>

StartFails ==
    /\ pc = "start"
    /\ pc' = "exited"
    /\ UNCHANGED <<items, batch, cur, events>>

EnterLoop ==
    /\ pc = "start"
    /\ pc' = "wait"
    /\ UNCHANGED <<items, batch, cur, events>>

-----------------------------------------------------------------------------
(* The loop. *)

(* epoll_wait: at most one entry for each registered descriptor. *)
Wait(ready) ==
    /\ pc = "wait"
    /\ \A s \in Slot : ready[s] # {} => \E f \in Fd : epoll[f] = s
    /\ batch' = ready
    /\ pc' = "dispatch"
    /\ UNCHANGED <<items, cur, events>>

WaitFails ==
    /\ pc = "wait"
    /\ pc' = "stop"
    /\ UNCHANGED <<items, batch, cur, events>>

Dispatch(s) ==
    /\ pc = "dispatch"
    /\ batch[s] # {}
    /\ cur' = s
    /\ events' = batch[s]
    /\ batch' = [batch EXCEPT ![s] = {}]
    /\ pc' = IF type[s] = "listening" THEN "accept" ELSE "recv"
    /\ UNCHANGED items

(* The batch is handled and ss_callback_poll, whose queue is always empty,  *)
(* has returned.                                                            *)
BatchDone ==
    /\ pc = "dispatch"
    /\ batch = NoEvents
    /\ pc' = "wait"
    /\ UNCHANGED <<items, batch, cur, events>>

(* Mutant: the item is still being handled when the next event is taken.    *)
EndHandlingKeepsItem ==
    /\ pc' = "dispatch"
    /\ events' = {}
    /\ UNCHANGED cur

EndHandling ==
    /\ pc' = "dispatch"
    /\ cur' = None
    /\ events' = {}

(* ss_network_handle_listening *)
Accept(s, f) ==
    /\ pc = "accept"
    /\ Register(s, f, "connection")
    /\ listed' = listed \cup {s}
    /\ EndHandling
    /\ UNCHANGED batch

(* accept() fails, the accept handler rejects the connection or epoll_ctl   *)
(* fails: what was opened and allocated is closed and freed again.          *)
AcceptFails ==
    /\ pc = "accept"
    /\ EndHandling
    /\ UNCHANGED <<items, batch>>

(* Mutant: a handler closes its own connection, as nothing in ss_network.h *)
(* forbids, and the loop goes on with the item.                             *)
RecvReturnsClosed ==
    /\ pc = "recv"
    /\ epoll' = [epoll EXCEPT ![fd[cur]] = None]
    /\ listed' = listed \ {cur}
    /\ type' = [type EXCEPT ![cur] = "free"]
    /\ fd' = [fd EXCEPT ![cur] = None]
    /\ pc' = "send"
    /\ UNCHANGED <<batch, cur, events>>

(* ss_network_handle_connection: recv_handler, send_handler, then the test. *)
RecvReturns ==
    /\ pc = "recv"
    /\ pc' = "send"
    /\ UNCHANGED <<items, batch, cur, events>>

SendReturns ==
    /\ pc = "send"
    /\ pc' = "check"
    /\ UNCHANGED <<items, batch, cur, events>>

Keep ==
    /\ pc = "check"
    /\ "HUP" \notin events
    /\ EndHandling
    /\ UNCHANGED <<items, batch>>

(* Mutant: the descriptor of the item is left in the epoll set.             *)
CloseItemStillWatched(s) ==
    /\ listed' = listed \ {s}
    /\ type' = [type EXCEPT ![s] = "free"]
    /\ fd' = [fd EXCEPT ![s] = None]
    /\ UNCHANGED epoll

(* ss_network_item_close: out of the epoll set, close, unlink, delete. *)
CloseItem(s) ==
    /\ epoll' = [epoll EXCEPT ![fd[s]] = None]
    /\ listed' = listed \ {s}
    /\ type' = [type EXCEPT ![s] = "free"]
    /\ fd' = [fd EXCEPT ![s] = None]

(* Mutant: the connection taken off the list is not the one being handled. *)
CloseAnother ==
    /\ pc = "check"
    /\ \E s \in listed : CloseItem(s)
    /\ EndHandling
    /\ UNCHANGED batch

Close ==
    /\ pc = "check"
    /\ cur \in listed
    /\ CloseItem(cur)
    /\ EndHandling
    /\ UNCHANGED batch

(* The lnode of an item made by ss_network_connect is null, and             *)
(* ss_linked_list_remove follows it.                                        *)
CloseUnlisted ==
    /\ pc = "check"
    /\ cur \notin listed
    /\ epoll' = [epoll EXCEPT ![fd[cur]] = None]
    /\ pc' = "crashed"
    /\ UNCHANGED <<type, fd, listed, batch, cur, events>>

-----------------------------------------------------------------------------
(* ss_network_stop.  Closing the first item of the list frees the list node *)
(* the walk stands on, whose next was set to null: with any item in the     *)
(* list the next turn follows that null pointer.                            *)
StopEmpty ==
    /\ pc = "stop"
    /\ listed = {}
    /\ pc' = "exited"
    /\ UNCHANGED <<items, batch, cur, events>>

StopWithItems ==
    /\ pc = "stop"
    /\ \E s \in listed : CloseItem(s)
    /\ pc' = "crashed"
    /\ UNCHANGED <<batch, cur, events>>

Ended ==
    /\ pc \in {"exited", "crashed"}
    /\ UNCHANGED vars

Next ==
    \/ \E s \in Slot, f \in Fd : Listen(s, f) \/ Connect(s, f) \/ Accept(s, f)
    \/ \E ready \in [Slot -> SUBSET Event] : Wait(ready)
    \/ \E s \in Slot : Dispatch(s)
    \/ StartFails \/ EnterLoop \/ WaitFails \/ BatchDone \/ AcceptFails
    \/ RecvReturns \/ SendReturns \/ Keep \/ Close \/ CloseUnlisted
    \/ StopEmpty \/ StopWithItems \/ Ended

Spec == Init /\ [][Next]_vars

-----------------------------------------------------------------------------
(* The types of the variables. *)
TypeOK ==
    /\ pc \in {"start", "wait", "dispatch", "accept", "recv", "send", "check",
               "stop", "exited", "crashed"}
    /\ type \in [Slot -> {"free", "connection", "listening"}]
    /\ fd \in [Slot -> Fd \cup {None}]
    /\ epoll \in [Fd -> Slot \cup {None}]
    /\ listed \subseteq Slot
    /\ batch \in [Slot -> SUBSET Event]
    /\ cur \in Slot \cup {None}
    /\ events \in SUBSET Event
    /\ pc \in {"accept", "recv", "send", "check"} => cur # None
    /\ pc \in {"start", "wait", "dispatch", "stop"} => cur = None

(* The program, the kernel and the list agree: every item in memory is in    *)
(* the epoll set with its own descriptor and no other one is, so nothing is  *)
(* leaked and no event can name freed memory; the list holds connections.    *)
Bookkeeping ==
    pc # "crashed" =>
      /\ \A s \in Live : fd[s] \in Fd /\ epoll[fd[s]] = s
      /\ \A f \in Fd : epoll[f] # None => epoll[f] \in Live /\ fd[epoll[f]] = f
      /\ \A s \in listed : type[s] = "connection"

(* The events of a batch that are still to be handled, and the one being    *)
(* handled, name items that exist, though items come and go while the batch *)
(* is worked off.                                                           *)
EventsAreLive ==
    pc # "crashed" =>
      /\ \A s \in Slot : batch[s] # {} => s \in Live
      /\ pc \in {"recv", "send", "check"} => cur \in Live /\ type[cur] = "connection"

(* Nor is the block of such an item given to a new one: an event reported   *)
(* for one connection is never delivered to the next in the same memory.    *)
EventsKeepTheirItem ==
    [][\A s \in Slot : batch'[s] # {} /\ pc # "wait" => fd'[s] = fd[s] /\ type'[s] = type[s]]_vars
=============================================================================
