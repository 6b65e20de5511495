---------------------------- MODULE Socks5Server ----------------------------
(***************************************************************************)
(* The SOCKS5 server: server/socks5_server.c and the session code under    *)
(* socks5/, running in the event loop of EventLoop, with the clients and   *)
(* the kernel's sockets as its environment.  Every step of the server that *)
(* EventLoop has is that step with the session work conjoined; the turns   *)
(* of the recv_handler's while loop are steps within the loop's "recv".    *)
(*                                                                         *)
(* Bytes are numbers.  The ring buffers of a session hold at most a hello  *)
(* and a reply and are always emptied as a whole, so they appear as the    *)
(* sequences RingBuffer shows them to be.                                  *)
(***************************************************************************)
EXTENDS Integers, Sequences, FiniteSets

CONSTANTS
    Slot, Fd, None,    \* those of EventLoop
    Client,            \* the clients; each connects at most once
    Hello,             \* the byte strings a client may send
    Configured,        \* the auth methods the configuration may name
    Resets             \* whether clients may reset their connections

ASSUME NoneAssumption == None \notin Slot /\ None \notin Fd /\ None \notin Client
ASSUME BytesAssumption == Hello \subseteq Seq(0..255) /\ Configured \subseteq 0..255
ASSUME ResetsAssumption == Resets \in BOOLEAN

VARIABLES
    \* the event loop, as in EventLoop
    pc, type, fd, epoll, listed, batch, cur, events,
    \* the server
    config,     \* config->auth_method
    session,    \* the ss_context_t of the connection in each block
    retcode,    \* recv_handler's local of that name
    \* the kernel: the server's sockets
    sock,       \* the client at the other end of each descriptor
    inq,        \* the bytes received from each client and not yet read
    reply,      \* the bytes sent to each client
    link,       \* how far each client's connection is on the server's side
    \* the clients
    hello,      \* what each client has to say
    sent,       \* how many bytes of it are sent
    client      \* the client's end of its connection

loopVars == <<pc, type, fd, epoll, listed, batch, cur, events>>
sessionVars == <<config, session, retcode>>
socketVars == <<sock, inq, reply, link>>
clientVars == <<hello, sent, client>>
vars == <<loopVars, sessionVars, socketVars, clientVars>>

Loop == INSTANCE EventLoop

MIN(x, y) == IF x < y THEN x ELSE y
MAX(x, y) == IF x < y THEN y ELSE x

VERSION == 5              \* SOCKS5_VERSION
AUTH_NONE == 0            \* SOCKS5_AUTH_NONE
AUTH_PLAIN == 2           \* SOCKS5_AUTH_PLAIN
NO_ACCEPTABLE == 255      \* SOCKS5_AUTH_NO_ACCEPTABLE

Status == {"NEGOTIATING", "NEGOTIATED", "DEAD"}
NoSession == [status |-> "none", read |-> <<>>, write |-> <<>>,
              auth_method |-> NO_ACCEPTABLE, scheme |-> NO_ACCEPTABLE]
NewSession == [NoSession EXCEPT !.status = "NEGOTIATING"]    \* scheme is auth.method

S == session[cur]               \* the session whose handlers run
C == sock[fd[cur]]              \* its client

-----------------------------------------------------------------------------
Init ==
    /\ Loop!Init
    /\ config \in Configured
    /\ session = [s \in Slot |-> NoSession]
    /\ retcode = "unset"
    /\ sock = [f \in Fd |-> None]
    /\ inq = [c \in Client |-> <<>>]
    /\ reply = [c \in Client |-> <<>>]
    /\ link = [c \in Client |-> "none"]
    /\ hello \in [Client -> Hello]
    /\ sent = [c \in Client |-> 0]
    /\ client = [c \in Client |-> "new"]

-----------------------------------------------------------------------------
(* The clients.  The stream between a client and the server is cut into     *)
(* segments anywhere.                                                       *)

Listening == \E s \in Slot : type[s] = "listening"

Dial(c) ==
    /\ client[c] = "new"
    /\ Listening
    /\ client' = [client EXCEPT ![c] = "open"]
    /\ link' = [link EXCEPT ![c] = "backlog"]
    /\ UNCHANGED <<loopVars, sessionVars, sock, inq, reply, hello, sent>>

Arrive(c, n) ==
    /\ client[c] = "open"
    /\ link[c] # "closed"
    /\ n \in 1..(Len(hello[c]) - sent[c])
    /\ sent' = [sent EXCEPT ![c] = @ + n]
    /\ inq' = [inq EXCEPT ![c] = @ \o SubSeq(hello[c], sent[c] + 1, sent[c] + n)]
    /\ UNCHANGED <<loopVars, sessionVars, sock, reply, link, hello, client>>

(* The client sends its FIN. *)
Shut(c) ==
    /\ client[c] = "open"
    /\ link[c] # "closed"
    /\ client' = [client EXCEPT ![c] = "shut"]
    /\ UNCHANGED <<loopVars, sessionVars, socketVars, hello, sent>>

(* The connection is reset; what was received before can still be read. *)
Reset(c) ==
    /\ Resets
    /\ client[c] \in {"open", "shut"}
    /\ link[c] # "closed"
    /\ client' = [client EXCEPT ![c] = "reset"]
    /\ UNCHANGED <<loopVars, sessionVars, socketVars, hello, sent>>

-----------------------------------------------------------------------------
(* socks5_start and the loop up to the handlers. *)

(* One listening socket, if the configuration can be loaded. *)
Start(s, f) ==
    /\ ~Listening
    /\ Loop!Listen(s, f)
    /\ UNCHANGED <<sessionVars, socketVars, clientVars>>

StartFails ==
    /\ ~Listening
    /\ Loop!StartFails
    /\ UNCHANGED <<sessionVars, socketVars, clientVars>>

EnterLoop ==
    /\ Listening
    /\ Loop!EnterLoop
    /\ UNCHANGED <<sessionVars, socketVars, clientVars>>

(* Mutant: EPOLLRDHUP is not asked for, only EPOLLERR. *)
ReadyWithoutRdhup(s) ==
    CASE type[s] = "listening" ->
             IF \E c \in Client : link[c] = "backlog" THEN {"IN"} ELSE {}
      [] type[s] = "connection" ->
             LET c == sock[fd[s]] IN
             {"OUT"} \cup (IF inq[c] # <<>> \/ client[c] # "open" THEN {"IN"} ELSE {})
                     \cup (IF client[c] = "reset" THEN {"HUP"} ELSE {})
      [] OTHER -> {}

(* What epoll, level-triggered, reports of the item in block s. *)
Ready(s) ==
    CASE type[s] = "listening" ->
             IF \E c \in Client : link[c] = "backlog" THEN {"IN"} ELSE {}
      [] type[s] = "connection" ->
             LET c == sock[fd[s]] IN
             {"OUT"} \cup (IF inq[c] # <<>> \/ client[c] # "open" THEN {"IN"} ELSE {})
                     \cup (IF client[c] # "open" THEN {"HUP"} ELSE {})
      [] OTHER -> {}

Poll ==
    /\ Loop!Wait([s \in Slot |-> Ready(s)])
    /\ UNCHANGED <<sessionVars, socketVars, clientVars>>

(* EINTR: a stop and continue of the process is enough. *)
PollFails ==
    /\ Loop!WaitFails
    /\ UNCHANGED <<sessionVars, socketVars, clientVars>>

Dispatch(s) ==
    /\ Loop!Dispatch(s)
    /\ UNCHANGED <<sessionVars, socketVars, clientVars>>

BatchDone ==
    /\ Loop!BatchDone
    /\ UNCHANGED <<sessionVars, socketVars, clientVars>>

-----------------------------------------------------------------------------
(* ss_network_handle_listening with the server's accept_handler. *)

Accept(s, f, c) ==
    /\ link[c] = "backlog"
    /\ Loop!Accept(s, f)
    /\ session' = [session EXCEPT ![s] = NewSession]
    /\ sock' = [sock EXCEPT ![f] = c]
    /\ link' = [link EXCEPT ![c] = "open"]
    /\ UNCHANGED <<config, retcode, inq, reply, clientVars>>

(* Mutant: a connection may be left in the backlog for no reason. *)
AcceptFailsAnyhow ==
    /\ Loop!AcceptFails
    /\ UNCHANGED <<sessionVars, socketVars, clientVars>>

(* accept() finds no free descriptor: the client stays in the backlog. *)
AcceptFails ==
    /\ Loop!FreeFd = {}
    /\ Loop!AcceptFails
    /\ UNCHANGED <<sessionVars, socketVars, clientVars>>

(* epoll_ctl refuses the new descriptor: it is closed again. *)
RegisterFails(c) ==
    /\ link[c] = "backlog"
    /\ Loop!FreeFd # {}
    /\ Loop!AcceptFails
    /\ link' = [link EXCEPT ![c] = "closed"]
    /\ UNCHANGED <<sessionVars, sock, inq, reply, clientVars>>

-----------------------------------------------------------------------------
(* recv_handler: one step for each turn of its loop. *)

(* Mutant: retcode is static. *)
HandlerReturnsStatic == Loop!RecvReturns /\ UNCHANGED retcode

(* The handler breaks out of its loop, or was not called. *)
HandlerReturns == Loop!RecvReturns /\ retcode' = "unset"

NothingToRead ==
    /\ "IN" \notin events
    /\ HandlerReturns
    /\ UNCHANGED <<config, session, socketVars, clientVars>>

Turn(status) ==
    /\ pc = "recv"
    /\ "IN" \in events
    /\ S.status = status

(* The bytes the session's ss_ring_buffer_recv calls can get at: the ones   *)
(* read by earlier turns, which stay in the buffer, and the kernel's.       *)
Available == S.read \o inq[C]

(* ss_negotiate_process asks for the version, the number of methods and the *)
(* methods, each time from the start of the buffer; the version is the only *)
(* byte read of a hello of another version.                                 *)
Wanted(bytes) ==
    IF Len(bytes) = 0 \/ bytes[1] # VERSION THEN 1
    ELSE IF Len(bytes) = 1 THEN 2
    ELSE 2 + bytes[2]

(* What is in the buffer when it has asked. *)
Held(bytes) == SubSeq(bytes, 1, MAX(Len(S.read), MIN(Wanted(bytes), Len(bytes))))

(* Mutant: the hello is only looked at when more than it has come. *)
StarvedForMore(bytes) == Len(bytes) <= Wanted(bytes)

(* One of its recvs is needed and yields nothing.  Getting some of the      *)
(* methods is enough, since the last call of ss_recv_via_buffer has a null  *)
(* dest and does not compare what it got with what it asked for.            *)
Starved(bytes) ==
    /\ Len(bytes) < Wanted(bytes)
    /\ Len(bytes) <= MAX(Len(S.read), 2)

(* Mutant: the search starts one byte early, at the number of methods. *)
OffersFromCount(bytes) ==
    /\ bytes[1] = VERSION
    /\ \E i \in 2..Len(Held(bytes)) : bytes[i] = config

(* The methods that have come contain the configured one. *)
Offers(bytes) ==
    /\ bytes[1] = VERSION
    /\ \E i \in 3..Len(Held(bytes)) : bytes[i] = config

(* The step's reading: what is held goes to the buffer, the rest stays.     *)
Reads(bytes, held) ==
    inq' = [inq EXCEPT ![C] = SubSeq(bytes, held + 1, Len(bytes))]

(* SS_PROCESS_AGAIN *)
HelloIncomplete ==
    /\ Turn("NEGOTIATING")
    /\ Starved(Available)
    /\ session' = [session EXCEPT ![cur].read = Held(Available)]
    /\ Reads(Available, Len(Held(Available)))
    /\ HandlerReturns
    /\ UNCHANGED <<config, sock, reply, link, clientVars>>

(* Mutant: the connection is closed on the spot. *)
HelloRefusedByClosing ==
    /\ Turn("NEGOTIATING")
    /\ ~Starved(Available)
    /\ ~Offers(Available)
    /\ Loop!CloseItem(cur)
    /\ pc' = "send"
    /\ session' = [session EXCEPT ![cur] = NoSession]
    /\ sock' = [sock EXCEPT ![fd[cur]] = None]
    /\ link' = [link EXCEPT ![C] = "closed"]
    /\ UNCHANGED <<config, retcode, batch, cur, events, inq, reply, clientVars>>

(* SS_PROCESS_ERROR: the client is killed, without a reply. *)
HelloRefused ==
    /\ Turn("NEGOTIATING")
    /\ ~Starved(Available)
    /\ ~Offers(Available)
    /\ session' = [session EXCEPT ![cur].read = Held(Available), ![cur].status = "DEAD"]
    /\ Reads(Available, Len(Held(Available)))
    /\ HandlerReturns
    /\ UNCHANGED <<config, sock, reply, link, clientVars>>

(* SS_PROCESS_DONE: the reply is buffered, and what was read is dropped.    *)
HelloAccepted ==
    /\ Turn("NEGOTIATING")
    /\ ~Starved(Available)
    /\ Offers(Available)
    /\ session' = [session EXCEPT ![cur] =
           [S EXCEPT !.status = "NEGOTIATED", !.read = <<>>, !.auth_method = config,
                     !.write = S.write \o <<VERSION, config>>]]
    /\ Reads(Available, Len(Held(Available)))
    /\ retcode' = "done"
    /\ UNCHANGED <<loopVars, config, sock, reply, link, clientVars>>

(* ss_auth_begin for the plain method: SS_PROCESS_DONE, with no new status. *)
AuthBegin ==
    /\ Turn("NEGOTIATED")
    /\ S.auth_method = AUTH_PLAIN
    /\ session' = [session EXCEPT ![cur].scheme = AUTH_PLAIN]
    /\ retcode' = "done"
    /\ UNCHANGED <<loopVars, config, socketVars, clientVars>>

(* Mutant: begun like the plain method, without a new status. *)
AuthNotBegunSpins ==
    /\ Turn("NEGOTIATED")
    /\ S.auth_method # AUTH_PLAIN
    /\ UNCHANGED vars

(* For any other, SOCKS5_AUTH_NONE included: SS_PROCESS_ERROR. *)
AuthRefused ==
    /\ Turn("NEGOTIATED")
    /\ S.auth_method # AUTH_PLAIN
    /\ session' = [session EXCEPT ![cur].status = "DEAD"]
    /\ HandlerReturns
    /\ UNCHANGED <<config, socketVars, clientVars>>

(* No process is for the status: retcode keeps the value it has, which in   *)
(* the first turn is whatever the stack holds.                              *)
DeadReturns ==
    /\ Turn("DEAD")
    /\ retcode = "unset"
    /\ HandlerReturns
    /\ UNCHANGED <<config, session, socketVars, clientVars>>

DeadSpins ==
    /\ Turn("DEAD")
    /\ retcode' = "done"
    /\ UNCHANGED <<loopVars, config, session, socketVars, clientVars>>

-----------------------------------------------------------------------------
(* send_handler, check_client_status and what the loop does then. *)

(* Mutant: a killed client is not written to any more. *)
SendToLiving ==
    /\ Loop!SendReturns
    /\ IF "OUT" \in events /\ client[C] # "reset" /\ S.status # "DEAD"
       THEN /\ session' = [session EXCEPT ![cur].write = <<>>]
            /\ reply' = [reply EXCEPT ![C] = @ \o S.write]
       ELSE UNCHANGED <<session, reply>>
    /\ UNCHANGED <<config, retcode, sock, inq, link, clientVars>>

(* The two bytes fit the socket's send buffer, unless the socket is reset. *)
Send ==
    /\ Loop!SendReturns
    /\ IF "OUT" \in events /\ client[C] # "reset"
       THEN /\ session' = [session EXCEPT ![cur].write = <<>>]
            /\ reply' = [reply EXCEPT ![C] = @ \o S.write]
       ELSE UNCHANGED <<session, reply>>
    /\ UNCHANGED <<config, retcode, sock, inq, link, clientVars>>

Finished ==
    \/ "HUP" \in events
    \/ S.status = "DEAD" /\ S.write = <<>>

Keep ==
    /\ Loop!Keep
    /\ ~Finished
    /\ UNCHANGED <<sessionVars, socketVars, clientVars>>

(* Mutant: the context of the connection is not released. *)
CloseLeaking ==
    /\ Loop!Close
    /\ Finished
    /\ sock' = [sock EXCEPT ![fd[cur]] = None]
    /\ link' = [link EXCEPT ![C] = "closed"]
    /\ UNCHANGED <<sessionVars, inq, reply, clientVars>>

Close ==
    /\ Loop!Close
    /\ Finished
    /\ session' = [session EXCEPT ![cur] = NoSession]
    /\ sock' = [sock EXCEPT ![fd[cur]] = None]
    /\ link' = [link EXCEPT ![C] = "closed"]
    /\ UNCHANGED <<config, retcode, inq, reply, clientVars>>

(* ss_network_stop: nothing is claimed of the sessions once it has run.     *)
Stop ==
    /\ Loop!StopEmpty \/ Loop!StopWithItems
    /\ UNCHANGED <<sessionVars, socketVars, clientVars>>

Ended ==
    /\ Loop!Ended
    /\ UNCHANGED vars

-----------------------------------------------------------------------------
ClientNext ==
    \E c \in Client :
        Dial(c) \/ Shut(c) \/ Reset(c) \/ \E n \in 1..Len(hello[c]) : Arrive(c, n)

ServerNext ==
    \/ \E s \in Slot, f \in Fd : Start(s, f) \/ \E c \in Client : Accept(s, f, c)
    \/ StartFails \/ EnterLoop \/ Poll \/ PollFails \/ BatchDone
    \/ \E s \in Slot : Dispatch(s)
    \/ AcceptFails \/ \E c \in Client : RegisterFails(c)
    \/ NothingToRead \/ HelloIncomplete \/ HelloRefused \/ HelloAccepted
    \/ AuthBegin \/ AuthRefused \/ DeadReturns \/ DeadSpins
    \/ Send \/ Keep \/ Close \/ Stop

Next == ClientNext \/ ServerNext \/ Ended

Spec == Init /\ [][Next]_vars

(* The process is scheduled; nothing is assumed of the clients.             *)
FairSpec == Spec /\ WF_vars(ServerNext)

-----------------------------------------------------------------------------
(* The types of the variables; the read buffer never holds more than one     *)
(* hello, and the handler's local is dead while it does not run.             *)
TypeOK ==
    /\ Loop!TypeOK
    /\ config \in Configured
    /\ session \in [Slot -> [status : Status \cup {"none"}, read : Seq(0..255),
                             write : Seq(0..255), auth_method : 0..255, scheme : 0..255]]
    /\ \A s \in Slot : Len(session[s].read) <= 2 + 255
    /\ retcode \in {"unset", "done"}
    /\ pc # "recv" => retcode = "unset"
    /\ sock \in [Fd -> Client \cup {None}]
    /\ inq \in [Client -> Seq(0..255)]
    /\ reply \in [Client -> Seq(0..255)]
    /\ link \in [Client -> {"none", "backlog", "open", "closed"}]
    /\ hello \in [Client -> Hello]
    /\ \A c \in Client : sent[c] \in 0..Len(hello[c])
    /\ client \in [Client -> {"new", "open", "shut", "reset"}]

(* Sessions, items, descriptors and clients stay matched through every       *)
(* accept and close: each connection in memory is listed and has a session,  *)
(* its descriptor leads to a client whose connection is open, and no client  *)
(* is on two descriptors or on none while its connection is open.            *)
SessionsMatchItems ==
    pc # "crashed" =>
      /\ \A s \in Slot : session[s] # NoSession <=> type[s] = "connection"
      /\ listed = {s \in Slot : type[s] = "connection"}
      /\ \A f \in Fd : sock[f] # None <=> epoll[f] \in listed
      /\ \A c \in Client : link[c] = "open" <=> \E f \in Fd : sock[f] = c
      /\ \A f, g \in Fd : sock[f] = sock[g] /\ sock[f] # None => f = g

(* The methods in the list of a client's hello. *)
Offered(c) ==
    {hello[c][i] : i \in {j \in 3..Len(hello[c]) : j <= 2 + hello[c][2]}}

(* Whatever the segmentation, a client gets at most one hello reply, naming  *)
(* the configured method, and only when it offered that method.              *)
ReplyIsTheAgreement ==
    \A c \in Client :
        \/ reply[c] = <<>>
        \/ reply[c] = <<VERSION, config>> /\ config \in Offered(c)

(* A server that has agreed on a method does not close the connection of a   *)
(* client that can still read before the reply has gone out, though it kills *)
(* the session right after buffering it (check_client_status keeps a dead    *)
(* client while its write buffer is not empty).                              *)
NoReplyLost ==
    [][\A s \in listed :
          LET c == sock[fd[s]] IN
          link'[c] = "closed" /\ client[c] # "reset"
          /\ session[s].auth_method # NO_ACCEPTABLE
            => reply[c] = <<VERSION, session[s].auth_method>>]_vars

(* The server runs in the event loop as the loop's own module says: no       *)
(* handler adds, closes or skips anything behind its back.                   *)
ImplementsEventLoop == Loop!Spec

-----------------------------------------------------------------------------
Over == pc \in {"exited", "crashed"}

(* The loop comes back to epoll_wait: no handler keeps it for ever. *)
LoopKeepsRunning == []<>(pc = "wait" \/ Over)

(* A client that closes its end is let go of, whatever it had sent.          *)
ShutIsClosed ==
    \A c \in Client : client[c] = "shut" /\ link[c] = "open" ~> link[c] = "closed" \/ Over

(* A client in the backlog is accepted if descriptors keep becoming free.    *)
BacklogIsAccepted ==
    []<>(Loop!FreeFd # {} \/ Over)
      => \A c \in Client : link[c] = "backlog" ~> link[c] # "backlog" \/ Over

(* A client whose hello has come in full is not left waiting: its connection *)
(* is closed, with or without a reply, since no request is served yet.       *)
HelloIsSettled ==
    \A c \in Client :
        LET come == SubSeq(hello[c], 1, sent[c]) IN
        link[c] = "open" /\ Len(come) >= Wanted(come) ~> link[c] = "closed" \/ Over

-----------------------------------------------------------------------------
(* Claims of the comments in recv_handler that the code does not keep.       *)

(* "this process is done. continue to try a next process": when the handler  *)
(* continues, the session has moved on to a status with another process.     *)
DoneMovesOn ==
    [][\A s \in Slot :
          pc = "recv" /\ pc' = "recv" /\ session'[s] # session[s]
            => session'[s].status # session[s].status]_vars

(* "this process need more data. break to return to main loop and wait for   *)
(* more data to come": a client is not killed for a hello of which only a    *)
(* part has come.                                                            *)
PartialHelloIsNotFatal ==
    [][\A s \in Slot :
          session[s].status = "NEGOTIATING" /\ session'[s].status = "DEAD"
            => Len(session'[s].read) >= Wanted(session'[s].read)]_vars
=============================================================================
