------------------------------ MODULE TestServer ------------------------------
(***************************************************************************)
(* The test server: server/test_server.c and the commands under testing/.  *)
(* It reads lines from its clients, each one a command; dns asks the DNS   *)
(* service, and its result is sent when a later event of any session polls *)
(* for it.  Of the service, the names that a look-up would find an address *)
(* for appear.                                                             *)
(*                                                                         *)
(* EventLoop shows how events find their connection; here an event is      *)
(* taken, and the handlers of its connection run one after the other.  A   *)
(* text is a sequence of letters, cut by the network where it pleases.     *)
(***************************************************************************)
EXTENDS Integers, Sequences, FiniteSets, FiniteSetsExt, SequencesExt

CONSTANTS
    Name,          \* what may be given for domain names
    TooLong,       \* those that are longer than a domain name may be
    None,          \* no name, no client
    Client,        \* the clients; each connects once
    Typist,        \* those whose letters come one by one, not in whole lines
    Letter,        \* what lines are made of
    EOL,           \* the end of a line
    Command,       \* what the texts that are commands mean
    Script,        \* the sequences of lines a client may send
    FETCH_TIMEOUT  \* 5 seconds

ASSUME NoneAssumption == None \notin Name \cup Client
ASSUME TooLongAssumption == TooLong \subseteq Name
ASSUME ClientAssumption == IsFiniteSet(Client)
ASSUME TypistAssumption == Typist \subseteq Client
ASSUME TimeAssumption == FETCH_TIMEOUT \in Nat

(* An end of line ends a line, and an empty line is no command.              *)
ASSUME LineAssumption == EOL \notin Letter /\ Script \subseteq Seq(Seq(Letter))
ASSUME CommandAssumption == << >> \notin DOMAIN Command

(* The letters of the first k of these lines. *)
LettersUpTo(lines, k) ==
    LET upTo[i \in 0..Len(lines)] ==
          IF i = 0 THEN << >> ELSE upTo[i - 1] \o Append(lines[i], EOL)
    IN  upTo[k]

LettersOf(lines) == LettersUpTo(lines, Len(lines))

VARIABLES
    known,                \* the names that ss_dns_get finds an address for
    current,              \* ctx->current: the name that is looked up
    waited,               \* the seconds from ctx->start_fetch_time, when there is one
    session,              \* the client_context_t of each client's connection
    pc, cur, events,      \* the handler that runs, for whom, and the events it has
    inq,                  \* the letters come from each client and not read yet
    told,                 \* the replies sent to each client
    script, sent,         \* what each client has to say, and how much of it is sent
    client,               \* the client's end of the connection
    begun                 \* history: the lookups that were begun

lookup == <<current, waited, begun>>
loopVars == <<pc, cur, events>>
clientVars == <<script, sent, client>>
vars == <<known, lookup, session, loopVars, inq, told, clientVars>>

(* context->dead needs no field: it is set when action is QUIT, for good.   *)
NoSession == [buffer |-> << >>, response |-> << >>, action |-> "closed"]
NewSession == [NoSession EXCEPT !.action = "none"]

S == session[cur]

(* What malloc may leave in ctx->current, and a start_fetch_time to come.   *)
Garbage == "garbage"
Never == -1

ASSUME GarbageAssumption == Garbage \notin Name

Init ==
    /\ known = {}
    /\ \/ current = None /\ waited = 0
       \/ current = Garbage /\ waited \in {FETCH_TIMEOUT, Never}
    /\ session = [c \in Client |-> NoSession]
    /\ pc = "loop" /\ cur = None /\ events = {}
    /\ inq = [c \in Client |-> << >>]
    /\ told = [c \in Client |-> << >>]
    /\ script \in [Client -> Script]
    /\ sent = [c \in Client |-> 0]
    /\ client = [c \in Client |-> "new"]
    /\ begun = 0

-----------------------------------------------------------------------------
(* The clients, the name server and the time.  They move between events:    *)
(* what happens while a handler runs might as well happen after it.         *)

Letters(c) == LettersOf(script[c])

(* accept_handler, when the loop has accepted the connection. *)
Connect(c) ==
    /\ pc = "loop"
    /\ client[c] = "new"
    /\ client' = [client EXCEPT ![c] = "open"]
    /\ session' = [session EXCEPT ![c] = NewSession]
    /\ UNCHANGED <<known, lookup, loopVars, inq, told, script, sent>>

Arrive(c, n) ==
    /\ pc = "loop"
    /\ client[c] = "open"
    /\ n \in (sent[c] + 1)..Len(Letters(c))
    /\ c \in Typist \/ Letters(c)[n] = EOL
    /\ sent' = [sent EXCEPT ![c] = n]
    /\ inq' = [inq EXCEPT ![c] = @ \o SubSeq(Letters(c), sent[c] + 1, n)]
    /\ UNCHANGED <<known, lookup, session, loopVars, told, script, client>>

Shut(c) ==
    /\ pc = "loop"
    /\ client[c] = "open"
    /\ client' = [client EXCEPT ![c] = "shut"]
    /\ UNCHANGED <<known, lookup, session, loopVars, inq, told, script, sent>>

StoreChanges ==
    /\ pc = "loop"
    /\ known' \in SUBSET (Name \ TooLong) \ {known}
    /\ UNCHANGED <<lookup, session, loopVars, inq, told, clientVars>>

Waiting == current \in Name

Tick ==
    /\ pc = "loop"
    /\ Waiting
    /\ waited \in 0..(FETCH_TIMEOUT - 1)
    /\ waited' = waited + 1
    /\ UNCHANGED <<known, current, begun, session, loopVars, inq, told, clientVars>>

-----------------------------------------------------------------------------
(* ss_network_handle_connection for an event of client c. *)

Open(c) == session[c] # NoSession

(* What may be reported of its connection. *)
Ready(c) ==
    {"OUT"} \cup (IF inq[c] # << >> \/ client[c] = "shut" THEN {"IN"} ELSE {})
            \cup (IF client[c] = "shut" THEN {"HUP"} ELSE {})

(* The events were reported when the batch began, so some may be missing;   *)
(* the end of the stream is always reported as both IN and HUP.             *)
Take(c, reported) ==
    /\ pc = "loop"
    /\ Open(c)
    /\ reported \subseteq Ready(c)
    /\ "HUP" \in reported => "IN" \in reported
    /\ reported \cap {"IN", "HUP"} = {"IN"} => inq[c] # << >>
    /\ pc' = IF "IN" \in reported THEN "recv" ELSE "send"
    /\ cur' = c /\ events' = reported
    /\ UNCHANGED <<known, lookup, session, inq, told, clientVars>>

(* client_receive_function has read what has come, and leaves the session   *)
(* as s.                                                                    *)
Receives(s) ==
    /\ pc = "recv"
    /\ session' = [session EXCEPT ![cur] = s]
    /\ inq' = [inq EXCEPT ![cur] = << >>]
    /\ pc' = "send"
    /\ UNCHANGED <<cur, events, told, clientVars>>

Held == S.buffer \o inq[cur]

QuitIsLeft ==
    /\ Receives([S EXCEPT !.buffer = Held])
    /\ S.action = "quit"
    /\ UNCHANGED <<known, lookup>>

(* The last reply is not sent yet: no command is looked for.                *)
ReplyIsPending ==
    /\ Receives([S EXCEPT !.buffer = Held])
    /\ S.action # "quit"
    /\ S.response # << >>
    /\ UNCHANGED <<known, lookup>>

(* Mutant: a command is looked for in any case. *)
LooksAlways == pc = "recv" /\ S.action # "quit"

LooksForCommand == pc = "recv" /\ S.action # "quit" /\ S.response = << >>

(* What is held without the empty lines it begins with. *)
Stripped ==
    LET i == SelectInSeq(Held, LAMBDA l : l # EOL)
    IN  IF i = 0 THEN << >> ELSE SubSeq(Held, i, Len(Held))

EndOfLine == SelectInSeq(Stripped, LAMBDA l : l = EOL)

(* The command is everything held if there is no end of line; then it stays *)
(* in the buffer.                                                           *)
Text == IF EndOfLine = 0 THEN Stripped ELSE SubSeq(Stripped, 1, EndOfLine - 1)
Rest == IF EndOfLine = 0 THEN Stripped ELSE SubSeq(Stripped, EndOfLine + 1, Len(Stripped))

NoCommand ==
    /\ LooksForCommand
    /\ Stripped = << >>
    /\ Receives([S EXCEPT !.buffer = << >>])
    /\ UNCHANGED <<known, lookup>>

Meaning(text) ==
    IF text \in DOMAIN Command THEN Command[text] ELSE [do |-> "undefined", name |-> None]

Reply(what, about) == [is |-> what, about |-> about]

(* The session is reset and the command runs: ss_testing_command. *)
Runs(do, action, replies) ==
    /\ LooksForCommand
    /\ Stripped # << >>
    /\ Meaning(Text).do = do
    /\ Receives([S EXCEPT !.buffer = Rest, !.action = action, !.response = replies])

(* A line of spaces is no command. *)
Blank ==
    /\ Runs("blank", "none", << >>)
    /\ UNCHANGED <<known, lookup>>

EchoOrUndefined ==
    /\ \E do \in {"echo", "undefined"} : Runs(do, "none", <<Reply(do, Text)>>)
    /\ UNCHANGED <<known, lookup>>

Quit ==
    /\ Runs("quit", "quit", << >>)
    /\ UNCHANGED <<known, lookup>>

-----------------------------------------------------------------------------
(* The dns command. *)

DnsBusy ==
    /\ Runs("dns", "none", <<Reply("busy", None)>>)
    /\ current # None
    /\ UNCHANGED <<known, lookup>>

Dn == Meaning(Text).name

(* The service knows the name.  ss_dns_fetch does not set the address that  *)
(* the reply gives.                                                         *)
DnsFound ==
    /\ Runs("dns", "none", <<Reply("found", Dn)>>)
    /\ current = None
    /\ Dn \in known
    /\ UNCHANGED <<known, lookup>>

(* Mutant: start_fetch_time is left as malloc made it.                      *)
DnsFetchingUntimed ==
    /\ Runs("dns", "none", <<Reply("fetching", Dn)>>)
    /\ current = None
    /\ Dn \in Name \ known
    /\ current' = Dn
    /\ waited' \in {FETCH_TIMEOUT, Never}
    /\ begun' = begun + 1
    /\ UNCHANGED known

(* The service does not know the name yet; one lookup at a time is waited   *)
(* for.  The unset entry of ss_dns_fetch may refuse a request before its    *)
(* name is found too long, so any name may be waited for.                   *)
DnsFetching ==
    /\ Runs("dns", "none", <<Reply("fetching", Dn)>>)
    /\ current = None
    /\ Dn \in Name \ known
    /\ current' = Dn
    /\ waited' = 0
    /\ begun' = begun + 1
    /\ UNCHANGED known

(* A name that is too long. *)
DnsError ==
    /\ Runs("dns", "none", <<Reply("error", Dn)>>)
    /\ current = None
    /\ Dn \in TooLong
    /\ UNCHANGED <<known, lookup>>

(* No name given, or ss_dns_fetch follows its unset entry. *)
DnsCrashes ==
    /\ LooksForCommand
    /\ Stripped # << >>
    /\ Meaning(Text).do = "dns"
    /\ current = None
    /\ Dn \notin known
    /\ pc' = "crashed"
    /\ UNCHANGED <<known, lookup, session, cur, events, inq, told, clientVars>>

-----------------------------------------------------------------------------
(* client_send_function: ss_testing_poll, which only the dns command        *)
(* implements, and then the response.                                       *)

(* Mutant: a client that has quit is let go of with replies unsent. *)
QuitIsDone(response) == S.action = "quit"

(* check_status: the client has quit, and all replies are sent.             *)
IsDone(response) == S.action = "quit" /\ response = << >>

(* The handlers have run and left this to send.                             *)
EndHandling(response) ==
    /\ IF "HUP" \in events \/ IsDone(response)
       THEN /\ session' = [session EXCEPT ![cur] = NoSession]
            /\ client' = [client EXCEPT ![cur] = IF @ = "open" THEN "dismissed" ELSE @]
       ELSE /\ session' = [session EXCEPT ![cur].response = response]
            /\ UNCHANGED client
    /\ pc' = "loop" /\ cur' = None /\ events' = {}
    /\ UNCHANGED <<inq, script, sent>>

NoRoom ==
    /\ pc = "send"
    /\ "OUT" \notin events
    /\ EndHandling(S.response)
    /\ UNCHANGED <<known, lookup, told>>

(* The poll leaves these replies, and some of them go out.                  *)
Sends(replies) ==
    /\ pc = "send"
    /\ "OUT" \in events
    /\ \E n \in 0..Len(replies) :
         /\ told' = [told EXCEPT ![cur] = @ \o SubSeq(replies, 1, n)]
         /\ EndHandling(SubSeq(replies, n + 1, Len(replies)))

PollIdle ==
    /\ Sends(S.response)
    /\ current = None
    /\ UNCHANGED <<known, lookup>>

PollWaits ==
    /\ Sends(S.response)
    /\ current \notin known \cup {None}
    /\ waited < FETCH_TIMEOUT
    /\ UNCHANGED <<known, lookup>>

(* Mutant: the lookup is still waited for after its result. *)
ConcludesKeepingCurrent(what) ==
    /\ Sends(Append(S.response, Reply(what, current)))
    /\ UNCHANGED <<known, lookup>>

(* The result is written to the session that polls.  It may not fit behind  *)
(* replies that are not sent yet; nothing looks at that.                    *)
Concludes(what) ==
    /\ \/ Sends(Append(S.response, Reply(what, current)))
       \/ Sends(S.response) /\ S.response # << >>
    /\ current' = None
    /\ waited' = 0
    /\ UNCHANGED <<known, begun>>

PollResolved ==
    /\ Concludes("resolved")
    /\ current \in known

PollTimesOut ==
    /\ Concludes("timeout")
    /\ current \notin known \cup {None}
    /\ waited >= FETCH_TIMEOUT

-----------------------------------------------------------------------------
Handlers ==
    \/ QuitIsLeft \/ ReplyIsPending \/ NoCommand
    \/ Blank \/ EchoOrUndefined \/ Quit
    \/ DnsBusy \/ DnsFound \/ DnsFetching \/ DnsError \/ DnsCrashes
    \/ NoRoom \/ PollIdle \/ PollWaits \/ PollResolved \/ PollTimesOut

Ended == pc = "crashed" /\ UNCHANGED vars

Next ==
    \/ \E c \in Client :
         \/ Connect(c) \/ Shut(c)
         \/ \E n \in 1..Len(Letters(c)) : Arrive(c, n)
         \/ \E reported \in SUBSET {"IN", "OUT", "HUP"} \ {{}} : Take(c, reported)
    \/ StoreChanges \/ Tick \/ Handlers \/ Ended

Spec == Init /\ [][Next]_vars

(* Time passes, handlers return, and each connection's events are reported   *)
(* and handled again and again, with room in its socket time and again.      *)
Fairness ==
    /\ SF_vars(Tick)
    /\ WF_vars(Handlers)
    /\ \A c \in Client : SF_vars(Take(c, Ready(c)))

FairSpec == Spec /\ Fairness

-----------------------------------------------------------------------------
(* The types of the variables; the handlers run for a connection that is     *)
(* there.                                                                    *)
TypeOK ==
    /\ current \in Name \cup {None, Garbage}
    /\ waited \in Never..FETCH_TIMEOUT
    /\ Waiting => waited # Never
    /\ \A c \in Client :
         /\ session[c].action \in {"none", "quit", "closed"}
         /\ sent[c] \in 0..Len(Letters(c))
         /\ client[c] = "open" => Open(c)
         /\ client[c] \in {"new", "dismissed"} => session[c] = NoSession
    /\ pc \in {"loop", "recv", "send", "crashed"}
    /\ pc = "loop" <=> cur = None
    /\ cur # None => Open(cur)
    /\ events \subseteq {"IN", "OUT", "HUP"}

Replies(c) == told[c] \o session[c].response

IsConclusion(r) == r.is \in {"resolved", "timeout"}

Conclusions(c) ==
    Cardinality({i \in DOMAIN Replies(c) : IsConclusion(Replies(c)[i]) /\ Replies(c)[i].about \in Name})

(* However many sessions poll for it, a lookup is concluded once, and the    *)
(* next one only begins after that.                                          *)
EachLookupIsConcludedOnce ==
    SumFunction([c \in Client |-> Conclusions(c)]) + (IF Waiting THEN 1 ELSE 0) <= begun

(* The first k lines, without those that are no commands.                    *)
CommandsUpTo(lines, k) ==
    LET upTo[i \in 0..Len(lines)] ==
          IF i = 0 THEN << >>
          ELSE IF lines[i] = << >> \/ Meaning(lines[i]).do = "blank" THEN upTo[i - 1]
          ELSE Append(upTo[i - 1], lines[i])
    IN  upTo[k]

(* How many of the lines are answered: those before the one that ends the    *)
(* session.                                                                  *)
LinesToAnswer(lines) ==
    LET quits == {i \in DOMAIN lines : Meaning(lines[i]).do = "quit"}
    IN  IF quits = {} THEN Len(lines) ELSE Min(quits) - 1

(* The commands of c up to the one that ends its session. *)
Answerable(c) == CommandsUpTo(script[c], LinesToAnswer(script[c]))

Answers(r, text) ==
    LET command == Meaning(text)
    IN  IF command.do = "dns"
        THEN r.is = "busy" \/ (r.is \in {"found", "fetching", "error"} /\ r.about = command.name)
        ELSE r = Reply(command.do, text)

(* The first k of these replies, without the conclusions of look-ups.        *)
OwnUpTo(replies, k) ==
    LET upTo[i \in 0..Len(replies)] ==
          IF i = 0 THEN << >>
          ELSE IF IsConclusion(replies[i]) THEN upTo[i - 1] ELSE Append(upTo[i - 1], replies[i])
    IN  upTo[k]

Own(replies) == OwnUpTo(replies, Len(replies))

(* A client whose lines come whole gets one reply to each, in their order,   *)
(* and the replies go with their lines: whatever is still unread, unsent or  *)
(* polled for, and whatever the other clients do.                            *)
RepliesMatchLines ==
    \A c \in Client \ Typist :
        /\ Len(Own(Replies(c))) <= Len(Answerable(c))
        /\ \A i \in DOMAIN Own(Replies(c)) : Answers(Own(Replies(c))[i], Answerable(c)[i])

(* When it is dismissed, for having quit, every line before that has had its *)
(* reply, and nothing that was written for it goes unsent, neither from      *)
(* before nor what the last poll has found.                                  *)
QuitIsAnsweredInFull ==
    [][\A c \in Client \ Typist :
          client'[c] = "dismissed" /\ client[c] # "dismissed"
            => /\ Len(Own(told'[c])) = Len(Answerable(c))
               /\ IsPrefix(Replies(c), told'[c])
               /\ Waiting /\ ~Waiting' /\ session[c].response = << >>
                    => Len(told'[c]) > Len(Replies(c))]_vars

(* A lookup does not keep others waiting for ever, lost responses or not, if *)
(* there is anyone to poll for it.                                           *)
LookupEnds == Waiting ~> ~Waiting \/ pc = "crashed" \/ \A c \in Client : ~Open(c)
=============================================================================
