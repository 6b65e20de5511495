---------------------------- MODULE TestServerProofs ----------------------------
(***************************************************************************)
(* The types of the test server for any clients, names, commands and       *)
(* scripts, and any timeout: its handlers only run for a connection that   *)
(* is there, and a name that is looked up has a time it is looked up from. *)
(* What the sessions have been told of look-ups is at most one conclusion  *)
(* for each that was begun (LookupsAreConcludedOnce).  A client that sends *)
(* whole lines gets their replies in their order (LinesAreRepliedInOrder), *)
(* all of them before its connection is closed (QuittersAreAnswered).      *)
(***************************************************************************)
EXTENDS TestServer, BasicLemmas

(* What is sent: letters and ends of lines. *)
Sign == Letter \cup {EOL}

LEMMA LettersUnfold ==
    ASSUME NEW lines \in Seq(Seq(Letter))
    PROVE  /\ LettersUpTo(lines, 0) = << >>
           /\ \A k \in 0..Len(lines) : LettersUpTo(lines, k) \in Seq(Sign)
           /\ \A k \in 1..Len(lines) :
                 LettersUpTo(lines, k) = LettersUpTo(lines, k - 1) \o Append(lines[k], EOL)
<1> DEFINE n == Len(lines)
           X == Seq(Sign)
           Further(t, i) == t \o Append(lines[i], EOL)
           Is(f) == f = [i \in 0..n |-> IF i = 0 THEN << >> ELSE Further(f[i - 1], i)]
           step == [p \in X \X Nat |-> IF p[2] \in 1..n THEN Further(p[1], p[2]) ELSE p[1]]
<1>1. n \in Nat /\ << >> \in X
  OBVIOUS
<1>2. \A t \in X, i \in 1..n : Further(t, i) \in X
  <2> TAKE t \in X, i \in 1..n
  <2>1. lines[i] \in Seq(Letter)
    OBVIOUS
  <2>2. Seq(Letter) \subseteq Seq(Sign) /\ EOL \in Sign
    BY DEF Sign
  <2>3. Append(lines[i], EOL) \in Seq(Sign)
    BY <2>1, <2>2, AppendProperties
  <2> QED
    BY <2>3, ConcatProperties
<1> HIDE DEF Further, X
<1>3. step \in [X \X Nat -> X]
  BY <1>2
<1>4. \A t \in X, i \in 1..n : step[<<t, i>>] = Further(t, i)
  OBVIOUS
<1> HIDE DEF n, step
<1>5. PICK f \in [0..n -> X] : Recurs(f, n, << >>, step)
  BY <1>1, <1>3, Recursion
<1>6. Is(f)
  <2>1. \A i \in 0..n : i # 0 => f[i - 1] \in X /\ i \in 1..n
    BY <1>1
  <2>2. \A i \in 0..n :
           (IF i = 0 THEN << >> ELSE step[<<f[i - 1], i>>]) = (IF i = 0 THEN << >> ELSE Further(f[i - 1], i))
    BY <1>4, <2>1
  <2> QED
    BY <1>5, <2>2 DEF Recurs
<1> DEFINE upTo == CHOOSE g : Is(g)
<1>7. Is(upTo)
  BY <1>6
<1>8. \A k : LettersUpTo(lines, k) = upTo[k]
  BY DEF LettersUpTo, n, Further
<1> HIDE DEF upTo
<1>9. upTo[0] = << >> /\ \A i \in 1..n : upTo[i] = Further(upTo[i - 1], i)
  BY <1>1, <1>7
<1>10. \A i \in 0..n : upTo[i] \in X
  BY <1>1, <1>2, <1>9, StaysIn
<1> QED
  BY <1>8, <1>9, <1>10 DEF n, X, Further

IsSession(s) ==
    s = [buffer |-> s.buffer, response |-> s.response, action |-> s.action]

(* A session with the client's end of its connection. *)
Match(end, s) ==
    /\ IsSession(s)
    /\ s.action \in {"none", "quit", "closed"}
    /\ s.action = "closed" => s = NoSession
    /\ end = "open" => s # NoSession
    /\ end \in {"new", "dismissed"} => s = NoSession

Lookups ==
    /\ current \in Name \cup {None, Garbage}
    /\ waited \in Never..FETCH_TIMEOUT
    /\ Waiting => waited # Never

Sessions ==
    /\ DOMAIN session = Client
    /\ DOMAIN client = Client
    /\ \A c \in Client : Match(client[c], session[c])

Sendings ==
    /\ DOMAIN sent = Client
    /\ script \in [Client -> Script]
    /\ \A c \in Client : sent[c] \in 0..Len(Letters(c))

Loop ==
    /\ pc \in {"loop", "recv", "send", "crashed"}
    /\ cur \in Client \cup {None}
    /\ pc = "loop" <=> cur = None
    /\ cur # None => Open(cur)
    /\ events \subseteq {"IN", "OUT", "HUP"}

Inv == Lookups /\ Sessions /\ Sendings /\ Loop

LEMMA InvTypes == Inv => TypeOK
BY DEF Inv, Lookups, Sessions, Sendings, Loop, Match, Open, TypeOK

LEMMA NewSessionMatches ==
    /\ NewSession # NoSession
    /\ Match("open", NewSession)
    /\ \A end : end # "open" => Match(end, NoSession)
BY DEF NewSession, NoSession, Match, IsSession

(* What a client has to say comes to an end. *)
LEMMA LettersAreSigns ==
    ASSUME script \in [Client -> Script], NEW c \in Client
    PROVE  Letters(c) \in Seq(Sign) /\ Len(Letters(c)) \in Nat
<1>1. PICK lines \in Seq(Seq(Letter)) : lines = script[c]
  BY LineAssumption
<1>2. LettersUpTo(lines, Len(lines)) \in Seq(Sign)
  <2>1. Len(lines) \in 0..Len(lines)
    BY LenProperties
  <2> QED
    BY <2>1, LettersUnfold
<1> QED
  BY <1>1, <1>2, LenProperties DEF Letters, LettersOf

LEMMA InvInit == Init => Inv
<1> SUFFICES ASSUME Init PROVE Inv
  OBVIOUS
<1>1. Lookups
  BY TimeAssumption, NoneAssumption, GarbageAssumption DEF Init, Lookups, Waiting, Never
<1>2. Sessions
  BY NewSessionMatches DEF Init, Sessions
<1>3. Sendings
  BY LettersAreSigns DEF Init, Sendings
<1>4. Loop
  BY DEF Init, Loop
<1> QED
  BY <1>1, <1>2, <1>3, <1>4 DEF Inv

-----------------------------------------------------------------------------
(* The parts that an action leaves alone.                                    *)

LEMMA LookupsStay == ASSUME Lookups, UNCHANGED <<current, waited>> PROVE Lookups'
BY DEF Lookups, Waiting

LEMMA SendingsStay == ASSUME Sendings, UNCHANGED <<sent, script>> PROVE Sendings'
BY DEF Sendings, Letters

LEMMA LoopStays ==
    ASSUME Loop, UNCHANGED loopVars, cur = None \/ session'[cur] # NoSession
    PROVE  Loop'
BY DEF Loop, loopVars, Open

-----------------------------------------------------------------------------
(* The connections. *)

LEMMA EnvironmentKeepsInv ==
    ASSUME Inv, NEW c \in Client,
           \/ Connect(c)
           \/ Shut(c)
           \/ \E n \in 1..Len(Letters(c)) : Arrive(c, n)
           \/ \E reported \in SUBSET {"IN", "OUT", "HUP"} \ {{}} : Take(c, reported)
    PROVE  Inv'
<1> USE DEF Inv
<1>1. Lookups'
  BY LookupsStay DEF Connect, Shut, Arrive, Take, lookup
<1>2. CASE Connect(c)
  <2>1. Sessions'
    BY <1>2, NewSessionMatches DEF Connect, Sessions
  <2> QED
    BY <1>1, <1>2, <2>1, SendingsStay, LoopStays DEF Connect, Loop, loopVars
<1>3. CASE Shut(c)
  <2>1. Sessions'
    BY <1>3 DEF Shut, Sessions, Match
  <2> QED
    BY <1>1, <1>3, <2>1, SendingsStay, LoopStays DEF Shut, Loop, loopVars
<1>4. ASSUME NEW n \in 1..Len(Letters(c)), Arrive(c, n) PROVE Inv'
  <2>1. Sendings'
    <3>1. /\ sent' = [sent EXCEPT ![c] = n] /\ script' = script
          /\ n \in (sent[c] + 1)..Len(Letters(c)) /\ DOMAIN sent = Client
          /\ sent[c] \in 0..Len(Letters(c))
      BY <1>4 DEF Arrive, Sendings
    <3>2. n \in 0..Len(Letters(c))
      BY <3>1
    <3> QED
      BY <3>1, <3>2 DEF Sendings, Letters
  <2>2. Sessions'
    BY <1>4 DEF Arrive, Sessions
  <2> QED
    BY <1>1, <1>4, <2>1, <2>2, LoopStays DEF Arrive, Loop, loopVars
<1>5. ASSUME NEW reported \in SUBSET {"IN", "OUT", "HUP"} \ {{}}, Take(c, reported) PROVE Inv'
  <2>1. Sessions' /\ Sendings'
    BY <1>5, SendingsStay DEF Take, Sessions, clientVars
  <2>2. Loop'
    BY <1>5, NoneAssumption DEF Take, Loop, Open
  <2> QED
    BY <1>1, <2>1, <2>2
<1> QED
  BY <1>2, <1>3, <1>4, <1>5

-----------------------------------------------------------------------------
(* The handlers. *)

(* What may come of a session in client_receive_function.                    *)
LEMMA SessionUpdates ==
    ASSUME NEW s, IsSession(s), NEW v
    PROVE  /\ IsSession([s EXCEPT !.buffer = v]) /\ [s EXCEPT !.buffer = v].buffer = v
           /\ [s EXCEPT !.buffer = v].response = s.response
           /\ [s EXCEPT !.buffer = v].action = s.action
           /\ IsSession([s EXCEPT !.response = v]) /\ [s EXCEPT !.response = v].response = v
           /\ [s EXCEPT !.response = v].buffer = s.buffer
           /\ [s EXCEPT !.response = v].action = s.action
<1>1. PICK b, r, a : s = [buffer |-> b, response |-> r, action |-> a]
  BY DEF IsSession
<1>2. [s EXCEPT !.buffer = v] = [buffer |-> v, response |-> r, action |-> a]
  BY <1>1
<1>3. [s EXCEPT !.response = v] = [buffer |-> b, response |-> v, action |-> a]
  BY <1>1
<1> QED
  BY <1>1, <1>2, <1>3 DEF IsSession

AsRunning(s, b, a, r) == [s EXCEPT !.buffer = b, !.action = a, !.response = r]

LEMMA RunningSession ==
    ASSUME NEW s, IsSession(s), NEW b, NEW a, NEW r
    PROVE  /\ IsSession(AsRunning(s, b, a, r))
           /\ AsRunning(s, b, a, r).buffer = b
           /\ AsRunning(s, b, a, r).action = a
           /\ AsRunning(s, b, a, r).response = r
<1>1. PICK x, y, z : s = [buffer |-> x, response |-> y, action |-> z]
  BY DEF IsSession
<1>2. PICK u : u = [s EXCEPT !.buffer = b]
  OBVIOUS
<1>3. u = [buffer |-> b, response |-> y, action |-> z]
  BY <1>1, <1>2
<1>4. PICK v : v = [u EXCEPT !.action = a]
  OBVIOUS
<1>5. v = [buffer |-> b, response |-> y, action |-> a]
  BY <1>3, <1>4
<1>6. PICK w : w = [v EXCEPT !.response = r]
  OBVIOUS
<1>7. w = [buffer |-> b, response |-> r, action |-> a]
  BY <1>5, <1>6
<1>8. [s EXCEPT !.buffer = b, !.action = a, !.response = r] = w
  BY <1>2, <1>4, <1>6
<1> QED
  BY <1>7, <1>8 DEF IsSession, AsRunning

(* The session of a handler that runs. *)
LEMMA CurrentSession ==
    ASSUME Inv, pc \in {"recv", "send"}
    PROVE  /\ cur \in Client /\ cur # None
           /\ Match(client[cur], S)
           /\ S.action \in {"none", "quit"}
           /\ client[cur] \notin {"new", "dismissed"}
BY NoneAssumption DEF Inv, Loop, Sessions, Match, Open, S

LEMMA ReceivesKeeps ==
    ASSUME Inv, NEW s, IsSession(s), s.action \in {"none", "quit"}, Receives(s)
    PROVE  Sessions' /\ Sendings' /\ Loop'
<1> USE DEF Inv
<1>1. cur \in Client /\ cur # None /\ client[cur] \notin {"new", "dismissed"}
  BY CurrentSession DEF Receives
<1>2. s # NoSession /\ Match(client[cur], s)
  BY <1>1 DEF NoSession, Match
<1>3. session' = [session EXCEPT ![cur] = s] /\ client' = client
  BY DEF Receives, clientVars
<1>4. Sessions'
  BY <1>1, <1>2, <1>3 DEF Sessions
<1>5. session'[cur] = s
  BY <1>1, <1>3 DEF Sessions
<1>6. Loop'
  BY <1>1, <1>2, <1>5 DEF Receives, Loop, Open
<1> QED
  BY <1>4, <1>6, SendingsStay DEF Receives, clientVars

LEMMA RunsKeeps ==
    ASSUME Inv, NEW do, NEW action \in {"none", "quit"}, NEW replies, Runs(do, action, replies)
    PROVE  Sessions' /\ Sendings' /\ Loop'
<1> DEFINE s == AsRunning(S, Rest, action, replies)
<1>1. IsSession(S)
  BY CurrentSession DEF Runs, Receives, Match
<1>2. IsSession(s) /\ s.action = action
  BY <1>1, RunningSession
<1>3. Receives(s)
  BY DEF Runs, AsRunning
<1> HIDE DEF s
<1> QED
  BY <1>2, <1>3, ReceivesKeeps

LEMMA BufferedKeeps ==
    ASSUME Inv, NEW buffer, Receives([S EXCEPT !.buffer = buffer])
    PROVE  Sessions' /\ Sendings' /\ Loop'
<1>1. IsSession(S) /\ S.action \in {"none", "quit"}
  BY CurrentSession DEF Receives, Match
<1>2. IsSession([S EXCEPT !.buffer = buffer]) /\ [S EXCEPT !.buffer = buffer].action = S.action
  BY <1>1, SessionUpdates
<1> QED
  BY <1>1, <1>2, ReceivesKeeps

LEMMA EndKeeps ==
    ASSUME Inv, pc = "send", NEW response, EndHandling(response)
    PROVE  Sessions' /\ Sendings' /\ Loop'
<1> USE DEF Inv
<1>1. /\ cur \in Client /\ Match(client[cur], S) /\ S.action \in {"none", "quit"}
      /\ client[cur] \notin {"new", "dismissed"}
  BY CurrentSession
<1>2. Sessions'
  <2>1. CASE "HUP" \in events \/ IsDone(response)
    <3>1. /\ session' = [session EXCEPT ![cur] = NoSession]
          /\ client' = [client EXCEPT ![cur] = IF @ = "open" THEN "dismissed" ELSE @]
      BY <2>1 DEF EndHandling
    <3> QED
      BY <1>1, <3>1, NewSessionMatches DEF Sessions
  <2>2. CASE ~("HUP" \in events \/ IsDone(response))
    <3> DEFINE t == [S EXCEPT !.response = response]
    <3>1. session' = [session EXCEPT ![cur] = t] /\ client' = client
      BY <2>2 DEF EndHandling, S
    <3>2. IsSession(t) /\ t.action = S.action
      BY <1>1, SessionUpdates DEF Match
    <3> HIDE DEF t
    <3>3. Match(client[cur], t)
      BY <1>1, <3>2 DEF Match, NoSession
    <3> QED
      BY <1>1, <3>1, <3>3 DEF Sessions
  <2> QED
    BY <2>1, <2>2
<1>3. Loop'
  BY NoneAssumption DEF EndHandling, Loop, Open
<1> QED
  BY <1>2, <1>3, SendingsStay DEF EndHandling

LEMMA HandlersKeepInv == ASSUME Inv, Handlers PROVE Inv'
<1>1. CASE QuitIsLeft \/ ReplyIsPending \/ NoCommand
  <2>1. UNCHANGED <<current, waited>> /\ \E buffer : Receives([S EXCEPT !.buffer = buffer])
    BY <1>1 DEF QuitIsLeft, ReplyIsPending, NoCommand, lookup
  <2> QED
    BY <2>1, BufferedKeeps, LookupsStay DEF Inv
<1>2. CASE Blank \/ EchoOrUndefined \/ Quit \/ DnsBusy \/ DnsFound \/ DnsError
  <2>1. /\ UNCHANGED <<current, waited>>
        /\ \E do, replies : Runs(do, "none", replies) \/ Runs(do, "quit", replies)
    BY <1>2 DEF Blank, EchoOrUndefined, Quit, DnsBusy, DnsFound, DnsError, lookup
  <2>2. Sessions' /\ Sendings' /\ Loop'
    <3>1. PICK do, replies : Runs(do, "none", replies) \/ Runs(do, "quit", replies)
      BY <2>1
    <3> QED
      BY <3>1, RunsKeeps
  <2> QED
    BY <2>1, <2>2, LookupsStay DEF Inv
<1>3. CASE DnsFetching
  <2>1. Sessions' /\ Sendings' /\ Loop'
    BY <1>3, RunsKeeps DEF DnsFetching
  <2>2. Lookups'
    BY <1>3, TimeAssumption DEF DnsFetching, Lookups, Waiting, Never
  <2> QED
    BY <2>1, <2>2 DEF Inv
<1>4. CASE DnsCrashes
  <2>1. pc = "recv" /\ pc' = "crashed"
    BY <1>4 DEF DnsCrashes, LooksForCommand
  <2>2. Loop'
    BY <1>4, <2>1 DEF DnsCrashes, Inv, Loop, Open
  <2> QED
    BY <1>4, <2>2, LookupsStay, SendingsStay DEF DnsCrashes, Inv, Sessions, lookup, clientVars
<1>5. CASE NoRoom \/ PollIdle \/ PollWaits
  <2>1. UNCHANGED <<current, waited>> /\ pc = "send" /\ \E response : EndHandling(response)
    BY <1>5 DEF NoRoom, PollIdle, PollWaits, Sends, lookup
  <2> QED
    BY <2>1, EndKeeps, LookupsStay DEF Inv
<1>6. CASE PollResolved \/ PollTimesOut
  <2>1. /\ current' = None /\ waited' = 0 /\ pc = "send"
        /\ \E response : EndHandling(response)
    BY <1>6 DEF PollResolved, PollTimesOut, Concludes, Sends
  <2>2. Lookups'
    BY <2>1, NoneAssumption, TimeAssumption DEF Lookups, Waiting, Never
  <2> QED
    BY <2>1, <2>2, EndKeeps DEF Inv
<1> QED
  BY <1>1, <1>2, <1>3, <1>4, <1>5, <1>6 DEF Handlers

LEMMA InvNext == Inv /\ [Next]_vars => Inv'
<1> SUFFICES ASSUME Inv, [Next]_vars PROVE Inv'
  OBVIOUS
<1>1. CASE StoreChanges \/ Ended \/ UNCHANGED vars
  <2>1. UNCHANGED <<lookup, session, loopVars, clientVars>>
    BY <1>1 DEF StoreChanges, Ended, vars
  <2>2. Sessions' /\ Loop'
    BY <2>1 DEF Inv, Sessions, Loop, Open, loopVars, clientVars
  <2> QED
    BY <2>1, <2>2, LookupsStay, SendingsStay DEF Inv, lookup, clientVars
<1>2. CASE Tick
  <2>1. Lookups'
    BY <1>2, TimeAssumption DEF Tick, Inv, Lookups, Waiting, Never
  <2>2. Sessions' /\ Loop'
    BY <1>2 DEF Tick, Inv, Sessions, Loop, Open, loopVars, clientVars
  <2> QED
    BY <1>2, <2>1, <2>2, SendingsStay DEF Tick, Inv, clientVars
<1> QED
  BY <1>1, <1>2, EnvironmentKeepsInv, HandlersKeepInv DEF Next

(* However the lines are cut, the clients hang up and the names come and go: *)
(* a handler runs for a connection that has its session, a session is there  *)
(* while its client's end is open, and a look-up that is waited for has its  *)
(* time.                                                                     *)
THEOREM TypeCorrect == Spec => []TypeOK
<1>1. Spec => []Inv
  BY InvInit, InvNext, PTL DEF Spec
<1> QED
  BY <1>1, InvTypes, PTL

-----------------------------------------------------------------------------
(* How often a list of replies says that a lookup is over. *)

Counted(s) == {i \in DOMAIN s : IsConclusion(s[i]) /\ s[i].about \in Name}

LEMMA CountIsFinite ==
    ASSUME NEW R, NEW s \in Seq(R)
    PROVE  IsFiniteSet(Counted(s)) /\ Cardinality(Counted(s)) \in Nat
<1>1. IsFiniteSet(1..Len(s)) /\ DOMAIN s = 1..Len(s)
  BY FS_Interval
<1> QED
  BY <1>1, FS_Subset, FS_CardinalityType DEF Counted

LEMMA CountOfPart ==
    ASSUME NEW R, NEW s \in Seq(R), NEW t, Counted(t) \subseteq Counted(s)
    PROVE  Cardinality(Counted(t)) <= Cardinality(Counted(s))
BY CountIsFinite, FS_Subset

LEMMA CountOfAppend ==
    ASSUME NEW R, NEW s \in Seq(R), NEW r \in R
    PROVE  Cardinality(Counted(Append(s, r))) <=
             Cardinality(Counted(s)) + (IF IsConclusion(r) /\ r.about \in Name THEN 1 ELSE 0)
<1> DEFINE t == Append(s, r)
           last == Len(s) + 1
<1>1. /\ DOMAIN t = 1..last /\ t[last] = r
      /\ \A i \in 1..Len(s) : t[i] = s[i]
      /\ DOMAIN s = 1..Len(s) /\ Len(s) \in Nat
  OBVIOUS
<1> HIDE DEF t
<1>2. Counted(t) = Counted(s) \cup (IF IsConclusion(r) /\ r.about \in Name THEN {last} ELSE {})
  BY <1>1 DEF Counted
<1>3. last \notin Counted(s)
  BY <1>1 DEF Counted
<1>4. IsFiniteSet(Counted(s)) /\ Cardinality(Counted(s)) \in Nat
  BY CountIsFinite
<1>5. Cardinality(Counted(s) \cup {last}) = Cardinality(Counted(s)) + 1
  BY <1>3, <1>4, FS_AddElement
<1>6. Cardinality(Counted(t)) <=
        Cardinality(Counted(s)) + (IF IsConclusion(r) /\ r.about \in Name THEN 1 ELSE 0)
  <2>1. CASE IsConclusion(r) /\ r.about \in Name
    BY <1>2, <1>4, <1>5, <2>1
  <2>2. CASE ~(IsConclusion(r) /\ r.about \in Name)
    <3>1. Counted(t) = Counted(s)
      BY <1>2, <2>2
    <3> QED
      BY <1>4, <2>2, <3>1
  <2> QED
    BY <2>1, <2>2
<1> QED
  BY <1>6 DEF t

(* Sending moves replies from one list to the other: t is split after its    *)
(* first n, which go behind s.                                               *)
SplitAt(R, s, t, n, first, rest) ==
    /\ first \in Seq(R) /\ first = SubSeq(t, 1, n)
    /\ rest \in Seq(R) /\ rest = SubSeq(t, n + 1, Len(t))
    /\ s \o first \in Seq(R)
    /\ first \o rest = t
    /\ (s \o first) \o rest = s \o t
    /\ Counted(s \o first) \subseteq Counted(s \o t)

LEMMA SendingSplits ==
    ASSUME NEW R, NEW s \in Seq(R), NEW t \in Seq(R), NEW n \in 0..Len(t)
    PROVE  \E first, rest : SplitAt(R, s, t, n, first, rest)
<1> DEFINE first == SubSeq(t, 1, n)
           rest == SubSeq(t, n + 1, Len(t))
<1>1. first \in Seq(R) /\ Len(first) = n /\ \A i \in 1..n : first[i] = t[i]
  OBVIOUS
<1>2. rest \in Seq(R) /\ Len(rest) = Len(t) - n /\ \A i \in 1..(Len(t) - n) : rest[i] = t[n + i]
  OBVIOUS
<1>3. /\ s \o t \in Seq(R) /\ Len(s \o t) = Len(s) + Len(t)
      /\ \A i \in 1..(Len(s) + Len(t)) : (s \o t)[i] = IF i <= Len(s) THEN s[i] ELSE t[i - Len(s)]
  OBVIOUS
<1> HIDE DEF first, rest
<1>4. /\ s \o first \in Seq(R) /\ Len(s \o first) = Len(s) + n
      /\ \A i \in 1..(Len(s) + n) : (s \o first)[i] = IF i <= Len(s) THEN s[i] ELSE first[i - Len(s)]
  BY <1>1
<1>5. \A i \in 1..(Len(s) + n) : (s \o first)[i] = (s \o t)[i]
  BY <1>1, <1>3, <1>4
<1>6. Counted(s \o first) \subseteq Counted(s \o t)
  BY <1>3, <1>4, <1>5 DEF Counted
<1>7. first \o rest = t
  <2>1. 1 \in 1..(Len(t) + 1) /\ n \in (1 - 1)..Len(t) /\ Len(t) \in n..Len(t)
    OBVIOUS
  <2>2. first \o rest = SubSeq(t, 1, Len(t))
    BY <2>1, ConcatAdjacentSubSeq DEF first, rest
  <2> QED
    BY <2>2, SubSeqFull
<1>8. (s \o first) \o rest = s \o t
  <2>1. s \in Seq(R) /\ first \in Seq(R) /\ rest \in Seq(R)
    BY <1>1, <1>2
  <2>2. (s \o first) \o rest = s \o (first \o rest)
    BY ONLY <2>1, ConcatAssociative, SMTT(20)
  <2> QED
    BY <1>7, <2>2
<1>9. first = SubSeq(t, 1, n) /\ rest = SubSeq(t, n + 1, Len(t))
  BY DEF first, rest
<1>10. SplitAt(R, s, t, n, first, rest)
  BY <1>1, <1>2, <1>4, <1>6, <1>7, <1>8, <1>9 DEF SplitAt
<1> QED
  BY <1>10

LEMMA AppendBehind ==
    ASSUME NEW R, NEW s \in Seq(R), NEW t \in Seq(R), NEW r \in R
    PROVE  s \o Append(t, r) = Append(s \o t, r)
BY AppendIsConcat, ConcatProperties, ConcatAssociative

-----------------------------------------------------------------------------
(* The inductive invariant of the lookups: what is concluded and what is     *)
(* waited for was begun.  The replies are lists of replies.                  *)

Lists(R) ==
    /\ told \in [Client -> Seq(R)]
    /\ \A c \in Client : session[c].response \in Seq(R)

Texts == \E R : Lists(R)

Once == begun \in Nat /\ Texts /\ EachLookupIsConcludedOnce

LEMMA CountsAreNumbers ==
    ASSUME Texts
    PROVE  \A c \in Client : Conclusions(c) \in Nat
<1> SUFFICES ASSUME NEW c \in Client PROVE Conclusions(c) \in Nat
  OBVIOUS
<1>1. PICK R : told[c] \in Seq(R) /\ session[c].response \in Seq(R)
  BY DEF Texts, Lists
<1>2. Replies(c) \in Seq(R)
  BY <1>1, ConcatProperties DEF Replies
<1> QED
  BY <1>2, CountIsFinite DEF Conclusions, Counted

LEMMA CountsAreNumbersNext ==
    ASSUME Texts'
    PROVE  \A c \in Client : Conclusions(c)' \in Nat
<1> SUFFICES ASSUME NEW c \in Client PROVE Conclusions(c)' \in Nat
  OBVIOUS
<1>1. PICK R : told'[c] \in Seq(R) /\ session'[c].response \in Seq(R)
  BY DEF Texts, Lists
<1>2. Replies(c)' \in Seq(R)
  BY <1>1, ConcatProperties DEF Replies
<1> QED
  BY <1>2, CountIsFinite DEF Conclusions, Counted

LEMMA OnceInit == Init => Once
<1> SUFFICES ASSUME Init PROVE Once
  OBVIOUS
<1>1. told \in [Client -> Seq({})] /\ \A c \in Client : session[c].response \in Seq({})
  <2>1. << >> \in Seq({})
    OBVIOUS
  <2> QED
    BY <2>1 DEF Init, NoSession
<1>2. \A c \in Client : Replies(c) = << >>
  BY <1>1, ConcatEmptySeq DEF Init, NoSession, Replies
<1>3. \A c \in Client : Conclusions(c) = 0
  <2> SUFFICES ASSUME NEW c \in Client PROVE Conclusions(c) = 0
    OBVIOUS
  <2>1. {i \in DOMAIN Replies(c) : IsConclusion(Replies(c)[i]) /\ Replies(c)[i].about \in Name} = {}
    BY <1>2
  <2> QED
    BY <2>1, FS_EmptySet DEF Conclusions
<1>4. [c \in Client |-> Conclusions(c)] = [c \in Client |-> 0]
  BY <1>3
<1>5. SumFunction([c \in Client |-> Conclusions(c)]) = 0
  BY <1>4, SumOfZeros, ClientAssumption
<1>6. ~Waiting
  BY NoneAssumption, GarbageAssumption DEF Init, Waiting
<1>7. begun = 0
  BY DEF Init
<1>8. Texts
  BY <1>1 DEF Texts, Lists
<1> QED
  BY <1>5, <1>6, <1>7, <1>8 DEF Once, EachLookupIsConcludedOnce

(* Nothing is said and nothing is looked up. *)
LEMMA OnceStays ==
    ASSUME Once, Texts', \A c \in Client : Replies(c)' = Replies(c), UNCHANGED <<current, begun>>
    PROVE  Once'
<1>1. \A c \in Client : Conclusions(c)' = Conclusions(c)
  BY DEF Conclusions
<1>2. [c \in Client |-> Conclusions(c)'] = [c \in Client |-> Conclusions(c)]
  BY <1>1
<1> QED
  BY <1>2 DEF Once, EachLookupIsConcludedOnce, Waiting

LEMMA Balance ==
    ASSUME NEW f \in Nat, NEW g \in Nat, NEW k \in Nat, NEW a \in Nat, NEW b \in Nat,
           NEW m \in Nat, NEW n \in Nat,
           g <= f + k, k + b + m <= n + a, f + a <= m
    PROVE  g + b <= n
OBVIOUS

(* One client is told more, k times that a lookup is over.                   *)
LEMMA OnceKept ==
    ASSUME Once, Texts', NEW d \in Client, NEW k \in Nat,
           \A c \in Client \ {d} : Replies(c)' = Replies(c),
           Cardinality(Counted(Replies(d)')) <= Cardinality(Counted(Replies(d))) + k,
           begun' \in Nat,
           k + (IF Waiting' THEN 1 ELSE 0) + begun <= begun' + (IF Waiting THEN 1 ELSE 0)
    PROVE  Once'
<1> DEFINE F == [c \in Client |-> Conclusions(c)]
           G == [c \in Client |-> Conclusions(c)']
<1>1. F \in [Client -> Nat] /\ G \in [Client -> Nat]
  BY CountsAreNumbers, CountsAreNumbersNext DEF Once
<1>2. G[d] <= F[d] + k
  BY DEF Conclusions, Counted
<1>3. \A c \in Client \ {d} : G[c] <= F[c]
  <2> SUFFICES ASSUME NEW c \in Client \ {d} PROVE G[c] <= F[c]
    OBVIOUS
  <2>1. G[c] = F[c]
    BY DEF Conclusions
  <2> QED
    BY <1>1, <2>1
<1> HIDE DEF F, G
<1>4. /\ SumFunction(F) \in Nat /\ SumFunction(G) \in Nat
      /\ SumFunction(G) <= SumFunction(F) + k
  BY <1>1, <1>2, <1>3, SumGrows, ClientAssumption
<1>5. SumFunction(F) + (IF Waiting THEN 1 ELSE 0) <= begun /\ begun \in Nat
  BY DEF Once, EachLookupIsConcludedOnce, F
<1>6. SumFunction(G) + (IF Waiting' THEN 1 ELSE 0) <= begun'
  <2> DEFINE a == IF Waiting THEN 1 ELSE 0
             b == IF Waiting' THEN 1 ELSE 0
  <2>1. /\ a \in Nat /\ b \in Nat /\ k + b + begun <= begun' + a
        /\ SumFunction(F) + a <= begun
    BY <1>5
  <2> HIDE DEF a, b
  <2>2. SumFunction(G) + b <= begun'
    BY <1>4, <1>5, <2>1, Balance
  <2> QED
    BY <2>2 DEF b
<1> QED
  BY <1>6 DEF Once, EachLookupIsConcludedOnce, G

(* The session of a handler that reads, with what it leaves in it. *)
LEMMA ReceivesReplies ==
    ASSUME Inv, Texts, NEW d \in Client, d = cur, NEW s, Receives(s), NEW R, Lists(R),
           s.response \in Seq(R)
    PROVE  /\ Texts'
           /\ \A c \in Client \ {d} : Replies(c)' = Replies(c)
           /\ Replies(d)' = told[d] \o s.response
<1>1. session' = [session EXCEPT ![d] = s] /\ told' = told
  BY CurrentSession DEF Receives
<1>2. DOMAIN session = Client
  BY DEF Inv, Sessions
<1>3. \A c \in Client : session'[c] = IF c = d THEN s ELSE session[c]
  BY <1>1, <1>2
<1>4. Texts'
  BY <1>1, <1>3 DEF Texts, Lists
<1> QED
  BY <1>1, <1>3, <1>4 DEF Replies

(* A reply that begins or refuses a lookup concludes none.                   *)
LEMMA RunsReplies ==
    ASSUME Inv, Texts, NEW d \in Client, d = cur,
           NEW do, NEW action, NEW replies, Runs(do, action, replies),
           \/ replies = << >>
           \/ \E what, about : replies = <<Reply(what, about)>> /\ what \notin {"resolved", "timeout"}
    PROVE  /\ Texts'
           /\ \A c \in Client \ {d} : Replies(c)' = Replies(c)
           /\ Cardinality(Counted(Replies(d)')) <= Cardinality(Counted(Replies(d)))
<1> DEFINE s == AsRunning(S, Rest, action, replies)
<1>1. PICK Q : Lists(Q)
  BY DEF Texts
<1> DEFINE R == Q \cup {replies[i] : i \in DOMAIN replies}
<1>2. Lists(R)
  <2>1. Seq(Q) \subseteq Seq(R)
    OBVIOUS
  <2> QED
    BY <1>1, <2>1 DEF Lists
<1>3. replies \in Seq(R)
  <2>1. CASE replies = << >>
    BY <2>1
  <2>2. ASSUME NEW r, replies = <<r>> PROVE replies \in Seq(R)
    <3>1. DOMAIN replies = 1..1 /\ replies[1] = r
      BY <2>2
    <3>2. r \in R
      BY <3>1
    <3> QED
      BY <2>2, <3>2
  <2> QED
    BY <2>1, <2>2
<1> HIDE DEF R
<1>4. S.response = << >> /\ Receives(s) /\ IsSession(S)
  BY CurrentSession DEF Runs, LooksForCommand, Match, AsRunning
<1>5. s.response = replies
  BY <1>4, RunningSession
<1> HIDE DEF s
<1>6. /\ Texts' /\ \A c \in Client \ {d} : Replies(c)' = Replies(c)
      /\ Replies(d)' = told[d] \o replies
  BY <1>2, <1>3, <1>4, <1>5, ReceivesReplies
<1>7. told[d] \in Seq(R) /\ Replies(d) = told[d]
  BY <1>2, <1>4, ConcatEmptySeq DEF Lists, Replies, S
<1>8. Cardinality(Counted(Replies(d)')) <= Cardinality(Counted(told[d]))
  <2>1. CASE replies = << >>
    <3>1. Replies(d)' = told[d]
      BY <1>6, <1>7, <2>1, ConcatEmptySeq
    <3> QED
      BY <1>7, <3>1, CountIsFinite
  <2>2. ASSUME NEW what, NEW about, replies = <<Reply(what, about)>>,
               what \notin {"resolved", "timeout"}
        PROVE  Cardinality(Counted(Replies(d)')) <= Cardinality(Counted(told[d]))
    <3> DEFINE r == Reply(what, about)
    <3>1. ~IsConclusion(r)
      BY <2>2 DEF IsConclusion, Reply
    <3>2. replies = <<r>>
      BY <2>2
    <3> HIDE DEF r
    <3>3. r \in R
      <4>1. 1 \in DOMAIN replies /\ replies[1] = r
        BY <3>2
      <4> QED
        BY <4>1 DEF R
    <3>4. Replies(d)' = Append(told[d], r)
      BY <1>6, <1>7, <3>2, <3>3, AppendIsConcat
    <3>5. Cardinality(Counted(Append(told[d], r))) <= Cardinality(Counted(told[d])) + 0
      BY <1>7, <3>1, <3>3, CountOfAppend
    <3>6. Cardinality(Counted(told[d])) \in Nat
      BY <1>7, CountIsFinite
    <3> QED
      BY <3>4, <3>5, <3>6
  <2> QED
    BY <2>1, <2>2
<1> QED
  BY <1>4, <1>6, <1>7, <1>8

Told(d, replies) == told' = [told EXCEPT ![d] = @ \o replies]

(* The replies that a handler sends, and those that it leaves or that are    *)
(* lost with the session.                                                    *)
LEMMA EndReplies ==
    ASSUME Inv, pc = "send", NEW d \in Client, d = cur, NEW R, Lists(R),
           NEW replies \in Seq(R), NEW n \in 0..Len(replies),
           Told(d, SubSeq(replies, 1, n)),
           EndHandling(SubSeq(replies, n + 1, Len(replies)))
    PROVE  /\ Texts'
           /\ \A c \in Client \ {d} : Replies(c)' = Replies(c)
           /\ Cardinality(Counted(Replies(d)')) <= Cardinality(Counted(told[d] \o replies))
<1> DEFINE first == SubSeq(replies, 1, n)
           rest == SubSeq(replies, n + 1, Len(replies))
<1>1. DOMAIN session = Client /\ IsSession(S)
  BY CurrentSession DEF Inv, Sessions, Match
<1>2. told[d] \in Seq(R)
  BY DEF Lists
<1>3. /\ first \in Seq(R) /\ rest \in Seq(R) /\ told[d] \o first \in Seq(R)
      /\ (told[d] \o first) \o rest = told[d] \o replies
      /\ Counted(told[d] \o first) \subseteq Counted(told[d] \o replies)
  <2>1. PICK s \in Seq(R) : s = told[d]
    BY <1>2
  <2>2. PICK f, r : SplitAt(R, s, replies, n, f, r)
    BY SendingSplits
  <2>3. f = first /\ r = rest
    BY <2>2 DEF SplitAt
  <2> HIDE DEF first, rest
  <2> QED
    BY <2>1, <2>2, <2>3 DEF SplitAt
<1>4. Told(d, first) /\ EndHandling(rest)
  OBVIOUS
<1> HIDE DEF first, rest
<1>5. PICK s : session' = [session EXCEPT ![d] = s] /\ (s = NoSession \/ s = [S EXCEPT !.response = rest])
  BY <1>4 DEF EndHandling, S
<1>6. s.response = << >> \/ s.response = rest
  BY <1>1, <1>5 DEF IsSession, NoSession
<1>7. /\ \A c \in Client : session'[c] = IF c = d THEN s ELSE session[c]
      /\ told' \in [Client -> Seq(R)]
      /\ \A c \in Client : told'[c] = IF c = d THEN told[d] \o first ELSE told[c]
  BY <1>1, <1>3, <1>4, <1>5 DEF Told, Lists
<1>8. Texts'
  <2>1. s.response \in Seq(R)
    BY <1>3, <1>6, EmptySeq
  <2> QED
    BY <1>7, <2>1 DEF Texts, Lists
<1>9. Replies(d)' = (told[d] \o first) \o s.response
  BY <1>1, <1>7 DEF Replies
<1>10. Replies(d)' = told[d] \o first \/ Replies(d)' = told[d] \o replies
  BY <1>3, <1>6, <1>9, ConcatEmptySeq
<1>11. told[d] \o replies \in Seq(R)
  BY <1>2, ConcatProperties
<1>12. Cardinality(Counted(Replies(d)')) <= Cardinality(Counted(told[d] \o replies))
  BY <1>3, <1>10, <1>11, CountOfPart
<1>13. \A c \in Client \ {d} : Replies(c)' = Replies(c)
  BY <1>7 DEF Replies
<1> QED
  BY <1>1, <1>8, <1>12, <1>13

-----------------------------------------------------------------------------
(* What each action adds to what clients are told. *)

LEMMA NobodyIsTold ==
    ASSUME Inv, Once,
           \/ \E c \in Client :
                \/ Connect(c) \/ Shut(c)
                \/ \E n \in 1..Len(Letters(c)) : Arrive(c, n)
                \/ \E reported \in SUBSET {"IN", "OUT", "HUP"} \ {{}} : Take(c, reported)
           \/ StoreChanges \/ Tick \/ DnsCrashes \/ Ended \/ UNCHANGED vars
    PROVE  Once'
<1>1. UNCHANGED <<current, begun, told>>
  BY DEF Connect, Shut, Arrive, Take, StoreChanges, Tick, DnsCrashes, Ended, vars, lookup
<1>2. \A c \in Client : session'[c].response = session[c].response
  <2>1. ASSUME NEW c \in Client, Connect(c)
        PROVE  \A d \in Client : session'[d].response = session[d].response
    <3>1. session[c] = NoSession /\ DOMAIN session = Client
      BY <2>1 DEF Connect, Inv, Sessions, Match
    <3>2. NewSession.response = NoSession.response
      BY DEF NewSession, NoSession
    <3> QED
      BY <2>1, <3>1, <3>2 DEF Connect
  <2>2. CASE UNCHANGED session
    BY <2>2
  <2> QED
    BY <2>1, <2>2 DEF Shut, Arrive, Take, StoreChanges, Tick, DnsCrashes, Ended, vars
<1>3. Texts'
  BY <1>1, <1>2 DEF Once, Texts, Lists
<1>4. \A c \in Client : Replies(c)' = Replies(c)
  BY <1>1, <1>2 DEF Replies
<1> QED
  BY <1>1, <1>3, <1>4, OnceStays

LEMMA BufferingTells ==
    ASSUME Inv, Once, NEW buffer, Receives([S EXCEPT !.buffer = buffer]),
           UNCHANGED <<current, begun>>
    PROVE  Once'
<1> DEFINE s == [S EXCEPT !.buffer = buffer]
<1>1. PICK d \in Client : d = cur
  BY CurrentSession DEF Receives
<1>2. IsSession(S)
  BY CurrentSession DEF Receives, Match
<1>3. s.response = S.response
  BY <1>2 DEF IsSession
<1>4. Receives(s)
  OBVIOUS
<1> HIDE DEF s
<1>5. PICK R : Lists(R)
  BY DEF Once, Texts
<1>6. s.response \in Seq(R)
  BY <1>1, <1>3, <1>5 DEF Lists, S
<1>7. /\ Texts' /\ \A c \in Client \ {d} : Replies(c)' = Replies(c)
      /\ Replies(d)' = told[d] \o s.response
  BY <1>1, <1>4, <1>5, <1>6, ReceivesReplies DEF Once
<1>8. \A c \in Client : Replies(c)' = Replies(c)
  BY <1>1, <1>3, <1>7 DEF Replies, S
<1> QED
  BY <1>7, <1>8, OnceStays

LEMMA CommandTells ==
    ASSUME Inv, Once, NEW do, NEW action, NEW replies, Runs(do, action, replies),
           \/ replies = << >>
           \/ \E what, about : replies = <<Reply(what, about)>> /\ what \notin {"resolved", "timeout"},
           \/ UNCHANGED <<current, begun>>
           \/ ~Waiting /\ begun' = begun + 1
    PROVE  Once'
<1>1. PICK d \in Client : d = cur
  BY CurrentSession DEF Runs, Receives
<1>2. /\ Texts' /\ \A c \in Client \ {d} : Replies(c)' = Replies(c)
      /\ Cardinality(Counted(Replies(d)')) <= Cardinality(Counted(Replies(d)))
  BY <1>1, RunsReplies DEF Once
<1>3. Cardinality(Counted(Replies(d)')) <= Cardinality(Counted(Replies(d))) + 0
  <2>1. Conclusions(d) \in Nat /\ Conclusions(d)' \in Nat
    BY <1>2, CountsAreNumbers, CountsAreNumbersNext DEF Once
  <2>2. Cardinality(Counted(Replies(d)')) \in Nat /\ Cardinality(Counted(Replies(d))) \in Nat
    BY <2>1 DEF Conclusions, Counted
  <2> QED
    BY <1>2, <2>2
<1>4. /\ begun' \in Nat
      /\ 0 + (IF Waiting' THEN 1 ELSE 0) + begun <= begun' + (IF Waiting THEN 1 ELSE 0)
  BY DEF Once, Waiting
<1> QED
  BY <1>2, <1>3, <1>4, OnceKept

(* A part of the replies is sent, if there is room at all.                   *)
SendsPart(replies) ==
    Sends(replies) \/ (replies = S.response /\ told' = told /\ EndHandling(replies))

LEMMA PartIsSent ==
    ASSUME NEW d \in Client, d = cur, NEW R, Lists(R), NEW replies \in Seq(R), SendsPart(replies)
    PROVE  \E n \in 0..Len(replies) :
              /\ Told(d, SubSeq(replies, 1, n))
              /\ EndHandling(SubSeq(replies, n + 1, Len(replies)))
<1>1. CASE Sends(replies)
  BY <1>1 DEF Sends, Told
<1>2. CASE told' = told /\ EndHandling(replies)
  <2>1. SubSeq(replies, 1, 0) = << >> /\ SubSeq(replies, 0 + 1, Len(replies)) = replies
    BY SubSeqFull
  <2>2. told[d] \o << >> = told[d]
    BY ConcatEmptySeq DEF Lists
  <2>3. [told EXCEPT ![d] = told[d] \o << >>] = told
    BY <2>2 DEF Lists
  <2>4. Told(d, SubSeq(replies, 1, 0))
    BY <1>2, <2>1, <2>3 DEF Told
  <2>5. 0 \in 0..Len(replies)
    OBVIOUS
  <2> QED
    BY <1>2, <2>1, <2>4, <2>5
<1> QED
  BY <1>1, <1>2 DEF SendsPart

(* The replies that the poll leaves, r behind the others if there is one.    *)
LEMMA SendingTells ==
    ASSUME Inv, Once, pc = "send", NEW r, NEW replies, NEW k \in {0, 1},
           SendsPart(replies),
           \/ replies = S.response
           \/ replies = Append(S.response, r) /\ (IsConclusion(r) /\ r.about \in Name => k = 1),
           begun' = begun,
           k + (IF Waiting' THEN 1 ELSE 0) <= (IF Waiting THEN 1 ELSE 0)
    PROVE  Once'
<1>1. PICK d \in Client : d = cur
  BY CurrentSession
<1>2. PICK Q : Lists(Q)
  BY DEF Once, Texts
<1> DEFINE R == Q \cup {r}
<1>3. Lists(R) /\ r \in R
  <2>1. Seq(Q) \subseteq Seq(R)
    OBVIOUS
  <2> QED
    BY <1>2, <2>1 DEF Lists
<1> HIDE DEF R
<1>4. PICK t \in Seq(R) : t = told[d]
  BY <1>3 DEF Lists
<1>5. PICK u \in Seq(R) : u = S.response
  BY <1>1, <1>3 DEF Lists, S
<1>6. replies \in Seq(R)
  <2>1. Append(u, r) \in Seq(R)
    BY <1>3, AppendProperties
  <2> QED
    BY <1>5, <2>1
<1>7. \E n \in 0..Len(replies) :
         /\ Told(d, SubSeq(replies, 1, n))
         /\ EndHandling(SubSeq(replies, n + 1, Len(replies)))
  BY <1>1, <1>3, <1>6, PartIsSent
<1>8. /\ Texts' /\ \A c \in Client \ {d} : Replies(c)' = Replies(c)
      /\ Cardinality(Counted(Replies(d)')) <= Cardinality(Counted(told[d] \o replies))
  BY <1>1, <1>3, <1>6, <1>7, EndReplies
<1>9. Replies(d) = t \o u /\ t \o u \in Seq(R)
  BY <1>1, <1>4, <1>5, ConcatProperties DEF Replies, S
<1>10. Cardinality(Counted(t \o replies)) <= Cardinality(Counted(t \o u)) + k
  <2>1. Cardinality(Counted(t \o u)) \in Nat
    BY <1>9, CountIsFinite
  <2>2. CASE replies = S.response
    BY <1>5, <2>1, <2>2
  <2>3. CASE replies = Append(S.response, r) /\ (IsConclusion(r) /\ r.about \in Name => k = 1)
    <3>1. t \o Append(u, r) = Append(t \o u, r)
      BY <1>3, AppendBehind
    <3>2. Cardinality(Counted(Append(t \o u, r))) <=
            Cardinality(Counted(t \o u)) + (IF IsConclusion(r) /\ r.about \in Name THEN 1 ELSE 0)
      BY <1>3, <1>9, CountOfAppend
    <3>3. Cardinality(Counted(Append(t \o u, r))) \in Nat
      BY <1>3, <1>9, AppendProperties, CountIsFinite
    <3> QED
      BY <1>5, <2>1, <2>3, <3>1, <3>2, <3>3
  <2> QED
    BY <2>2, <2>3
<1>11. Cardinality(Counted(Replies(d)')) <= Cardinality(Counted(Replies(d))) + k
  <2>1. Conclusions(d) \in Nat /\ Conclusions(d)' \in Nat
    BY <1>8, CountsAreNumbers, CountsAreNumbersNext DEF Once
  <2>2. Cardinality(Counted(Replies(d)')) \in Nat /\ Cardinality(Counted(Replies(d))) \in Nat
    BY <2>1 DEF Conclusions, Counted
  <2>3. Cardinality(Counted(t \o replies)) \in Nat
    BY <1>6, ConcatProperties, CountIsFinite
  <2> QED
    BY <1>4, <1>8, <1>9, <1>10, <2>2, <2>3
<1>12. /\ k \in Nat /\ begun' \in Nat
       /\ k + (IF Waiting' THEN 1 ELSE 0) + begun <= begun' + (IF Waiting THEN 1 ELSE 0)
  BY DEF Once
<1> QED
  BY <1>8, <1>11, <1>12, OnceKept

LEMMA OnceNext == Inv /\ Once /\ [Next]_vars => Once'
<1> SUFFICES ASSUME Inv, Once, [Next]_vars PROVE Once'
  OBVIOUS
<1>1. CASE QuitIsLeft \/ ReplyIsPending \/ NoCommand
  BY <1>1, BufferingTells DEF QuitIsLeft, ReplyIsPending, NoCommand, lookup
<1>2. CASE Blank \/ EchoOrUndefined \/ Quit \/ DnsBusy \/ DnsFound \/ DnsError
  <2>1. PICK do, action, replies :
           /\ Runs(do, action, replies)
           /\ \/ replies = << >>
              \/ \E what, about :
                    replies = <<Reply(what, about)>> /\ what \notin {"resolved", "timeout"}
    BY <1>2 DEF Blank, EchoOrUndefined, Quit, DnsBusy, DnsFound, DnsError
  <2>2. UNCHANGED <<current, begun>>
    BY <1>2 DEF Blank, EchoOrUndefined, Quit, DnsBusy, DnsFound, DnsError, lookup
  <2> QED
    BY <2>1, <2>2, CommandTells
<1>3. CASE DnsFetching
  <2>1. Runs("dns", "none", <<Reply("fetching", Dn)>>) /\ begun' = begun + 1
    BY <1>3 DEF DnsFetching
  <2>2. ~Waiting
    BY <1>3, NoneAssumption DEF DnsFetching, Waiting
  <2> QED
    BY <2>1, <2>2, CommandTells
<1>4. CASE NoRoom \/ PollIdle \/ PollWaits
  <2>1. /\ UNCHANGED <<current, begun>> /\ pc = "send"
        /\ SendsPart(S.response)
    BY <1>4 DEF NoRoom, PollIdle, PollWaits, Sends, SendsPart, lookup
  <2>2. 0 + (IF Waiting' THEN 1 ELSE 0) <= (IF Waiting THEN 1 ELSE 0)
    BY <2>1 DEF Waiting
  <2> QED
    BY <2>1, <2>2, SendingTells
<1>5. ASSUME NEW what, Concludes(what) PROVE Once'
  <2> DEFINE r == Reply(what, current)
             k == IF Waiting THEN 1 ELSE 0
  <2>1. /\ begun' = begun /\ current' = None /\ pc = "send"
        /\ Sends(Append(S.response, r)) \/ Sends(S.response)
    BY <1>5 DEF Concludes, Sends
  <2>2. k + (IF Waiting' THEN 1 ELSE 0) <= (IF Waiting THEN 1 ELSE 0)
    BY <2>1, NoneAssumption DEF Waiting
  <2>3. k \in {0, 1} /\ (IsConclusion(r) /\ r.about \in Name => k = 1)
    BY DEF Reply, Waiting
  <2> HIDE DEF r, k
  <2> QED
    BY <2>1, <2>2, <2>3, SendingTells DEF SendsPart
<1> QED
  BY <1>1, <1>2, <1>3, <1>4, <1>5, NobodyIsTold DEF Next, Handlers, PollResolved, PollTimesOut

(* Whoever asks, polls, quits or hangs up, with replies unsent or lost: each *)
(* lookup that was begun is reported as resolved or timed out to at most one *)
(* client and once, and not before a new one is waited for.                  *)
THEOREM LookupsAreConcludedOnce == Spec => []EachLookupIsConcludedOnce
<1>1. Init => Inv /\ Once
  BY InvInit, OnceInit
<1>2. Inv /\ Once /\ [Next]_vars => (Inv /\ Once)'
  BY InvNext, OnceNext
<1>3. Inv /\ Once => EachLookupIsConcludedOnce
  BY DEF Once
<1> QED
  BY <1>1, <1>2, <1>3, PTL DEF Spec

-----------------------------------------------------------------------------
(* The lines that are sent, sign by sign.                                    *)

(* The letters of lines, with the place e[k] where the k-th line ends.       *)
LaidOut(lines, n, t, e) ==
    /\ n \in Nat /\ t \in Seq(Sign) /\ lines \in Seq(Seq(Letter)) /\ Len(lines) = n
    /\ e \in [0..n -> Nat] /\ e[0] = 0 /\ e[n] = Len(t)
    /\ \A k \in 1..n :
          /\ e[k] = e[k - 1] + Len(lines[k]) + 1
          /\ t[e[k]] = EOL
          /\ \A j \in 1..Len(lines[k]) : t[e[k - 1] + j] = lines[k][j]

Ends(lines) == [k \in 0..Len(lines) |-> Len(LettersUpTo(lines, k))]

LEMMA LinesAreLaidOut ==
    ASSUME NEW lines \in Seq(Seq(Letter)), NEW n, n = Len(lines)
    PROVE  LaidOut(lines, n, LettersOf(lines), Ends(lines))
<1> DEFINE upTo == [k \in 0..n |-> LettersUpTo(lines, k)]
           e == Ends(lines)
           Extends(m) == \A k \in 0..m : \A j \in 1..e[k] : upTo[m][j] = upTo[k][j]
<1>1. n \in Nat /\ \A k \in 1..n : k \in 0..n /\ k - 1 \in 0..n /\ lines[k] \in Seq(Letter)
  OBVIOUS
<1>2. /\ upTo[0] = << >>
      /\ \A k \in 0..n : upTo[k] \in Seq(Sign)
      /\ \A k \in 1..n : upTo[k] = upTo[k - 1] \o Append(lines[k], EOL)
  <2>1. \A k \in 0..n : upTo[k] = LettersUpTo(lines, k)
    OBVIOUS
  <2> HIDE DEF upTo
  <2>2. 0 \in 0..n
    BY <1>1
  <2> QED
    BY <1>1, <2>1, <2>2, LettersUnfold
<1>3. DOMAIN e = 0..n /\ \A k \in 0..n : e[k] = Len(upTo[k])
  BY DEF Ends
<1>4. upTo[n] = LettersOf(lines)
  BY <1>1 DEF LettersOf
<1> HIDE DEF upTo, e
<1>5. \A k \in 0..n : e[k] \in Nat
  BY <1>2, <1>3
<1>6. ASSUME NEW k \in 1..n
      PROVE  /\ e[k] = e[k - 1] + Len(lines[k]) + 1
             /\ \A j \in 1..e[k - 1] : upTo[k][j] = upTo[k - 1][j]
             /\ \A j \in 1..Len(lines[k]) : upTo[k][e[k - 1] + j] = lines[k][j]
             /\ upTo[k][e[k]] = EOL
  <2>1. PICK a \in Seq(Sign) : a = upTo[k - 1]
    BY <1>1, <1>2
  <2>2. PICK l \in Seq(Letter) : l = lines[k]
    BY <1>1
  <2>3. l \in Seq(Sign) /\ EOL \in Sign
    BY DEF Sign
  <2>4. PICK b \in Seq(Sign) : b = Append(l, EOL)
    BY <2>3, AppendProperties
  <2>5. /\ Len(b) = Len(l) + 1 /\ Len(l) \in Nat
        /\ \A j \in 1..Len(l) : b[j] = l[j]
        /\ b[Len(l) + 1] = EOL
    BY <2>3, <2>4, AppendProperties
  <2>6. /\ Len(a \o b) = Len(a) + Len(b) /\ Len(a) \in Nat
        /\ \A j \in 1..(Len(a) + Len(b)) : (a \o b)[j] = IF j <= Len(a) THEN a[j] ELSE b[j - Len(a)]
    BY Joined
  <2>7. upTo[k] = a \o b /\ e[k] = Len(a \o b) /\ e[k - 1] = Len(a)
    BY <1>1, <1>2, <1>3, <2>1, <2>2, <2>4
  <2>8. \A j \in 1..e[k - 1] : upTo[k][j] = upTo[k - 1][j]
    BY <2>1, <2>5, <2>6, <2>7
  <2>9. \A j \in 1..(Len(l) + 1) : upTo[k][e[k - 1] + j] = b[j]
    <3> TAKE j \in 1..(Len(l) + 1)
    <3>1. Len(a) + j \in 1..(Len(a) + Len(b)) /\ ~(Len(a) + j <= Len(a)) /\ (Len(a) + j) - Len(a) = j
      <4>1. Len(b) = Len(l) + 1 /\ Len(a) \in Nat /\ Len(l) \in Nat
        BY <2>5, <2>6
      <4> QED
        BY <4>1
    <3>2. (a \o b)[Len(a) + j] = b[j]
      BY <2>6, <3>1
    <3>3. PICK q : q = e[k - 1] + j
      OBVIOUS
    <3>4. (a \o b)[q] = b[j]
      BY <2>7, <3>2, <3>3
    <3> QED
      BY <2>7, <3>3, <3>4
  <2>10. \A j \in 1..Len(l) : upTo[k][e[k - 1] + j] = l[j]
    <3> TAKE j \in 1..Len(l)
    <3>1. j \in 1..(Len(l) + 1) /\ b[j] = l[j]
      BY <2>5
    <3> QED
      BY <2>9, <3>1
  <2>11. upTo[k][e[k]] = EOL
    <3>1. Len(l) + 1 \in 1..(Len(l) + 1) /\ e[k] = e[k - 1] + (Len(l) + 1)
      BY <2>5, <2>6, <2>7
    <3> QED
      BY <2>5, <2>9, <3>1
  <2>12. e[k] = e[k - 1] + Len(l) + 1
    BY <2>5, <2>6, <2>7
  <2> QED
    BY <2>2, <2>8, <2>10, <2>11, <2>12
<1>12. \A k \in 0..n : \A m \in 0..n : k <= m => e[k] <= e[m]
  <2> SUFFICES ASSUME NEW k \in 0..n PROVE \A m \in 0..n : k <= m => e[k] <= e[m]
    OBVIOUS
  <2> DEFINE Longer == {i \in Nat : k + i <= n => e[k] <= e[k + i]}
  <2>1. 0 \in Longer
    BY <1>1, <1>5
  <2>2. \A i \in Nat : i \in Longer => i + 1 \in Longer
    <3> SUFFICES ASSUME NEW i \in Nat, i \in Longer, k + (i + 1) <= n PROVE e[k] <= e[k + (i + 1)]
      OBVIOUS
    <3>1. k + (i + 1) \in 1..n /\ (k + (i + 1)) - 1 = k + i /\ k + i \in 0..n
      BY <1>1
    <3>2. PICK j \in 1..n : j = k + (i + 1)
      BY <3>1
    <3>3. e[j] = e[j - 1] + Len(lines[j]) + 1 /\ Len(lines[j]) \in Nat
      BY <1>1, <1>6
    <3>4. e[k] \in Nat /\ e[j] \in Nat /\ e[j - 1] \in Nat /\ e[k] <= e[j - 1]
      BY <1>1, <1>5, <3>1, <3>2
    <3>5. e[k] <= e[j]
      BY <3>3, <3>4
    <3> QED
      BY <3>2, <3>5
  <2> HIDE DEF Longer
  <2>3. Nat \subseteq Longer
    BY <2>1, <2>2, Induct
  <2>4. ASSUME NEW m \in 0..n, k <= m PROVE e[k] <= e[m]
    <3>1. m - k \in Nat /\ k + (m - k) = m /\ m <= n
      BY <1>1, <2>4
    <3> QED
      BY <2>3, <3>1 DEF Longer
  <2> QED
    BY <2>4
<1>7. \A m \in 0..n : Extends(m)
  <2> DEFINE Good == {m \in Nat : m <= n => Extends(m)}
  <2>1. 0 \in Good
    BY <1>1 DEF Extends
  <2>2. ASSUME NEW m \in Nat, m + 1 <= n, Extends(m) PROVE Extends(m + 1)
    <3> SUFFICES ASSUME NEW k \in 0..(m + 1), NEW j \in 1..e[k]
                 PROVE  upTo[m + 1][j] = upTo[k][j]
      OBVIOUS
    <3>1. m + 1 \in 1..n /\ (m + 1) - 1 = m /\ m \in 0..n
      BY <1>1, <2>2
    <3>2. CASE k = m + 1
      BY <3>2
    <3>3. CASE k # m + 1
      <4>1. k \in 0..m /\ upTo[m][j] = upTo[k][j]
        BY <1>1, <2>2, <3>3
      <4>2. j \in 1..e[m]
        <5>1. k \in 0..n /\ e[k] <= e[m] /\ e[k] \in Nat /\ e[m] \in Nat
          BY <1>1, <1>5, <1>12, <3>1, <4>1
        <5> QED
          BY <5>1
      <4>3. PICK b \in 1..n : b = m + 1
        BY <3>1
      <4>4. upTo[b][j] = upTo[b - 1][j]
        BY <1>6, <3>1, <4>2, <4>3
      <4> QED
        BY <3>1, <4>1, <4>3, <4>4
    <3> QED
      BY <3>2, <3>3
  <2> HIDE DEF Extends
  <2>4. \A m \in Nat : m \in Good => m + 1 \in Good
    BY <1>1, <2>2
  <2> HIDE DEF Good
  <2>3. Nat \subseteq Good
    BY <2>1, <2>4, Induct
  <2> QED
    BY <1>1, <2>3 DEF Good
<1> DEFINE t == LettersOf(lines)
<1>8. t \in Seq(Sign) /\ e[n] = Len(t) /\ t = upTo[n]
  BY <1>1, <1>2, <1>3, <1>4
<1>9. e \in [0..n -> Nat]
  BY <1>3, <1>5 DEF e, Ends
<1>10. e[0] = 0
  BY <1>1, <1>2, <1>3
<1> HIDE DEF t
<1>11. ASSUME NEW k \in 1..n
       PROVE  /\ e[k] = e[k - 1] + Len(lines[k]) + 1
              /\ t[e[k]] = EOL
              /\ \A j \in 1..Len(lines[k]) : t[e[k - 1] + j] = lines[k][j]
  <2>1. \A j \in 1..e[k] : t[j] = upTo[k][j]
    <3>1. n \in 0..n /\ k \in 0..n
      BY <1>1
    <3> QED
      BY <1>7, <1>8, <3>1
  <2>2. Len(lines[k]) \in Nat /\ e[k - 1] \in Nat /\ e[k] \in Nat
    BY <1>1, <1>5
  <2>3. PICK x \in Nat, y \in Nat, v \in Nat :
           x = e[k - 1] /\ y = e[k] /\ v = Len(lines[k]) /\ y = x + v + 1
    <3>1. e[k] = e[k - 1] + Len(lines[k]) + 1
      BY <1>6
    <3> QED
      BY ONLY <2>2, <3>1
  <2>4. y \in 1..y /\ \A j \in 1..v : x + j \in 1..y
    <3>1. x \in Nat /\ y \in Nat /\ v \in Nat /\ y = x + v + 1
      BY <2>3
    <3> QED
      BY ONLY <3>1
  <2>5. t[e[k]] = EOL
    <3>1. e[k] \in 1..e[k]
      BY <2>3, <2>4
    <3>2. t[e[k]] = upTo[k][e[k]]
      BY <2>1, <3>1
    <3> QED
      BY <1>6, <3>2
  <2>6. \A j \in 1..Len(lines[k]) : t[e[k - 1] + j] = lines[k][j]
    <3> TAKE j \in 1..Len(lines[k])
    <3>1. e[k - 1] + j \in 1..e[k]
      BY <2>3, <2>4
    <3>2. t[e[k - 1] + j] = upTo[k][e[k - 1] + j]
      BY <2>1, <3>1
    <3> QED
      BY <1>6, <3>2
  <2> QED
    BY <1>6, <2>5, <2>6
<1> QED
  BY <1>1, <1>8, <1>9, <1>10, <1>11 DEF LaidOut, t, e

LEMMA EndsGrow ==
    ASSUME NEW lines, NEW n, NEW t, NEW e, LaidOut(lines, n, t, e)
    PROVE  \A k \in 0..n : \A m \in 0..n : k < m => e[k] < e[m]
<1>1. /\ n \in Nat /\ \A k \in 0..n : e[k] \in Nat
      /\ \A k \in 1..n : e[k - 1] < e[k]
  <2>1. n \in Nat /\ e \in [0..n -> Nat] /\ \A k \in 1..n : Len(lines[k]) \in Nat
    BY DEF LaidOut
  <2>2. ASSUME NEW k \in 1..n PROVE e[k - 1] < e[k]
    <3>1. e[k] = e[k - 1] + Len(lines[k]) + 1
      BY DEF LaidOut
    <3>2. e[k] \in Nat /\ e[k - 1] \in Nat /\ Len(lines[k]) \in Nat
      BY <2>1
    <3> QED
      BY <3>1, <3>2
  <2> QED
    BY <2>1, <2>2
<1> SUFFICES ASSUME NEW k \in 0..n PROVE \A m \in 0..n : k < m => e[k] < e[m]
  OBVIOUS
<1> DEFINE Good == {i \in Nat : k + i <= n => e[k] <= e[k + i] /\ (i # 0 => e[k] < e[k + i])}
<1>2. 0 \in Good
  BY <1>1
<1>3. \A i \in Nat : i \in Good => i + 1 \in Good
  <2> SUFFICES ASSUME NEW i \in Nat, i \in Good, k + (i + 1) <= n PROVE e[k] < e[k + (i + 1)]
    BY <1>1
  <2>1. k + (i + 1) \in 1..n /\ (k + (i + 1)) - 1 = k + i /\ k + i \in 0..n
    BY <1>1
  <2> QED
    BY <1>1, <2>1
<1> HIDE DEF Good
<1>4. Nat \subseteq Good
  BY <1>2, <1>3, Induct
<1>5. ASSUME NEW m \in 0..n, k < m PROVE e[k] < e[m]
  <2>1. m - k \in Nat /\ k + (m - k) = m /\ m - k # 0 /\ m <= n
    BY <1>1, <1>5
  <2> QED
    BY <1>4, <2>1 DEF Good
<1> QED
  BY <1>5

(* Each sign belongs to a line. *)
LEMMA SignsOfLines ==
    ASSUME NEW lines, NEW n, NEW t, NEW e, LaidOut(lines, n, t, e),
           NEW r \in 0..n, NEW p \in 0..n, NEW q \in Nat, e[r] < q, q <= e[p]
    PROVE  \E k \in (r + 1)..p : e[k - 1] < q /\ q <= e[k]
<1>1. n \in Nat /\ \A k \in 0..n : e[k] \in Nat
  BY DEF LaidOut
<1> DEFINE T == {k \in 0..n : q <= e[k]}
<1>2. p \in T /\ T \in SUBSET Nat /\ T # {}
  BY <1>1
<1> HIDE DEF T
<1>3. PICK k \in T : \A m \in T : k <= m
  BY <1>2, Least
<1>4. k \in 0..n /\ q <= e[k] /\ k <= p
  BY <1>2, <1>3 DEF T
<1>5. r < k
  <2>1. CASE k <= r
    <3>1. e[k] <= e[r]
      BY <1>1, <1>4, <2>1, EndsGrow
    <3> QED
      BY <1>1, <1>4, <3>1
  <2> QED
    BY <1>4, <2>1
<1>6. k - 1 \in 0..n /\ k \in (r + 1)..p
  BY <1>1, <1>4, <1>5
<1>7. e[k - 1] < q
  <2>1. k - 1 \notin T
    BY <1>3, <1>4
  <2> QED
    BY <1>1, <1>6, <2>1 DEF T
<1> QED
  BY <1>4, <1>6, <1>7

(* A line ends where there is its end. *)
LEMMA EndsAreThere ==
    ASSUME NEW lines, NEW n, NEW t, NEW e, LaidOut(lines, n, t, e), NEW q \in 1..Len(t)
    PROVE  t[q] = EOL => \E k \in 1..n : q = e[k]
<1>1. n \in Nat /\ e[0] = 0 /\ e[n] = Len(t) /\ \A k \in 0..n : e[k] \in Nat
  BY DEF LaidOut
<1>2. PICK k \in (0 + 1)..n : e[k - 1] < q /\ q <= e[k]
  <2>1. 0 \in 0..n /\ n \in 0..n /\ q \in Nat /\ e[0] < q /\ q <= e[n]
    BY <1>1
  <2> QED
    BY <2>1, SignsOfLines
<1>3. ASSUME q # e[k] PROVE t[q] # EOL
  <2>1. k \in 1..n /\ k - 1 \in 0..n /\ lines[k] \in Seq(Letter) /\ Len(lines[k]) \in Nat
    BY <1>1 DEF LaidOut
  <2>2. e[k] = e[k - 1] + Len(lines[k]) + 1
    BY <2>1 DEF LaidOut
  <2> DEFINE j == q - e[k - 1]
  <2>3. j \in 1..Len(lines[k]) /\ e[k - 1] + j = q
    <3>1. PICK x \in Nat, y \in Nat, v \in Nat : x = e[k - 1] /\ y = e[k] /\ v = Len(lines[k])
      BY <1>1, <1>2, <2>1
    <3>2. y = x + v + 1 /\ x < q /\ q <= y /\ q # y /\ q \in Nat
      BY <1>2, <1>3, <2>2, <3>1
    <3>3. q - x \in 1..v /\ x + (q - x) = q
      BY <3>2
    <3> QED
      BY <3>1, <3>3
  <2> HIDE DEF j
  <2>4. t[q] = lines[k][j] /\ lines[k][j] \in Letter
    <3>1. t[e[k - 1] + j] = lines[k][j]
      BY <2>1, <2>3 DEF LaidOut
    <3>2. lines[k][j] \in Letter
      BY <2>1, <2>3
    <3> QED
      BY <2>3, <3>1, <3>2
  <2> QED
    BY <2>4, LineAssumption
<1> QED
  BY <1>2, <1>3

(* A run of signs: those of t behind the a-th up to the b-th.                *)
IsRun(s, t, a, b) ==
    /\ s \in Seq(Sign) /\ a \in Nat /\ b \in Nat /\ a <= b /\ Len(s) = b - a
    /\ \A j \in 1..(b - a) : s[j] = t[a + j]

StrippedOf(held) ==
    LET i == SelectInSeq(held, LAMBDA l : l # EOL)
    IN  IF i = 0 THEN << >> ELSE SubSeq(held, i, Len(held))

EndIn(s) == SelectInSeq(s, LAMBDA l : l = EOL)

TextOf(s) == IF EndIn(s) = 0 THEN s ELSE SubSeq(s, 1, EndIn(s) - 1)
RestOf(s) == IF EndIn(s) = 0 THEN s ELSE SubSeq(s, EndIn(s) + 1, Len(s))

LEMMA LeastIsMin ==
    ASSUME NEW n \in Nat, NEW I \in SUBSET (1..n), I # {}
    PROVE  Min(I) \in I /\ \A i \in I : Min(I) <= i
<1>1. I \in SUBSET Nat
  OBVIOUS
<1> QED
  BY <1>1, Least DEF Min

LEMMA StrippedSigns ==
    ASSUME NEW held \in Seq(Sign), NEW n, n = Len(held)
    PROVE  \/ StrippedOf(held) = << >> /\ \A j \in 1..n : held[j] = EOL
           \/ \E i \in 1..n : /\ held[i] # EOL
                              /\ \A j \in 1..(i - 1) : held[j] = EOL
                              /\ StrippedOf(held) = SubSeq(held, i, n)
<1> DEFINE I == {i \in 1..Len(held) : held[i] # EOL}
           first == SelectInSeq(held, LAMBDA l : l # EOL)
<1>1. first = IF I # {} THEN Min(I) ELSE 0
  BY DEF SelectInSeq
<1>2. StrippedOf(held) = IF first = 0 THEN << >> ELSE SubSeq(held, first, n)
  BY DEF StrippedOf
<1>3. n \in Nat /\ I \in SUBSET (1..n) /\ \A j \in 1..n : j \in I <=> held[j] # EOL
  OBVIOUS
<1> HIDE DEF I, first
<1>4. CASE I = {}
  BY <1>1, <1>2, <1>3, <1>4
<1>5. CASE I # {}
  <2>1. first \in I /\ \A i \in I : first <= i
    BY <1>1, <1>3, <1>5, LeastIsMin
  <2>2. first \in 1..n /\ held[first] # EOL
    BY <1>3, <2>1
  <2>3. \A j \in 1..(first - 1) : held[j] = EOL
    BY <1>3, <2>1, <2>2
  <2> QED
    BY <1>2, <2>2, <2>3
<1> QED
  BY <1>4, <1>5

LEMMA EndOfSigns ==
    ASSUME NEW s \in Seq(Sign), NEW k \in 1..Len(s), s[k] = EOL, \A j \in 1..(k - 1) : s[j] # EOL
    PROVE  EndIn(s) = k
<1> DEFINE I == {i \in 1..Len(s) : s[i] = EOL}
<1>1. EndIn(s) = IF I # {} THEN Min(I) ELSE 0
  BY DEF SelectInSeq, EndIn
<1>2. Len(s) \in Nat /\ I \in SUBSET (1..Len(s)) /\ \A j \in 1..Len(s) : j \in I <=> s[j] = EOL
  OBVIOUS
<1> HIDE DEF I
<1>3. k \in I
  BY <1>2
<1>4. Min(I) \in I /\ \A i \in I : Min(I) <= i
  BY <1>2, <1>3, LeastIsMin
<1>5. Min(I) = k
  <2>1. PICK i \in 1..Len(s) : i = Min(I)
    BY <1>2, <1>4
  <2>2. i <= k /\ s[i] = EOL
    BY <1>2, <1>3, <1>4, <2>1
  <2>3. ~(i <= k - 1)
    BY <2>2
  <2> QED
    BY <2>1, <2>2, <2>3
<1> QED
  BY <1>1, <1>3, <1>5

(* A run of a run. *)
LEMMA RunOfRun ==
    ASSUME NEW s, NEW t, NEW a, NEW b, IsRun(s, t, a, b),
           NEW i \in Nat, NEW d, d = a + i, d <= b, NEW l \in Int, l = i + 1, NEW m, m = Len(s)
    PROVE  IsRun(SubSeq(s, l, m), t, d, b)
<1>1. /\ s \in Seq(Sign) /\ a \in Nat /\ b \in Nat /\ a <= b /\ m = b - a
      /\ \A j \in 1..(b - a) : s[j] = t[a + j]
  BY DEF IsRun
<1>2. PICK v \in Nat : v = b - d
  BY <1>1
<1>3. PICK r \in Int : r = m /\ r = i + v /\ i + v <= Len(s)
  BY <1>1, <1>2
<1>7. /\ SubSeq(s, l, r) \in Seq(Sign) /\ Len(SubSeq(s, l, r)) = v
      /\ \A j \in 1..v : SubSeq(s, l, r)[j] = s[i + j]
  <2>1. s \in Seq(Sign) /\ i \in Nat /\ v \in Nat /\ l \in Int /\ r \in Int
    BY <1>1
  <2>2. i + v <= Len(s) /\ l = i + 1 /\ r = i + v
    BY <1>3
  <2> QED
    BY ONLY <2>1, <2>2, Prefix
<1>4. /\ SubSeq(s, l, m) \in Seq(Sign) /\ Len(SubSeq(s, l, m)) = v
      /\ \A j \in 1..v : SubSeq(s, l, m)[j] = s[i + j]
  BY <1>3, <1>7
<1> DEFINE u == SubSeq(s, l, m)
<1> HIDE DEF u
<1>5. \A j \in 1..v : u[j] = t[d + j]
  <2> TAKE j \in 1..v
  <2>1. i + j \in 1..(b - a) /\ a + (i + j) = d + j
    BY <1>1, <1>2
  <2>2. u[j] = s[i + j]
    BY <1>4 DEF u
  <2>3. s[i + j] = t[a + (i + j)]
    BY <1>1, <2>1
  <2> QED
    BY <2>1, <2>2, <2>3
<1>6. d \in Nat /\ u \in Seq(Sign) /\ Len(u) = b - d
  BY <1>1, <1>2, <1>4 DEF u
<1> QED
  BY <1>1, <1>2, <1>5, <1>6 DEF IsRun, u

LEMMA RunsJoin ==
    ASSUME NEW s, NEW u, NEW t, NEW a, NEW b, NEW d, IsRun(s, t, a, b), IsRun(u, t, b, d)
    PROVE  IsRun(s \o u, t, a, d)
<1>1. /\ s \in Seq(Sign) /\ u \in Seq(Sign) /\ a \in Nat /\ b \in Nat /\ d \in Nat /\ a <= b /\ b <= d
      /\ Len(s) = b - a /\ Len(u) = d - b
      /\ \A j \in 1..(b - a) : s[j] = t[a + j]
      /\ \A j \in 1..(d - b) : u[j] = t[b + j]
  BY DEF IsRun
<1> DEFINE p == b - a
           q == d - b
<1>3. p \in Nat /\ q \in Nat /\ p + q = d - a /\ a + p = b /\ Len(s) = p /\ Len(u) = q
  BY <1>1
<1>7. \A j \in 1..(p + q) : ~(j <= p) => j - p \in 1..(d - b) /\ b + (j - p) = a + j
  BY <1>1
<1>8. \A j \in 1..(p + q) : j <= p => j \in 1..(b - a)
  BY <1>1
<1> HIDE DEF p, q
<1>2. /\ s \o u \in Seq(Sign) /\ Len(s \o u) = p + q
      /\ \A j \in 1..(p + q) : (s \o u)[j] = IF j <= p THEN s[j] ELSE u[j - p]
  <2>1. s \in Seq(Sign) /\ u \in Seq(Sign)
    BY <1>1
  <2>2. Len(s) = p /\ Len(u) = q
    BY <1>3
  <2> QED
    BY ONLY <2>1, <2>2, Joined
<1> DEFINE w == s \o u
<1> HIDE DEF w
<1>4. \A j \in 1..(p + q) : w[j] = t[a + j]
  <2> TAKE j \in 1..(p + q)
  <2>1. CASE j <= p
    BY <1>1, <1>2, <1>8, <2>1 DEF w
  <2>2. CASE ~(j <= p)
    <3>1. j - p \in 1..(d - b) /\ b + (j - p) = a + j
      BY <1>7, <2>2
    <3>2. w[j] = u[j - p]
      BY <1>2, <2>2 DEF w
    <3>3. u[j - p] = t[b + (j - p)]
      BY <1>1, <3>1
    <3> QED
      BY <3>1, <3>2, <3>3
  <2> QED
    BY <2>1, <2>2
<1>5. w \in Seq(Sign) /\ Len(w) = d - a /\ a <= d
  BY <1>1, <1>2, <1>3 DEF w
<1>6. \A j \in 1..(d - a) : w[j] = t[a + j]
  BY <1>3, <1>4
<1> QED
  BY <1>1, <1>5, <1>6 DEF IsRun, w

LEMMA EmptyLinesAreEnds ==
    ASSUME NEW lines, NEW n, NEW t, NEW e, LaidOut(lines, n, t, e),
           NEW r \in 0..n, NEW p \in 0..n, \A k \in (r + 1)..p : lines[k] = << >>,
           NEW q \in Nat, e[r] < q, q <= e[p]
    PROVE  t[q] = EOL
<1>1. PICK k \in (r + 1)..p : e[k - 1] < q /\ q <= e[k]
  BY SignsOfLines
<1>2. n \in Nat /\ k \in 1..n /\ k - 1 \in 0..n /\ k \in 0..n
  BY <1>1 DEF LaidOut
<1>3. e[k] = e[k - 1] + Len(lines[k]) + 1 /\ t[e[k]] = EOL /\ e[k] \in Nat /\ e[k - 1] \in Nat
  BY <1>2 DEF LaidOut
<1>4. Len(lines[k]) = 0
  <2>1. lines[k] = << >>
    BY <1>1
  <2> QED
    BY <2>1
<1>5. q = e[k]
  BY <1>1, <1>3, <1>4
<1> QED
  BY <1>3, <1>5

(* What is held from the end of one line to that of another: if not all of   *)
(* these lines are empty, the first that is not is taken.                    *)
LEMMA TextOfHeld ==
    ASSUME NEW lines, NEW n, NEW t, NEW e, LaidOut(lines, n, t, e),
           NEW r \in 0..n, NEW p \in 0..n, r <= p, NEW held, IsRun(held, t, e[r], e[p])
    PROVE  \/ StrippedOf(held) = << >> /\ \A k \in (r + 1)..p : lines[k] = << >>
           \/ \E k \in (r + 1)..p :
                 /\ \A i \in (r + 1)..(k - 1) : lines[i] = << >>
                 /\ lines[k] # << >> /\ StrippedOf(held) # << >>
                 /\ TextOf(StrippedOf(held)) = lines[k]
                 /\ IsRun(RestOf(StrippedOf(held)), t, e[k], e[p])
<1> DEFINE m == Len(held)
           Some == {k \in (r + 1)..p : lines[k] # << >>}
<1>1. /\ n \in Nat /\ lines \in Seq(Seq(Letter)) /\ Len(lines) = n
      /\ \A k \in 0..n : e[k] \in Nat
      /\ \A k \in 1..n : lines[k] \in Seq(Letter)
  BY DEF LaidOut
<1>2. /\ held \in Seq(Sign) /\ e[r] <= e[p] /\ m = e[p] - e[r] /\ m \in Nat
      /\ \A j \in 1..m : held[j] = t[e[r] + j]
  BY <1>1 DEF IsRun
<1> HIDE DEF m
<1>3. \/ StrippedOf(held) = << >> /\ \A j \in 1..m : held[j] = EOL
      \/ \E i \in 1..m : /\ held[i] # EOL
                         /\ \A j \in 1..(i - 1) : held[j] = EOL
                         /\ StrippedOf(held) = SubSeq(held, i, m)
  BY <1>2, StrippedSigns DEF m
<1>4. CASE Some = {}
  <2>1. \A k \in (r + 1)..p : lines[k] = << >>
    BY <1>4
  <2>2. \A j \in 1..m : held[j] = EOL
    <3> TAKE j \in 1..m
    <3>1. e[r] + j \in Nat /\ e[r] < e[r] + j /\ e[r] + j <= e[p]
      BY <1>1, <1>2
    <3>2. t[e[r] + j] = EOL
      BY <2>1, <3>1, EmptyLinesAreEnds
    <3> QED
      BY <1>2, <3>2
  <2> QED
    BY <1>3, <2>1, <2>2
<1>5. CASE Some # {}
  <2>1. PICK k \in Some : \A i \in Some : k <= i
    <3>1. Some \in SUBSET Nat
      BY <1>1
    <3> HIDE DEF Some
    <3> QED
      BY <1>5, <3>1, Least
  <2>2. k \in (r + 1)..p /\ k \in 1..n /\ k - 1 \in 0..n /\ k \in 0..n /\ lines[k] # << >>
    BY <1>1, <2>1
  <2>3. \A i \in (r + 1)..(k - 1) : lines[i] = << >>
    BY <1>1, <2>1, <2>2
  <2> HIDE DEF Some
  <2>4. PICK v \in Nat : v = Len(lines[k]) /\ v # 0
    BY <1>1, <2>2, EmptySeq
  <2>5. /\ e[k] = e[k - 1] + v + 1 /\ t[e[k]] = EOL
        /\ \A j \in 1..v : t[e[k - 1] + j] = lines[k][j]
    BY <2>2, <2>4 DEF LaidOut
  <2>6. e[r] <= e[k - 1] /\ e[k] <= e[p] /\ e[k - 1] \in Nat /\ e[k] \in Nat
    <3>1. r < k - 1 \/ r = k - 1
      BY <1>1, <2>2
    <3>2. k < p \/ k = p
      BY <1>1, <2>2
    <3>3. (r < k - 1 => e[r] < e[k - 1]) /\ (k < p => e[k] < e[p])
      BY <2>2, EndsGrow
    <3>4. e[r] \in Nat /\ e[p] \in Nat /\ e[k - 1] \in Nat /\ e[k] \in Nat
      BY <1>1, <2>2
    <3>5. (r = k - 1 => e[r] = e[k - 1]) /\ (k = p => e[k] = e[p])
      OBVIOUS
    <3> QED
      BY <3>1, <3>2, <3>3, <3>4, <3>5
  <2>20. PICK x \in Nat, y \in Nat, z \in Nat, w \in Nat :
            /\ x = e[k - 1] /\ y = e[k] /\ z = e[r] /\ w = e[p]
            /\ y = x + v + 1 /\ z <= x /\ y <= w /\ m = w - z
    BY <1>1, <1>2, <2>5, <2>6
  <2> DEFINE i == e[k - 1] - e[r]
  <2>7. i \in Nat /\ i + 1 \in 1..m /\ e[r] + (i + 1) = e[k - 1] + 1 /\ e[k - 1] = e[r] + i
    <3>1. i = x - z
      BY <2>20
    <3> HIDE DEF i
    <3>2. i \in Nat /\ i + 1 \in 1..m /\ z + (i + 1) = x + 1 /\ x = z + i
      BY <2>20, <3>1
    <3> QED
      BY <2>20, <3>2
  <2>8. held[i + 1] # EOL
    <3>1. 1 \in 1..v
      BY <2>4
    <3>2. lines[k][1] \in Letter
      BY <1>1, <2>2, <2>4
    <3>3. held[i + 1] = lines[k][1]
      BY <1>2, <2>5, <2>7, <3>1
    <3> QED
      BY <3>2, <3>3, LineAssumption
  <2>9. \A j \in 1..i : held[j] = EOL
    <3> TAKE j \in 1..i
    <3>1. e[r] + j \in Nat /\ e[r] < e[r] + j /\ e[r] + j <= e[k - 1] /\ j \in 1..m
      <4>1. j \in 1..i /\ z + j \in Nat /\ i = x - z
        BY <2>20
      <4> HIDE DEF i
      <4>2. z < z + j /\ z + j <= x /\ j \in 1..m
        BY <2>20, <4>1
      <4> QED
        BY <2>20, <4>1, <4>2
    <3>2. t[e[r] + j] = EOL
      BY <2>2, <2>3, <3>1, EmptyLinesAreEnds
    <3> QED
      BY <1>2, <3>1, <3>2
  <2> HIDE DEF i
  <2>10. StrippedOf(held) = SubSeq(held, i + 1, m)
    <3>1. PICK b \in 1..m : /\ held[b] # EOL
                            /\ \A j \in 1..(b - 1) : held[j] = EOL
                            /\ StrippedOf(held) = SubSeq(held, b, m)
      BY <1>3, <2>7, <2>8
    <3>2. ~(b <= i)
      BY <2>7, <2>9, <3>1
    <3>3. ~(i + 1 <= b - 1)
      BY <2>7, <2>8, <3>1
    <3>4. b = i + 1
      <4>1. PICK h \in Int : h = i
        BY <2>7
      <4> QED
        BY <3>1, <3>2, <3>3, <4>1
    <3> QED
      BY <3>1, <3>4
  <2> DEFINE s == StrippedOf(held)
  <2>11. IsRun(s, t, e[k - 1], e[p])
    <3>1. PICK d \in Nat : d = e[k - 1] /\ d <= e[p] /\ d = e[r] + i
      <4>1. x <= w
        BY <2>20
      <4>2. x = e[k - 1] /\ x <= e[p] /\ x = e[r] + i
        BY <2>7, <2>20, <4>1
      <4> QED
        BY <4>2
    <3>2. PICK l \in Int : l = i + 1
      BY <2>7
    <3>3. IsRun(SubSeq(held, l, m), t, d, e[p])
      BY <2>7, <3>1, <3>2, RunOfRun DEF m
    <3> QED
      BY <2>10, <3>1, <3>2, <3>3
  <2> HIDE DEF s
  <2>12. /\ s \in Seq(Sign) /\ Len(s) = e[p] - e[k - 1] /\ Len(s) \in Nat
         /\ \A j \in 1..Len(s) : s[j] = t[e[k - 1] + j]
    BY <1>1, <2>2, <2>11 DEF IsRun
  <2>13. /\ v + 1 \in 1..Len(s) /\ s[v + 1] = EOL
         /\ \A j \in 1..v : s[j] = lines[k][j] /\ s[j] # EOL
    <3>1. v + 1 \in 1..Len(s) /\ e[k - 1] + (v + 1) = e[k]
      <4>1. v + 1 \in 1..(w - x) /\ x + (v + 1) = y
        BY <2>20
      <4> QED
        BY <2>12, <2>20, <4>1
    <3>2. s[v + 1] = t[e[k - 1] + (v + 1)]
      BY <2>12, <3>1
    <3>3. ASSUME NEW j \in 1..v PROVE s[j] = lines[k][j] /\ s[j] # EOL
      <4>1. j \in 1..Len(s)
        BY <2>4, <2>12, <3>1
      <4>2. lines[k][j] \in Letter
        BY <1>1, <2>2, <2>4
      <4>3. s[j] = lines[k][j]
        BY <2>5, <2>12, <4>1
      <4> QED
        BY <4>2, <4>3, LineAssumption
    <3> QED
      BY <2>5, <3>1, <3>2, <3>3
  <2>14. EndIn(s) = v + 1
    <3>1. PICK l \in 1..Len(s) : l = v + 1
      BY <2>13
    <3>2. \A j \in 1..(l - 1) : s[j] # EOL
      BY <2>4, <2>13, <3>1
    <3>3. s[l] = EOL
      BY <2>13, <3>1
    <3> QED
      BY <2>12, <3>1, <3>2, <3>3, EndOfSigns
  <2>15. TextOf(s) = lines[k]
    <3>1. TextOf(s) = SubSeq(s, 1, v)
      BY <2>4, <2>14 DEF TextOf
    <3>2. 0 \in Nat /\ 0 + v <= Len(s) /\ 1 \in Int /\ 1 = 0 + 1 /\ v \in Int /\ v = 0 + v
      BY <2>4, <2>12, <2>13
    <3>3. s \in Seq(Sign) /\ v \in Nat
      BY <2>12
    <3>4. /\ SubSeq(s, 1, v) \in Seq(Sign) /\ Len(SubSeq(s, 1, v)) = v
          /\ \A j \in 1..v : SubSeq(s, 1, v)[j] = s[0 + j]
      BY ONLY <3>2, <3>3, Prefix
    <3>5. PICK f \in Seq(Sign) : f = SubSeq(s, 1, v)
      BY <3>4
    <3>6. PICK u \in Seq(Letter) : u = lines[k]
      BY <1>1, <2>2
    <3>7. Len(f) = v /\ u = [j \in 1..v |-> u[j]] /\ \A j \in 1..v : f[j] = u[j]
      <4>1. \A j \in 1..v : f[j] = s[0 + j] /\ 0 + j = j
        BY <2>4, <3>4, <3>5
      <4>2. u = [j \in 1..v |-> u[j]]
        BY <2>4, <3>6
      <4> QED
        BY <2>13, <3>4, <3>5, <3>6, <4>1, <4>2
    <3>8. f = u
      BY <3>7, SameItems
    <3> QED
      BY <3>1, <3>5, <3>6, <3>8
  <2>16. IsRun(RestOf(s), t, e[k], e[p])
    <3>1. RestOf(s) = SubSeq(s, v + 2, Len(s))
      <4>1. EndIn(s) # 0 /\ EndIn(s) + 1 = v + 2
        BY <2>4, <2>14
      <4> QED
        BY <4>1 DEF RestOf
    <3>2. PICK i2 \in Nat, l \in Int : i2 = v + 1 /\ l = v + 2 /\ l = i2 + 1
      BY <2>4
    <3>3. PICK d \in Nat : d = e[k] /\ d = e[k - 1] + i2 /\ d <= e[p]
      BY <2>20, <3>2
    <3>4. IsRun(SubSeq(s, l, Len(s)), t, d, e[p])
      BY <2>11, <3>2, <3>3, RunOfRun
    <3> QED
      BY <3>1, <3>2, <3>3, <3>4
  <2>17. s # << >>
    BY <2>12, <2>13
  <2> QED
    BY <2>2, <2>3, <2>15, <2>16, <2>17 DEF s
<1> QED
  BY <1>4, <1>5

-----------------------------------------------------------------------------
(* Commands among lines, and the replies to them.                            *)

LEMMA CommandsUnfold ==
    ASSUME NEW lines \in Seq(Seq(Letter))
    PROVE  /\ CommandsUpTo(lines, 0) = << >>
           /\ \A k \in 0..Len(lines) : CommandsUpTo(lines, k) \in Seq(Seq(Letter))
           /\ \A k \in 1..Len(lines) :
                 CommandsUpTo(lines, k) =
                    IF lines[k] = << >> \/ Meaning(lines[k]).do = "blank" THEN CommandsUpTo(lines, k - 1)
                    ELSE Append(CommandsUpTo(lines, k - 1), lines[k])
<1> DEFINE n == Len(lines)
           X == Seq(Seq(Letter))
           Further(t, i) == IF lines[i] = << >> \/ Meaning(lines[i]).do = "blank" THEN t
                            ELSE Append(t, lines[i])
           Is(f) == f = [i \in 0..n |-> IF i = 0 THEN << >> ELSE Further(f[i - 1], i)]
           step == [p \in X \X Nat |-> IF p[2] \in 1..n THEN Further(p[1], p[2]) ELSE p[1]]
<1>1. n \in Nat /\ << >> \in X
  OBVIOUS
<1>2. \A t \in X, i \in 1..n : Further(t, i) \in X
  <2> TAKE t \in X, i \in 1..n
  <2>1. lines[i] \in Seq(Letter)
    OBVIOUS
  <2> QED
    BY <2>1, AppendProperties
<1> HIDE DEF Further, X
<1>3. step \in [X \X Nat -> X]
  BY <1>2
<1>4. \A t \in X, i \in 1..n : step[<<t, i>>] = Further(t, i)
  OBVIOUS
<1> HIDE DEF n, step
<1>5. PICK f \in [0..n -> X] : Recurs(f, n, << >>, step)
  BY <1>1, <1>3, Recursion
<1>6. Is(f)
  <2>1. \A i \in 0..n : i # 0 => f[i - 1] \in X /\ i \in 1..n
    BY <1>1
  <2>2. \A i \in 0..n :
           (IF i = 0 THEN << >> ELSE step[<<f[i - 1], i>>]) = (IF i = 0 THEN << >> ELSE Further(f[i - 1], i))
    BY <1>4, <2>1
  <2> QED
    BY <1>5, <2>2 DEF Recurs
<1> DEFINE upTo == CHOOSE g : Is(g)
<1>7. Is(upTo)
  BY <1>6
<1>8. \A k : CommandsUpTo(lines, k) = upTo[k]
  BY DEF CommandsUpTo, n, Further
<1> HIDE DEF upTo
<1>9. upTo[0] = << >> /\ \A i \in 1..n : upTo[i] = Further(upTo[i - 1], i)
  BY <1>1, <1>7
<1>10. \A i \in 0..n : upTo[i] \in X
  BY <1>1, <1>2, <1>9, StaysIn
<1> QED
  BY <1>8, <1>9, <1>10 DEF n, X, Further

LEMMA OwnUnfold ==
    ASSUME NEW R, NEW replies \in Seq(R)
    PROVE  /\ OwnUpTo(replies, 0) = << >>
           /\ \A k \in 0..Len(replies) : OwnUpTo(replies, k) \in Seq(R)
           /\ \A k \in 1..Len(replies) :
                 OwnUpTo(replies, k) =
                    IF IsConclusion(replies[k]) THEN OwnUpTo(replies, k - 1)
                    ELSE Append(OwnUpTo(replies, k - 1), replies[k])
<1> DEFINE n == Len(replies)
           X == Seq(R)
           Further(t, i) == IF IsConclusion(replies[i]) THEN t ELSE Append(t, replies[i])
           Is(f) == f = [i \in 0..n |-> IF i = 0 THEN << >> ELSE Further(f[i - 1], i)]
           step == [p \in X \X Nat |-> IF p[2] \in 1..n THEN Further(p[1], p[2]) ELSE p[1]]
<1>1. n \in Nat /\ << >> \in X
  OBVIOUS
<1>2. \A t \in X, i \in 1..n : Further(t, i) \in X
  <2> TAKE t \in X, i \in 1..n
  <2>1. replies[i] \in R
    OBVIOUS
  <2> QED
    BY <2>1, AppendProperties
<1> HIDE DEF Further, X
<1>3. step \in [X \X Nat -> X]
  BY <1>2
<1>4. \A t \in X, i \in 1..n : step[<<t, i>>] = Further(t, i)
  OBVIOUS
<1> HIDE DEF n, step
<1>5. PICK f \in [0..n -> X] : Recurs(f, n, << >>, step)
  BY <1>1, <1>3, Recursion
<1>6. Is(f)
  <2>1. \A i \in 0..n : i # 0 => f[i - 1] \in X /\ i \in 1..n
    BY <1>1
  <2>2. \A i \in 0..n :
           (IF i = 0 THEN << >> ELSE step[<<f[i - 1], i>>]) = (IF i = 0 THEN << >> ELSE Further(f[i - 1], i))
    BY <1>4, <2>1
  <2> QED
    BY <1>5, <2>2 DEF Recurs
<1> DEFINE upTo == CHOOSE g : Is(g)
<1>7. Is(upTo)
  BY <1>6
<1>8. \A k : OwnUpTo(replies, k) = upTo[k]
  BY DEF OwnUpTo, n, Further
<1> HIDE DEF upTo
<1>9. upTo[0] = << >> /\ \A i \in 1..n : upTo[i] = Further(upTo[i - 1], i)
  BY <1>1, <1>7
<1>10. \A i \in 0..n : upTo[i] \in X
  BY <1>1, <1>2, <1>9, StaysIn
<1> QED
  BY <1>8, <1>9, <1>10 DEF n, X, Further

(* u begins with s. *)
Starts(s, u) == Len(s) <= Len(u) /\ \A i \in 1..Len(s) : u[i] = s[i]

LEMMA AppendStarts ==
    ASSUME NEW R, NEW s \in Seq(R), NEW r \in R
    PROVE  Starts(s, Append(s, r))
BY AppendProperties DEF Starts

LEMMA StartsOn ==
    ASSUME NEW R, NEW s \in Seq(R), NEW u \in Seq(R), NEW v \in Seq(R), Starts(s, u), Starts(u, v)
    PROVE  Starts(s, v)
<1>1. Len(s) \in Nat /\ Len(u) \in Nat /\ Len(v) \in Nat
  OBVIOUS
<1>2. Len(s) <= Len(u) /\ Len(u) <= Len(v)
  BY DEF Starts
<1>3. \A i \in 1..Len(s) : i \in 1..Len(u)
  BY <1>1, <1>2
<1> QED
  BY <1>1, <1>2, <1>3 DEF Starts

(* A list that only grows begins with what it was.                           *)
LEMMA GrowsFrom ==
    ASSUME NEW R, NEW n \in Nat, NEW f, \A i \in 0..n : f[i] \in Seq(R),
           \A i \in 1..n : Starts(f[i - 1], f[i]),
           NEW a \in 0..n, NEW b \in 0..n, a <= b
    PROVE  Starts(f[a], f[b])
<1> DEFINE Good == {i \in Nat : a + i <= n => Starts(f[a], f[a + i])}
<1>1. 0 \in Good
  <2>1. a + 0 = a /\ f[a] \in Seq(R)
    OBVIOUS
  <2>2. Len(f[a]) \in Nat
    BY <2>1
  <2>3. Starts(f[a], f[a])
    BY <2>2 DEF Starts
  <2> QED
    BY <2>1, <2>3
<1>2. \A i \in Nat : i \in Good => i + 1 \in Good
  <2> SUFFICES ASSUME NEW i \in Nat, i \in Good, a + (i + 1) <= n
               PROVE  Starts(f[a], f[a + (i + 1)])
    OBVIOUS
  <2>1. PICK j \in 1..n : j = a + (i + 1)
    OBVIOUS
  <2>2. j - 1 = a + i /\ a + i <= n /\ j - 1 \in 0..n /\ j \in 0..n
    BY <2>1
  <2>3. Starts(f[a], f[j - 1]) /\ Starts(f[j - 1], f[j])
    BY <2>1, <2>2
  <2>4. f[a] \in Seq(R) /\ f[j - 1] \in Seq(R) /\ f[j] \in Seq(R)
    BY <2>2
  <2> QED
    BY <2>1, <2>3, <2>4, StartsOn
<1> HIDE DEF Good
<1>3. Nat \subseteq Good
  BY <1>1, <1>2, Induct
<1>4. b - a \in Nat /\ a + (b - a) = b /\ b <= n
  OBVIOUS
<1> QED
  BY <1>3, <1>4 DEF Good

LEMMA CommandsGrow ==
    ASSUME NEW lines \in Seq(Seq(Letter)), NEW n, n = Len(lines),
           NEW a \in 0..n, NEW b \in 0..n, a <= b
    PROVE  Starts(CommandsUpTo(lines, a), CommandsUpTo(lines, b))
<1> DEFINE R == Seq(Letter)
           f == [k \in 0..n |-> CommandsUpTo(lines, k)]
<1>1. n \in Nat /\ \A k \in 1..n : k \in 0..n /\ k - 1 \in 0..n
  OBVIOUS
<1>2. \A k \in 0..n : f[k] = CommandsUpTo(lines, k)
  OBVIOUS
<1>3. \A i \in 1..n : lines[i] \in R
  OBVIOUS
<1> HIDE DEF f, R
<1>4. \A k \in 0..n : f[k] \in Seq(R)
  BY <1>2, CommandsUnfold DEF R
<1>5. \A i \in 1..n : Starts(f[i - 1], f[i])
  <2> TAKE i \in 1..n
  <2>1. PICK s \in Seq(R) : s = f[i - 1]
    BY <1>1, <1>4
  <2>2. f[i] = s \/ f[i] = Append(s, lines[i])
    BY <1>1, <1>2, <2>1, CommandsUnfold
  <2>3. Starts(s, s)
    BY LenProperties DEF Starts
  <2>4. PICK l \in R : l = lines[i]
    BY <1>3
  <2>5. Starts(s, Append(s, l))
    BY AppendStarts
  <2> QED
    BY <2>1, <2>2, <2>3, <2>4, <2>5
<1>6. Starts(f[a], f[b])
  BY <1>1, <1>4, <1>5, GrowsFrom
<1> QED
  BY <1>2, <1>6

(* No command is in lines that are empty.                                    *)
LEMMA NoCommandInEmptyLines ==
    ASSUME NEW lines \in Seq(Seq(Letter)), NEW n, n = Len(lines),
           NEW a \in 0..n, NEW b \in 0..n, a <= b, \A i \in (a + 1)..b : lines[i] = << >>
    PROVE  CommandsUpTo(lines, b) = CommandsUpTo(lines, a)
<1> DEFINE Good == {i \in Nat : a + i <= b => CommandsUpTo(lines, a + i) = CommandsUpTo(lines, a)}
<1>1. 0 \in Good
  OBVIOUS
<1>2. \A i \in Nat : i \in Good => i + 1 \in Good
  <2> SUFFICES ASSUME NEW i \in Nat, i \in Good, a + (i + 1) <= b
               PROVE  CommandsUpTo(lines, a + (i + 1)) = CommandsUpTo(lines, a)
    OBVIOUS
  <2>1. PICK j \in 1..n : j = a + (i + 1)
    OBVIOUS
  <2>2. j - 1 = a + i /\ a + i <= b /\ j \in (a + 1)..b
    BY <2>1
  <2>3. CommandsUpTo(lines, j) = CommandsUpTo(lines, j - 1)
    BY <2>1, <2>2, CommandsUnfold
  <2> QED
    BY <2>1, <2>2, <2>3
<1> HIDE DEF Good
<1>3. Nat \subseteq Good
  BY <1>1, <1>2, Induct
<1>4. PICK i \in Nat : a + i = b /\ a + i <= b
  <2>1. b - a \in Nat /\ a + (b - a) = b /\ a + (b - a) <= b
    OBVIOUS
  <2> QED
    BY <2>1
<1>5. i \in Good
  BY <1>3
<1> QED
  BY <1>4, <1>5 DEF Good

(* The replies to lines among those of a list. *)

LEMMA OwnIsOfReplies ==
    ASSUME NEW R, NEW s \in Seq(R)
    PROVE  Own(s) \in Seq(R)
BY OwnUnfold, LenProperties DEF Own

(* Of a list that begins with another.                                       *)
LEMMA OwnStarts ==
    ASSUME NEW R, NEW s \in Seq(R), NEW u \in Seq(R), Starts(s, u)
    PROVE  OwnUpTo(u, Len(s)) = Own(s) /\ Starts(Own(s), Own(u))
<1> DEFINE n == Len(s)
           m == Len(u)
           Good == {k \in Nat : k <= n => OwnUpTo(u, k) = OwnUpTo(s, k)}
<1>1. n \in Nat /\ m \in Nat /\ n <= m /\ \A i \in 1..n : u[i] = s[i] /\ i \in 1..m
  BY DEF Starts
<1>2. 0 \in Good
  BY OwnUnfold
<1> HIDE DEF n, m
<1>3. \A k \in Nat : k \in Good => k + 1 \in Good
  <2> SUFFICES ASSUME NEW k \in Nat, k \in Good, k + 1 <= n
               PROVE  OwnUpTo(u, k + 1) = OwnUpTo(s, k + 1)
    OBVIOUS
  <2>1. PICK j \in 1..n : j = k + 1
    BY <1>1
  <2>2. j - 1 = k /\ k <= n /\ j \in 1..m /\ u[j] = s[j]
    BY <1>1, <2>1
  <2>3. OwnUpTo(u, j) = IF IsConclusion(u[j]) THEN OwnUpTo(u, j - 1) ELSE Append(OwnUpTo(u, j - 1), u[j])
    BY <2>2, OwnUnfold DEF m
  <2>4. OwnUpTo(s, j) = IF IsConclusion(s[j]) THEN OwnUpTo(s, j - 1) ELSE Append(OwnUpTo(s, j - 1), s[j])
    BY OwnUnfold DEF n
  <2>5. OwnUpTo(u, j - 1) = OwnUpTo(s, j - 1)
    BY <2>2
  <2> QED
    BY <2>1, <2>2, <2>3, <2>4, <2>5
<1> HIDE DEF Good
<1>4. Nat \subseteq Good
  BY <1>2, <1>3, Induct
<1>5. OwnUpTo(u, n) = Own(s)
  BY <1>1, <1>4 DEF Good, Own, n
<1> DEFINE f == [k \in 0..m |-> OwnUpTo(u, k)]
<1>6. \A k \in 0..m : f[k] = OwnUpTo(u, k)
  OBVIOUS
<1> HIDE DEF f
<1>7. \A k \in 0..m : f[k] \in Seq(R)
  BY <1>6, OwnUnfold DEF m
<1>8. \A i \in 1..m : Starts(f[i - 1], f[i])
  <2> TAKE i \in 1..m
  <2>1. PICK t \in Seq(R) : t = f[i - 1]
    BY <1>1, <1>7
  <2>2. i \in 0..m /\ i - 1 \in 0..m
    BY <1>1
  <2>3. OwnUpTo(u, i) = IF IsConclusion(u[i]) THEN OwnUpTo(u, i - 1) ELSE Append(OwnUpTo(u, i - 1), u[i])
    BY OwnUnfold DEF m
  <2>4. f[i] = t \/ f[i] = Append(t, u[i])
    BY <1>6, <2>1, <2>2, <2>3
  <2>5. Starts(t, t)
    BY LenProperties DEF Starts
  <2>6. PICK r \in R : r = u[i]
    BY DEF m
  <2>7. Starts(t, Append(t, r))
    BY AppendStarts
  <2> QED
    BY <2>1, <2>4, <2>5, <2>6, <2>7
<1>9. n \in 0..m /\ m \in 0..m
  BY <1>1
<1>10. Starts(f[n], f[m])
  BY <1>1, <1>7, <1>8, <1>9, GrowsFrom
<1> QED
  BY <1>5, <1>6, <1>9, <1>10 DEF Own, m, n

LEMMA OwnOfAppend ==
    ASSUME NEW R, NEW s \in Seq(R), NEW r \in R
    PROVE  Own(Append(s, r)) = IF IsConclusion(r) THEN Own(s) ELSE Append(Own(s), r)
<1>1. PICK u \in Seq(R) : u = Append(s, r)
  BY AppendProperties
<1>2. Len(u) = Len(s) + 1 /\ Len(s) \in Nat /\ u[Len(u)] = r
  BY <1>1, AppendProperties
<1>3. PICK m \in 1..Len(u) : m = Len(u)
  BY <1>2
<1>4. OwnUpTo(u, m) = IF IsConclusion(u[m]) THEN OwnUpTo(u, m - 1) ELSE Append(OwnUpTo(u, m - 1), u[m])
  BY OwnUnfold
<1>5. m - 1 = Len(s) /\ u[m] = r /\ Own(u) = OwnUpTo(u, m)
  BY <1>2, <1>3 DEF Own
<1>6. Starts(s, u)
  BY <1>1, AppendStarts
<1>7. OwnUpTo(u, Len(s)) = Own(s)
  BY <1>6, OwnStarts
<1> QED
  BY <1>1, <1>4, <1>5, <1>7

LEMMA LastToAnswer ==
    ASSUME NEW lines \in Seq(Seq(Letter)), NEW n, n = Len(lines)
    PROVE  /\ LinesToAnswer(lines) \in 0..n
           /\ \A k \in 1..LinesToAnswer(lines) : Meaning(lines[k]).do # "quit"
           /\ LinesToAnswer(lines) < n => Meaning(lines[LinesToAnswer(lines) + 1]).do = "quit"
<1> DEFINE quits == {i \in DOMAIN lines : Meaning(lines[i]).do = "quit"}
           last == LinesToAnswer(lines)
<1>1. last = IF quits = {} THEN n ELSE Min(quits) - 1
  BY DEF LinesToAnswer
<1>2. n \in Nat /\ quits \in SUBSET (1..n) /\ \A i \in 1..n : i \in quits <=> Meaning(lines[i]).do = "quit"
  OBVIOUS
<1> HIDE DEF quits, last
<1>3. CASE quits = {}
  BY <1>1, <1>2, <1>3 DEF last
<1>4. CASE quits # {}
  <2>1. Min(quits) \in quits /\ \A i \in quits : Min(quits) <= i
    BY <1>2, <1>4, LeastIsMin
  <2>2. PICK q \in 1..n : q = Min(quits) /\ q \in quits
    BY <1>2, <2>1
  <2>3. last = q - 1 /\ \A i \in quits : q <= i
    BY <1>1, <1>4, <2>1, <2>2
  <2>4. last \in 0..n /\ last + 1 = q /\ \A k \in 1..last : k \in 1..n /\ ~(q <= k)
    BY <1>2, <2>3
  <2> QED
    BY <1>2, <2>2, <2>3, <2>4 DEF last
<1> QED
  BY <1>3, <1>4

LEMMA EmptyDoesNotQuit == Meaning(<< >>).do # "quit"
BY CommandAssumption DEF Meaning

(* Lines of which none ends the session are answered.                        *)
LEMMA AnswersGoOn ==
    ASSUME NEW lines \in Seq(Seq(Letter)), NEW n, n = Len(lines),
           NEW r \in 0..n, r <= LinesToAnswer(lines), NEW k \in 0..n, r <= k,
           \A i \in (r + 1)..k : Meaning(lines[i]).do # "quit"
    PROVE  k <= LinesToAnswer(lines)
<1>1. PICK last \in 0..n : last = LinesToAnswer(lines)
  BY LastToAnswer
<1>2. n \in Nat /\ (last < n => Meaning(lines[last + 1]).do = "quit")
  <2>1. n \in Nat
    OBVIOUS
  <2>2. LinesToAnswer(lines) < n => Meaning(lines[LinesToAnswer(lines) + 1]).do = "quit"
    BY LastToAnswer
  <2> QED
    BY <1>1, <2>1, <2>2
<1>3. CASE last < k
  <2>1. last + 1 \in (r + 1)..k /\ last < n
    BY <1>1, <1>2, <1>3
  <2> QED
    BY <1>2, <2>1
<1> QED
  BY <1>1, <1>2, <1>3

(* The next line that is not empty. *)
LEMMA NextLine ==
    ASSUME NEW lines \in Seq(Seq(Letter)), NEW n, n = Len(lines),
           NEW r \in 0..n, r <= LinesToAnswer(lines), NEW k \in (r + 1)..n,
           \A i \in (r + 1)..(k - 1) : lines[i] = << >>, lines[k] # << >>
    PROVE  /\ Meaning(lines[k]).do = "quit" => LinesToAnswer(lines) = k - 1
           /\ Meaning(lines[k]).do # "quit" => k <= LinesToAnswer(lines)
           /\ CommandsUpTo(lines, k - 1) = CommandsUpTo(lines, r)
           /\ CommandsUpTo(lines, k) = IF Meaning(lines[k]).do = "blank" THEN CommandsUpTo(lines, r)
                                       ELSE Append(CommandsUpTo(lines, r), lines[k])
<1>1. n \in Nat /\ k \in 1..n /\ k \in 0..n /\ k - 1 \in 0..n /\ r <= k - 1 /\ r <= k
  OBVIOUS
<1>2. \A i \in (r + 1)..(k - 1) : Meaning(lines[i]).do # "quit"
  BY EmptyDoesNotQuit
<1>3. PICK last \in 0..n : last = LinesToAnswer(lines)
  BY LastToAnswer
<1>4. k - 1 <= last
  BY <1>1, <1>2, <1>3, AnswersGoOn
<1>5. ASSUME Meaning(lines[k]).do = "quit" PROVE last = k - 1
  <2>1. \A j \in 1..last : Meaning(lines[j]).do # "quit"
    BY <1>3, LastToAnswer
  <2>2. ~(k <= last)
    BY <1>1, <1>5, <2>1
  <2> QED
    BY <1>1, <1>4, <2>2
<1>6. ASSUME Meaning(lines[k]).do # "quit" PROVE k <= last
  <2>1. \A i \in (r + 1)..k : Meaning(lines[i]).do # "quit"
    <3> TAKE i \in (r + 1)..k
    <3>1. i = k \/ i \in (r + 1)..(k - 1)
      BY <1>1
    <3> QED
      BY <1>2, <1>6, <3>1
  <2> QED
    BY <1>1, <1>3, <2>1, AnswersGoOn
<1>7. CommandsUpTo(lines, k - 1) = CommandsUpTo(lines, r)
  BY <1>1, NoCommandInEmptyLines
<1>8. CommandsUpTo(lines, k) = IF lines[k] = << >> \/ Meaning(lines[k]).do = "blank"
                               THEN CommandsUpTo(lines, k - 1)
                               ELSE Append(CommandsUpTo(lines, k - 1), lines[k])
  BY <1>1, CommandsUnfold
<1> QED
  BY <1>3, <1>5, <1>6, <1>7, <1>8

(* Replies to the texts of commands: to all of them, or to the first ones.   *)

Matches(own, texts) ==
    Len(own) = Len(texts) /\ \A i \in 1..Len(own) : Answers(own[i], texts[i])

MatchesPart(own, texts) ==
    Len(own) <= Len(texts) /\ \A i \in 1..Len(own) : Answers(own[i], texts[i])

LEMMA MatchesPartOf ==
    ASSUME NEW R, NEW own \in Seq(R), NEW X, NEW texts \in Seq(X), NEW more \in Seq(X),
           Matches(own, texts), Starts(texts, more)
    PROVE  MatchesPart(own, more)
BY DEF Matches, MatchesPart, Starts

LEMMA PartMatchesPart ==
    ASSUME NEW R, NEW own \in Seq(R), NEW part \in Seq(R), NEW X, NEW texts \in Seq(X),
           MatchesPart(own, texts), Starts(part, own)
    PROVE  MatchesPart(part, texts)
<1>1. Len(part) \in Nat /\ Len(own) \in Nat /\ Len(texts) \in Nat
  OBVIOUS
<1>2. Len(part) <= Len(own) /\ \A i \in 1..Len(part) : own[i] = part[i] /\ i \in 1..Len(own)
  BY <1>1 DEF Starts
<1> QED
  BY <1>1, <1>2 DEF MatchesPart

LEMMA MatchesMore ==
    ASSUME NEW R, NEW own \in Seq(R), NEW X, NEW texts \in Seq(X), NEW r \in R, NEW text \in X,
           Matches(own, texts), Answers(r, text)
    PROVE  Matches(Append(own, r), Append(texts, text))
<1> DEFINE m == Len(own)
           o == Append(own, r)
           t == Append(texts, text)
<1>1. m \in Nat /\ Len(texts) = m /\ \A i \in 1..m : Answers(own[i], texts[i])
  BY DEF Matches
<1>2. Len(o) = m + 1 /\ o[m + 1] = r /\ \A i \in 1..m : o[i] = own[i]
  BY AppendProperties
<1>3. Len(t) = m + 1 /\ t[m + 1] = text /\ \A i \in 1..m : t[i] = texts[i]
  BY <1>1, AppendProperties
<1>4. \A i \in 1..(m + 1) : i \in 1..m \/ i = m + 1
  BY <1>1
<1> HIDE DEF m, o, t
<1> QED
  BY <1>1, <1>2, <1>3, <1>4 DEF Matches, o, t

LEMMA NothingMatchesNothing == Matches(Own(<< >>), << >>) /\ Own(<< >>) = << >>
<1>1. << >> \in Seq({}) /\ Len(<< >>) = 0
  OBVIOUS
<1>2. Own(<< >>) = << >>
  BY <1>1, OwnUnfold DEF Own
<1> QED
  BY <1>1, <1>2 DEF Matches

-----------------------------------------------------------------------------
(* The inductive invariant of the replies: where in its lines a session is.  *)

(* What has been replied, when c's lines are read up to the end of the r-th. *)
Answering(c, r) ==
    IF session[c].action = "quit"
    THEN Matches(Own(Replies(c)), Answerable(c))
    ELSE /\ r <= LinesToAnswer(script[c])
         /\ Matches(Own(Replies(c)), CommandsUpTo(script[c], r))

(* What is held and what has come are the lines behind that.                 *)
ReadUpTo(c, r, p) ==
    /\ sent[c] = Ends(script[c])[p]
    /\ session[c].buffer \in Seq(Sign) /\ inq[c] \in Seq(Sign)
    /\ IsRun(session[c].buffer \o inq[c], Letters(c), Ends(script[c])[r], Ends(script[c])[p])

Reads(c) ==
    \E r \in 0..Len(script[c]) : \E p \in 0..Len(script[c]) :
        r <= p /\ ReadUpTo(c, r, p) /\ Answering(c, r)

Fate(c) ==
    /\ client[c] = "new" => sent[c] = 0 /\ inq[c] = << >> /\ told[c] = << >>
    /\ IF Open(c) THEN Reads(c) ELSE MatchesPart(Own(Replies(c)), Answerable(c))

(* The end of a connection was reported after its client had shut it.        *)
Reported == "HUP" \in events => cur # None /\ client[cur] = "shut"

Fates == DOMAIN inq = Client /\ Texts /\ Reported /\ \A c \in Client \ Typist : Fate(c)

LEMMA ScriptOf ==
    ASSUME Inv, NEW c \in Client
    PROVE  /\ script[c] \in Seq(Seq(Letter)) /\ Len(script[c]) \in Nat
           /\ LaidOut(script[c], Len(script[c]), Letters(c), Ends(script[c]))
           /\ Ends(script[c])[0] = 0
<1>1. PICK lines \in Seq(Seq(Letter)) : lines = script[c]
  BY LineAssumption DEF Inv, Sendings
<1>2. PICK n \in Nat : n = Len(lines)
  BY LenProperties
<1>3. LaidOut(lines, n, LettersOf(lines), Ends(lines))
  BY <1>2, LinesAreLaidOut
<1>4. Ends(lines)[0] = 0
  BY <1>3 DEF LaidOut
<1> QED
  BY <1>1, <1>2, <1>3, <1>4 DEF Letters

(* Of the commands that are answered. *)
LEMMA AnswerableOf ==
    ASSUME Inv, NEW c \in Client, NEW r \in 0..Len(script[c]), r <= LinesToAnswer(script[c])
    PROVE  /\ CommandsUpTo(script[c], r) \in Seq(Seq(Letter))
           /\ Answerable(c) \in Seq(Seq(Letter))
           /\ Starts(CommandsUpTo(script[c], r), Answerable(c))
<1>1. PICK lines \in Seq(Seq(Letter)) : lines = script[c]
  BY ScriptOf
<1>2. PICK n \in Nat : n = Len(lines)
  BY LenProperties
<1>3. PICK last \in 0..n : last = LinesToAnswer(lines)
  BY <1>2, LastToAnswer
<1>4. r \in 0..n /\ r <= last
  BY <1>1, <1>2, <1>3
<1>5. CommandsUpTo(lines, r) \in Seq(Seq(Letter)) /\ CommandsUpTo(lines, last) \in Seq(Seq(Letter))
  BY <1>2, <1>4, CommandsUnfold
<1>6. Starts(CommandsUpTo(lines, r), CommandsUpTo(lines, last))
  BY <1>2, <1>4, CommandsGrow
<1> QED
  BY <1>1, <1>3, <1>5, <1>6 DEF Answerable

LEMMA AnswerableIsList ==
    ASSUME Inv, NEW c \in Client
    PROVE  Answerable(c) \in Seq(Seq(Letter))
<1>1. 0 \in 0..Len(script[c]) /\ 0 <= LinesToAnswer(script[c])
  BY ScriptOf, LastToAnswer
<1> QED
  BY <1>1, AnswerableOf

LEMMA RepliesAreList ==
    ASSUME Texts, NEW c \in Client
    PROVE  \E R : told[c] \in Seq(R) /\ session[c].response \in Seq(R) /\ Replies(c) \in Seq(R)
<1>1. PICK R : told[c] \in Seq(R) /\ session[c].response \in Seq(R)
  BY DEF Texts, Lists
<1> QED
  BY <1>1, ConcatProperties DEF Replies

(* In every case. *)
LEMMA FateMatches ==
    ASSUME Inv, Texts, NEW c \in Client, Fate(c)
    PROVE  MatchesPart(Own(Replies(c)), Answerable(c))
<1>1. PICK R : Replies(c) \in Seq(R)
  BY RepliesAreList
<1>2. Own(Replies(c)) \in Seq(R)
  BY <1>1, OwnIsOfReplies
<1>3. Answerable(c) \in Seq(Seq(Letter))
  BY AnswerableIsList
<1>4. Starts(Answerable(c), Answerable(c))
  BY <1>3, LenProperties DEF Starts
<1>5. CASE Matches(Own(Replies(c)), Answerable(c))
  BY <1>2, <1>3, <1>4, <1>5, MatchesPartOf
<1>6. ASSUME NEW r \in 0..Len(script[c]), r <= LinesToAnswer(script[c]),
             Matches(Own(Replies(c)), CommandsUpTo(script[c], r))
      PROVE  MatchesPart(Own(Replies(c)), Answerable(c))
  BY <1>2, <1>6, AnswerableOf, MatchesPartOf
<1>7. CASE Open(c)
  BY <1>5, <1>6, <1>7 DEF Fate, Reads, Answering
<1> QED
  BY <1>7 DEF Fate

LEMMA FatesAnswer == ASSUME Inv, Fates PROVE RepliesMatchLines
<1> SUFFICES ASSUME NEW c \in Client \ Typist
             PROVE  /\ Len(Own(Replies(c))) <= Len(Answerable(c))
                    /\ \A i \in DOMAIN Own(Replies(c)) : Answers(Own(Replies(c))[i], Answerable(c)[i])
  BY DEF RepliesMatchLines
<1>1. MatchesPart(Own(Replies(c)), Answerable(c))
  BY FateMatches DEF Fates
<1>2. PICK R : Own(Replies(c)) \in Seq(R)
  BY RepliesAreList, OwnIsOfReplies DEF Fates
<1>3. DOMAIN Own(Replies(c)) = 1..Len(Own(Replies(c)))
  BY <1>2, LenProperties
<1> QED
  BY <1>1, <1>3 DEF MatchesPart

LEMMA FatesInit == Init => Fates
<1> SUFFICES ASSUME Init PROVE Fates
  OBVIOUS
<1>1. Texts
  BY OnceInit DEF Once
<1>2. \A c \in Client : Replies(c) = << >> /\ ~Open(c)
  <2>1. << >> \in Seq({})
    OBVIOUS
  <2> QED
    BY <2>1, ConcatEmptySeq DEF Init, NoSession, Replies, Open
<1>3. ASSUME NEW c \in Client PROVE Fate(c)
  <2>1. Answerable(c) \in Seq(Seq(Letter))
    BY <1>3, InvInit, AnswerableIsList
  <2>2. Len(<< >>) = 0 /\ Len(Answerable(c)) \in Nat
    BY <2>1
  <2>3. MatchesPart(<< >>, Answerable(c))
    BY <2>2 DEF MatchesPart
  <2> QED
    BY <1>2, <2>3, NothingMatchesNothing DEF Init, Fate
<1>4. Reported
  BY DEF Init, Reported
<1>5. DOMAIN inq = Client
  BY DEF Init
<1> QED
  BY <1>1, <1>3, <1>4, <1>5 DEF Fates

(* Of a client that an action is not about. *)
LEMMA FateStays ==
    ASSUME NEW c, Fate(c), session'[c] = session[c], told'[c] = told[c], inq'[c] = inq[c],
           sent'[c] = sent[c], script' = script, client'[c] = "new" => client[c] = "new"
    PROVE  Fate(c)'
BY DEF Fate, Open, Reads, ReadUpTo, Answering, Replies, Answerable, Letters

Same(c) ==
    /\ session'[c] = session[c] /\ told'[c] = told[c] /\ inq'[c] = inq[c]
    /\ sent'[c] = sent[c] /\ client'[c] = client[c]

LEMMA FatesKept ==
    ASSUME Fates, Texts', Reported', DOMAIN inq' = Client, script' = script, NEW d \in Client,
           \A c \in Client \ {d} : Same(c), d \in Client \ Typist => Fate(d)'
    PROVE  Fates'
<1>1. ASSUME NEW c \in Client \ Typist, c # d PROVE Fate(c)'
  <2>1. Fate(c) /\ Same(c)
    BY <1>1 DEF Fates
  <2> QED
    BY <2>1, FateStays DEF Same
<1>2. \A c \in Client \ Typist : Fate(c)'
  BY <1>1
<1> QED
  BY <1>2 DEF Fates

LEMMA NotReported == ASSUME Inv, Fates, pc = "loop" PROVE "HUP" \notin events
BY DEF Inv, Loop, Fates, Reported

(* What is sent ends with a line. *)
LEMMA EmptyRun == ASSUME NEW t, NEW a \in Nat PROVE IsRun(<< >>, t, a, a)
<1>1. << >> \in Seq(Sign) /\ Len(<< >>) = 0 /\ a - a = 0
  OBVIOUS
<1> QED
  BY <1>1 DEF IsRun

LEMMA RunBehind ==
    ASSUME NEW b \in Seq(Sign), NEW i \in Seq(Sign), NEW u \in Seq(Sign), NEW t, NEW a, NEW d, NEW f,
           IsRun(b \o i, t, a, d), IsRun(u, t, d, f)
    PROVE  IsRun(b \o (i \o u), t, a, f)
<1>1. (b \o i) \o u = b \o (i \o u)
  BY ConcatAssociative
<1> QED
  BY <1>1, RunsJoin

LEMMA ConnectKeeps ==
    ASSUME Inv, Fates, Texts', NEW c \in Client, Connect(c)
    PROVE  Fates'
<1>1. /\ pc = "loop" /\ client[c] = "new" /\ client' = [client EXCEPT ![c] = "open"]
      /\ session' = [session EXCEPT ![c] = NewSession]
      /\ UNCHANGED <<events, cur, inq, told, script, sent>>
  BY DEF Connect, loopVars
<1>2. DOMAIN session = Client /\ DOMAIN client = Client /\ DOMAIN inq = Client
  BY DEF Inv, Sessions, Fates
<1>3. \A b \in Client \ {c} : Same(b)
  BY <1>1, <1>2 DEF Same
<1>4. Reported'
  BY <1>1, NotReported DEF Reported
<1>5. ASSUME c \in Client \ Typist PROVE Fate(c)'
  <2>1. sent[c] = 0 /\ inq[c] = << >> /\ told[c] = << >>
    BY <1>1, <1>5 DEF Fates, Fate
  <2>2. /\ session'[c] = NewSession /\ client'[c] = "open" /\ NewSession # NoSession
        /\ session'[c].buffer = << >> /\ session'[c].response = << >> /\ session'[c].action = "none"
    BY <1>1, <1>2, NewSessionMatches DEF NewSession, NoSession
  <2>3. << >> \in Seq(Sign) /\ << >> \o << >> = << >> /\ 0 \in Nat
    BY ConcatEmptySeq
  <2>4. Replies(c)' = << >>
    BY <1>1, <2>1, <2>2, <2>3 DEF Replies
  <2> DEFINE lines == script[c]
  <2>5. PICK n \in Nat : n = Len(lines)
    BY ScriptOf
  <2>6. /\ lines \in Seq(Seq(Letter)) /\ Ends(lines)[0] = 0 /\ 0 \in 0..n
        /\ 0 <= LinesToAnswer(lines) /\ CommandsUpTo(lines, 0) = << >>
    <3>1. lines \in Seq(Seq(Letter)) /\ Ends(lines)[0] = 0
      BY ScriptOf
    <3> HIDE DEF lines
    <3>2. LinesToAnswer(lines) \in 0..n /\ CommandsUpTo(lines, 0) = << >>
      BY <2>5, <3>1, LastToAnswer, CommandsUnfold
    <3> QED
      BY <3>1, <3>2
  <2>7. IsRun(<< >>, Letters(c)', 0, 0)
    BY EmptyRun
  <2>8. ReadUpTo(c, 0, 0)'
    BY <1>1, <2>1, <2>2, <2>3, <2>6, <2>7 DEF ReadUpTo
  <2>9. Answering(c, 0)'
    BY <1>1, <2>2, <2>4, <2>6, NothingMatchesNothing DEF Answering
  <2>10. Reads(c)'
    BY <1>1, <2>5, <2>6, <2>8, <2>9 DEF Reads
  <2> QED
    BY <2>2, <2>10 DEF Fate, Open
<1> QED
  BY <1>1, <1>2, <1>3, <1>4, <1>5, FatesKept

LEMMA ShutKeeps ==
    ASSUME Inv, Fates, Texts', NEW c \in Client, Shut(c)
    PROVE  Fates'
<1>1. /\ pc = "loop" /\ client' = [client EXCEPT ![c] = "shut"]
      /\ UNCHANGED <<events, cur, session, inq, told, script, sent>>
  BY DEF Shut, loopVars
<1>2. DOMAIN client = Client /\ DOMAIN inq = Client
  BY DEF Inv, Sessions, Fates
<1>3. \A b \in Client \ {c} : Same(b)
  BY <1>1, <1>2 DEF Same
<1>4. Reported'
  BY <1>1, NotReported DEF Reported
<1>5. ASSUME c \in Client \ Typist PROVE Fate(c)'
  <2>1. Fate(c) /\ client'[c] = "shut"
    BY <1>1, <1>2, <1>5 DEF Fates
  <2> QED
    BY <1>1, <2>1, FateStays
<1> QED
  BY <1>1, <1>2, <1>3, <1>4, <1>5, FatesKept

(* Whole lines arrive, behind what has come before. *)
LEMMA ArriveKeeps ==
    ASSUME Inv, Fates, Texts', NEW c \in Client, NEW q \in 1..Len(Letters(c)), Arrive(c, q)
    PROVE  Fates'
<1>1. /\ pc = "loop" /\ client[c] = "open" /\ q \in (sent[c] + 1)..Len(Letters(c))
      /\ c \in Typist \/ Letters(c)[q] = EOL
      /\ sent' = [sent EXCEPT ![c] = q]
      /\ inq' = [inq EXCEPT ![c] = inq[c] \o SubSeq(Letters(c), sent[c] + 1, q)]
      /\ UNCHANGED <<events, cur, session, told, script, client>>
  BY DEF Arrive, loopVars
<1>2. DOMAIN client = Client /\ DOMAIN inq = Client /\ DOMAIN sent = Client /\ Open(c)
  BY <1>1 DEF Inv, Sessions, Sendings, Fates, Match, Open
<1>3. \A b \in Client \ {c} : Same(b)
  BY <1>1, <1>2 DEF Same
<1>4. Reported'
  BY <1>1, NotReported DEF Reported
<1>5. ASSUME c \in Client \ Typist PROVE Fate(c)'
  <2> DEFINE lines == script[c]
             n == Len(lines)
             t == Letters(c)
             e == Ends(lines)
  <2>1. LaidOut(lines, n, t, e) /\ n \in Nat
    BY ScriptOf
  <2>2. Reads(c)
    BY <1>2, <1>5 DEF Fates, Fate
  <2>3. PICK r \in 0..n, p \in 0..n : r <= p /\ ReadUpTo(c, r, p) /\ Answering(c, r)
    BY <2>2 DEF Reads
  <2>4. /\ sent[c] = e[p] /\ session[c].buffer \in Seq(Sign) /\ inq[c] \in Seq(Sign)
        /\ IsRun(session[c].buffer \o inq[c], t, e[r], e[p])
    BY <2>3 DEF ReadUpTo
  <2>5. q \in 1..Len(t) /\ t[q] = EOL
    BY <1>1, <1>5
  <2>6. t \in Seq(Sign) /\ \A k \in 0..n : e[k] \in Nat
    BY <2>1 DEF LaidOut
  <2> DEFINE more == SubSeq(t, sent[c] + 1, q)
  <2>7. sent[c] + 1 <= q
    BY <1>1
  <2>8. inq'[c] = inq[c] \o more /\ sent'[c] = q
    BY <1>1, <1>2
  <2> HIDE DEF lines, n, t, e
  <2>9. PICK k \in 1..n : q = e[k]
    BY <2>1, <2>5, EndsAreThere
  <2>10. k \in 0..n /\ p < k
    <3>1. k \in 0..n /\ e[p] < e[k] /\ e[p] \in Nat
      BY <2>1, <2>4, <2>6, <2>7, <2>9
    <3>2. k < p => e[k] < e[p]
      BY <2>1, <3>1, EndsGrow
    <3> QED
      BY <2>1, <2>6, <3>1, <3>2
  <2>11. IsRun(more, t, e[p], e[k])
    <3>1. PICK a \in Nat, v \in Nat : a = e[p] /\ a + v = q /\ e[k] = a + v
      <4>1. e[p] \in Nat /\ q - e[p] \in Nat /\ e[p] + (q - e[p]) = q
        BY <2>4, <2>5, <2>6, <2>7
      <4> QED
        BY <2>9, <4>1
    <3>2. PICK l \in Int : l = a + 1
      OBVIOUS
    <3>3. PICK m \in Int : m = a + v
      OBVIOUS
    <3>4. t \in Seq(Sign) /\ a \in Nat /\ v \in Nat /\ l \in Int /\ m \in Int
      BY <2>6
    <3>5. a + v <= Len(t) /\ l = a + 1 /\ m = a + v
      BY <2>5, <3>1, <3>2, <3>3
    <3>6. /\ SubSeq(t, l, m) \in Seq(Sign) /\ Len(SubSeq(t, l, m)) = v
          /\ \A j \in 1..v : SubSeq(t, l, m)[j] = t[a + j]
      BY ONLY <3>4, <3>5, Prefix
    <3>7. more = SubSeq(t, l, m)
      BY <2>4, <3>1, <3>2, <3>3
    <3> HIDE DEF more
    <3>8. a + v \in Nat /\ a <= a + v /\ (a + v) - a = v
      OBVIOUS
    <3>9. IsRun(more, t, a, a + v)
      BY <3>6, <3>7, <3>8 DEF IsRun
    <3> QED
      BY <3>1, <3>9
  <2> HIDE DEF more
  <2>12. more \in Seq(Sign)
    BY <2>11 DEF IsRun
  <2>13. IsRun(session[c].buffer \o inq'[c], t, e[r], e[k])
    <3>1. PICK b \in Seq(Sign), i \in Seq(Sign), u \in Seq(Sign) :
             b = session[c].buffer /\ i = inq[c] /\ u = more
      BY <2>4, <2>12
    <3>2. IsRun(b \o (i \o u), t, e[r], e[k])
      BY <2>4, <2>11, <3>1, RunBehind
    <3> QED
      BY <2>8, <3>1, <3>2
  <2>14. inq'[c] \in Seq(Sign)
    BY <2>4, <2>8, <2>12, ConcatProperties
  <2>15. ReadUpTo(c, r, k)'
    BY <1>1, <2>4, <2>8, <2>9, <2>13, <2>14 DEF ReadUpTo, Letters, lines, t, e
  <2>16. Answering(c, r)'
    BY <1>1, <2>3 DEF Answering, Replies, Answerable
  <2>17. r <= k
    BY <2>1, <2>3, <2>10
  <2>18. Reads(c)'
    BY <1>1, <2>3, <2>10, <2>15, <2>16, <2>17 DEF Reads, lines, n
  <2> QED
    BY <1>1, <1>2, <2>18 DEF Fate, Open
<1> QED
  BY <1>1, <1>2, <1>3, <1>4, <1>5, FatesKept

LEMMA TakeKeeps ==
    ASSUME Inv, Fates, Texts', NEW c \in Client, NEW reported, Take(c, reported)
    PROVE  Fates'
<1>1. /\ cur' = c /\ events' = reported /\ reported \subseteq Ready(c)
      /\ UNCHANGED <<session, inq, told, script, sent, client>>
  BY DEF Take, clientVars
<1>2. \A b \in Client : Same(b)
  BY <1>1 DEF Same
<1>3. Reported'
  <2>1. "HUP" \in reported => client[c] = "shut"
    BY <1>1 DEF Ready
  <2> QED
    BY <1>1, <2>1, NoneAssumption DEF Reported
<1>4. c \in Client \ Typist => Fate(c)'
  BY <1>1, FateStays DEF Fates
<1> QED
  BY <1>1, <1>2, <1>3, <1>4, FatesKept DEF Fates

(* The same of the session s, if it is d's. *)
AnsweringAs(d, s, r) ==
    IF s.action = "quit"
    THEN Matches(Own(told[d] \o s.response), Answerable(d))
    ELSE /\ r <= LinesToAnswer(script[d])
         /\ Matches(Own(told[d] \o s.response), CommandsUpTo(script[d], r))

ReadsAs(d, s) ==
    \E r \in 0..Len(script[d]) : \E p \in 0..Len(script[d]) :
        /\ r <= p /\ sent[d] = Ends(script[d])[p]
        /\ s.buffer \in Seq(Sign)
        /\ IsRun(s.buffer, Letters(d), Ends(script[d])[r], Ends(script[d])[p])
        /\ AnsweringAs(d, s, r)

LEMMA ReceivesKeepsFates ==
    ASSUME Inv, Fates, Texts', NEW d \in Client, d = cur, NEW s, Receives(s), s # NoSession,
           d \in Client \ Typist => ReadsAs(d, s)
    PROVE  Fates'
<1>1. /\ session' = [session EXCEPT ![d] = s] /\ inq' = [inq EXCEPT ![d] = << >>]
      /\ UNCHANGED <<cur, events, told, script, sent, client>>
  BY DEF Receives, clientVars
<1>2. DOMAIN session = Client /\ DOMAIN inq = Client
  BY DEF Inv, Sessions, Fates
<1>3. \A b \in Client \ {d} : Same(b)
  BY <1>1, <1>2 DEF Same
<1>4. Reported'
  BY <1>1 DEF Fates, Reported
<1>5. session'[d] = s /\ inq'[d] = << >>
  BY <1>1, <1>2
<1>6. ASSUME d \in Client \ Typist PROVE Fate(d)'
  <2>1. PICK r \in 0..Len(script[d]), p \in 0..Len(script[d]) :
           /\ r <= p /\ sent[d] = Ends(script[d])[p]
           /\ s.buffer \in Seq(Sign)
           /\ IsRun(s.buffer, Letters(d), Ends(script[d])[r], Ends(script[d])[p])
           /\ AnsweringAs(d, s, r)
    BY <1>6 DEF ReadsAs
  <2>2. s.buffer \o << >> = s.buffer /\ << >> \in Seq(Sign)
    BY <2>1, ConcatEmptySeq
  <2>3. ReadUpTo(d, r, p)'
    BY <1>1, <1>5, <2>1, <2>2 DEF ReadUpTo, Letters
  <2>4. Answering(d, r)'
    BY <1>1, <1>5, <2>1 DEF Answering, AnsweringAs, Replies, Answerable
  <2>5. Reads(d)'
    BY <1>1, <2>1, <2>3, <2>4 DEF Reads
  <2>6. client'[d] # "new"
    BY <1>1, CurrentSession DEF Receives
  <2> QED
    BY <1>5, <2>5, <2>6 DEF Fate, Open
<1> QED
  BY <1>1, <1>2, <1>3, <1>4, <1>6, FatesKept

(* What the handler that reads has before it. *)
HeldUpTo(d, r, p) ==
    /\ r <= p /\ sent[d] = Ends(script[d])[p]
    /\ Held \in Seq(Sign)
    /\ IsRun(Held, Letters(d), Ends(script[d])[r], Ends(script[d])[p])
    /\ Answering(d, r)

LEMMA HasBeforeIt ==
    ASSUME Inv, Fates, NEW d \in Client \ Typist, d = cur, pc = "recv"
    PROVE  \E r \in 0..Len(script[d]) : \E p \in 0..Len(script[d]) : HeldUpTo(d, r, p)
<1>1. Open(d) /\ Fate(d)
  BY CurrentSession DEF Inv, Loop, Fates
<1>2. PICK r \in 0..Len(script[d]), p \in 0..Len(script[d]) :
         r <= p /\ ReadUpTo(d, r, p) /\ Answering(d, r)
  BY <1>1 DEF Fate, Reads
<1>3. Held = session[d].buffer \o inq[d]
  BY DEF Held, S
<1>4. Held \in Seq(Sign) /\ IsRun(Held, Letters(d), Ends(script[d])[r], Ends(script[d])[p])
  BY <1>2, <1>3, ConcatProperties DEF ReadUpTo
<1>5. HeldUpTo(d, r, p)
  BY <1>2, <1>4 DEF HeldUpTo, ReadUpTo
<1> QED
  BY <1>5

LEMMA HoldingKeeps ==
    ASSUME Inv, Fates, Texts', Receives([S EXCEPT !.buffer = Held])
    PROVE  Fates'
<1> DEFINE s == [S EXCEPT !.buffer = Held]
<1>1. PICK d \in Client : d = cur
  BY CurrentSession DEF Receives
<1>2. IsSession(S) /\ S.action # "closed" /\ pc = "recv"
  BY CurrentSession DEF Receives, Match
<1>3. s.buffer = Held /\ s.response = S.response /\ s.action = S.action
  BY <1>2, SessionUpdates
<1>4. Receives(s)
  OBVIOUS
<1> HIDE DEF s
<1>5. s # NoSession
  BY <1>2, <1>3 DEF NoSession
<1>6. ASSUME d \in Client \ Typist PROVE ReadsAs(d, s)
  <2>1. PICK r \in 0..Len(script[d]), p \in 0..Len(script[d]) : HeldUpTo(d, r, p)
    BY <1>1, <1>2, <1>6, HasBeforeIt
  <2>2. AnsweringAs(d, s, r)
    BY <1>1, <1>3, <2>1 DEF HeldUpTo, Answering, AnsweringAs, Replies, S
  <2> QED
    BY <1>3, <2>1, <2>2 DEF HeldUpTo, ReadsAs
<1> QED
  BY <1>1, <1>4, <1>5, <1>6, ReceivesKeepsFates

LEMMA TakenFromHeld ==
    Stripped = StrippedOf(Held) /\ Text = TextOf(Stripped) /\ Rest = RestOf(Stripped)
<1>1. Stripped = StrippedOf(Held)
  BY DEF Stripped, StrippedOf
<1>2. EndOfLine = EndIn(Stripped)
  BY DEF EndOfLine, EndIn
<1> QED
  BY <1>1, <1>2 DEF Text, TextOf, Rest, RestOf

LEMMA NoCommandKeeps ==
    ASSUME Inv, Fates, Texts', NoCommand
    PROVE  Fates'
<1> DEFINE s == [S EXCEPT !.buffer = << >>]
<1>1. PICK d \in Client : d = cur
  BY CurrentSession DEF NoCommand, Receives
<1>2. IsSession(S) /\ S.action = "none" /\ pc = "recv" /\ Stripped = << >>
  BY CurrentSession DEF NoCommand, LooksForCommand, Match
<1>3. s.buffer = << >> /\ s.response = S.response /\ s.action = "none"
  BY <1>2, SessionUpdates
<1>4. Receives(s)
  BY DEF NoCommand
<1> HIDE DEF s
<1>5. s # NoSession
  BY <1>3 DEF NoSession
<1>6. ASSUME d \in Client \ Typist PROVE ReadsAs(d, s)
  <2> DEFINE lines == script[d]
             n == Len(lines)
             t == Letters(d)
             e == Ends(lines)
  <2>1. LaidOut(lines, n, t, e) /\ n \in Nat /\ lines \in Seq(Seq(Letter))
    BY ScriptOf
  <2>2. PICK r \in 0..n, p \in 0..n : HeldUpTo(d, r, p)
    BY <1>1, <1>2, <1>6, HasBeforeIt
  <2>3. r <= p /\ sent[d] = e[p] /\ IsRun(Held, t, e[r], e[p]) /\ Answering(d, r)
    BY <2>2 DEF HeldUpTo
  <2>4. e[p] \in Nat
    BY <2>1 DEF LaidOut
  <2>5. r <= LinesToAnswer(lines) /\ Matches(Own(told[d] \o s.response), CommandsUpTo(lines, r))
    BY <1>1, <1>2, <1>3, <2>3 DEF Answering, Replies, S
  <2> HIDE DEF lines, n, t, e
  <2>6. StrippedOf(Held) = << >>
    BY <1>2, TakenFromHeld
  <2>7. \A k \in (r + 1)..p : lines[k] = << >>
    BY <2>1, <2>3, <2>6, TextOfHeld
  <2>8. \A k \in (r + 1)..p : Meaning(lines[k]).do # "quit"
    BY <2>7, EmptyDoesNotQuit
  <2>9. p <= LinesToAnswer(lines)
    BY <2>1, <2>3, <2>5, <2>8, AnswersGoOn DEF n
  <2>10. CommandsUpTo(lines, p) = CommandsUpTo(lines, r)
    BY <2>1, <2>3, <2>7, NoCommandInEmptyLines DEF n
  <2>11. AnsweringAs(d, s, p)
    BY <1>3, <2>5, <2>9, <2>10 DEF AnsweringAs, lines
  <2>12. IsRun(s.buffer, t, e[p], e[p])
    BY <1>3, <2>4, EmptyRun
  <2>13. s.buffer \in Seq(Sign) /\ p <= p
    BY <1>3, <2>1
  <2> QED
    BY <2>3, <2>11, <2>12, <2>13 DEF ReadsAs, lines, n, t, e
<1> QED
  BY <1>1, <1>4, <1>5, <1>6, ReceivesKeepsFates

(* A command gets its reply, unless it has none. *)
Replied(do, action, replies) ==
    /\ action = IF do = "quit" THEN "quit" ELSE "none"
    /\ \/ do \in {"blank", "quit"} /\ replies = << >>
       \/ /\ do \notin {"blank", "quit"}
          /\ \E reply : replies = <<reply>> /\ ~IsConclusion(reply) /\ Answers(reply, Text)

LEMMA OwnOfReply ==
    ASSUME NEW Q, NEW s \in Seq(Q), NEW reply, ~IsConclusion(reply),
           NEW X, NEW texts \in Seq(X), NEW text \in X, Matches(Own(s), texts), Answers(reply, text)
    PROVE  Matches(Own(s \o <<reply>>), Append(texts, text))
<1> DEFINE R == Q \cup {reply}
<1>1. s \in Seq(R) /\ reply \in R
  <2>1. Seq(Q) \subseteq Seq(R)
    OBVIOUS
  <2> QED
    BY <2>1
<1> HIDE DEF R
<1>2. s \o <<reply>> = Append(s, reply)
  BY <1>1, AppendIsConcat
<1>3. Own(Append(s, reply)) = Append(Own(s), reply)
  BY <1>1, OwnOfAppend
<1>4. Own(s) \in Seq(R)
  BY <1>1, OwnIsOfReplies
<1>5. Matches(Append(Own(s), reply), Append(texts, text))
  BY <1>1, <1>4, MatchesMore
<1> QED
  BY <1>2, <1>3, <1>5

LEMMA CommandKeeps ==
    ASSUME Inv, Fates, Texts', NEW do, NEW action, NEW replies, Runs(do, action, replies),
           Replied(do, action, replies)
    PROVE  Fates'
<1> DEFINE s == AsRunning(S, Rest, action, replies)
<1>1. PICK d \in Client : d = cur
  BY CurrentSession DEF Runs, Receives
<1>2. /\ IsSession(S) /\ S.action = "none" /\ S.response = << >> /\ pc = "recv"
      /\ Stripped # << >> /\ Meaning(Text).do = do
  BY CurrentSession DEF Runs, LooksForCommand, Match
<1>3. s.buffer = Rest /\ s.response = replies /\ s.action = action
  BY <1>2, RunningSession
<1>4. Receives(s)
  BY DEF Runs, AsRunning
<1> HIDE DEF s
<1>5. s # NoSession
  BY <1>3 DEF NoSession, Replied
<1>6. ASSUME d \in Client \ Typist PROVE ReadsAs(d, s)
  <2> DEFINE lines == script[d]
             n == Len(lines)
             t == Letters(d)
             e == Ends(lines)
  <2>1. LaidOut(lines, n, t, e) /\ n \in Nat /\ lines \in Seq(Seq(Letter))
    BY ScriptOf
  <2>2. PICK r \in 0..n, p \in 0..n : HeldUpTo(d, r, p)
    BY <1>1, <1>2, <1>6, HasBeforeIt
  <2>3. r <= p /\ sent[d] = e[p] /\ IsRun(Held, t, e[r], e[p]) /\ Answering(d, r)
    BY <2>2 DEF HeldUpTo
  <2>4. PICK R : told[d] \in Seq(R) /\ told[d] \o << >> = told[d]
    BY RepliesAreList, ConcatEmptySeq DEF Fates
  <2>5. r <= LinesToAnswer(lines) /\ Matches(Own(told[d]), CommandsUpTo(lines, r))
    BY <1>1, <1>2, <2>3, <2>4 DEF Answering, Replies, S
  <2>6. Answerable(d) = CommandsUpTo(lines, LinesToAnswer(lines))
    BY DEF Answerable
  <2> HIDE DEF lines, n, t, e
  <2>7. StrippedOf(Held) = Stripped /\ TextOf(Stripped) = Text /\ RestOf(Stripped) = Rest
    BY TakenFromHeld
  <2>8. PICK k \in (r + 1)..p :
           /\ \A i \in (r + 1)..(k - 1) : lines[i] = << >>
           /\ lines[k] # << >> /\ Text = lines[k]
           /\ IsRun(Rest, t, e[k], e[p])
    BY <1>2, <2>1, <2>3, <2>7, TextOfHeld
  <2>9. k \in (r + 1)..n /\ k \in 0..n /\ k <= p /\ k \in 1..n
    BY <2>1
  <2>10. /\ Meaning(lines[k]).do = "quit" => LinesToAnswer(lines) = k - 1
         /\ Meaning(lines[k]).do # "quit" => k <= LinesToAnswer(lines)
         /\ CommandsUpTo(lines, k - 1) = CommandsUpTo(lines, r)
         /\ CommandsUpTo(lines, k) = IF Meaning(lines[k]).do = "blank" THEN CommandsUpTo(lines, r)
                                     ELSE Append(CommandsUpTo(lines, r), lines[k])
    BY <2>1, <2>5, <2>8, <2>9, NextLine DEF n
  <2>11. Meaning(lines[k]).do = do
    BY <1>2, <2>8
  <2>12. CASE do = "quit"
    <3>1. action = "quit" /\ replies = << >>
      BY <2>12 DEF Replied
    <3>2. Answerable(d) = CommandsUpTo(lines, r)
      BY <2>6, <2>10, <2>11, <2>12
    <3> QED
      BY <1>3, <2>3, <2>4, <2>5, <2>8, <2>9, <3>1, <3>2 DEF ReadsAs, AnsweringAs, IsRun, lines, n, t, e
  <2>13. CASE do = "blank"
    <3>1. action = "none" /\ replies = << >>
      BY <2>13 DEF Replied
    <3>2. k <= LinesToAnswer(lines) /\ CommandsUpTo(lines, k) = CommandsUpTo(lines, r)
      BY <2>10, <2>11, <2>13
    <3> QED
      BY <1>3, <2>3, <2>4, <2>5, <2>8, <2>9, <3>1, <3>2 DEF ReadsAs, AnsweringAs, IsRun, lines, n, t, e
  <2>14. CASE do \notin {"blank", "quit"}
    <3>1. PICK reply : replies = <<reply>> /\ ~IsConclusion(reply) /\ Answers(reply, Text)
      BY <2>14 DEF Replied
    <3>2. action = "none"
      BY <2>14 DEF Replied
    <3>3. k <= LinesToAnswer(lines) /\ CommandsUpTo(lines, k) = Append(CommandsUpTo(lines, r), lines[k])
      BY <2>10, <2>11, <2>14
    <3>4. CommandsUpTo(lines, r) \in Seq(Seq(Letter)) /\ lines[k] \in Seq(Letter)
      BY <2>1, <2>9, CommandsUnfold DEF n
    <3>5. Answers(reply, lines[k])
      BY <2>8, <3>1
    <3>6. Matches(Own(told[d] \o <<reply>>), Append(CommandsUpTo(lines, r), lines[k]))
      BY <2>4, <2>5, <3>1, <3>4, <3>5, OwnOfReply
    <3>7. AnsweringAs(d, s, k)
      BY <1>3, <3>1, <3>2, <3>3, <3>6 DEF AnsweringAs, lines
    <3> QED
      BY <1>3, <2>3, <2>8, <2>9, <3>7 DEF ReadsAs, IsRun, lines, n, t, e
  <2> QED
    BY <2>12, <2>13, <2>14
<1> QED
  BY <1>1, <1>4, <1>5, <1>6, ReceivesKeepsFates

(* The poll adds a conclusion at most. *)
LeavesToSend(replies) ==
    \/ replies = S.response
    \/ \E r : IsConclusion(r) /\ replies = Append(S.response, r)

(* The handler sends s of what its session has, and leaves the rest. *)
Splits(R, d, replies, first, rest) ==
    /\ told[d] \in Seq(R) /\ session[d].response \in Seq(R) /\ Replies(d) \in Seq(R)
    /\ replies \in Seq(R) /\ first \in Seq(R) /\ rest \in Seq(R)
    /\ told[d] \o replies \in Seq(R) /\ told[d] \o first \in Seq(R)
    /\ (told[d] \o first) \o rest = told[d] \o replies
    /\ Starts(told[d] \o first, told[d] \o replies)
    /\ Starts(Replies(d), told[d] \o replies)
    /\ Own(told[d] \o replies) = Own(Replies(d))
    /\ told' = [told EXCEPT ![d] = told[d] \o first]
    /\ EndHandling(rest)
    /\ rest = << >> => told[d] \o first = told[d] \o replies

LEMMA Sending ==
    ASSUME Inv, Texts, NEW d \in Client, d = cur, NEW replies,
           LeavesToSend(replies), SendsPart(replies)
    PROVE  \E R : \E first : \E rest : Splits(R, d, replies, first, rest)
<1>1. PICK Q : Lists(Q)
  BY DEF Texts
<1>2. PICK r : \/ replies = S.response
               \/ IsConclusion(r) /\ replies = Append(S.response, r)
  BY DEF LeavesToSend
<1> DEFINE R == Q \cup {r}
<1>3. Lists(R) /\ r \in R
  <2>1. Seq(Q) \subseteq Seq(R)
    OBVIOUS
  <2> QED
    BY <1>1, <2>1 DEF Lists
<1> HIDE DEF R
<1>4. PICK t \in Seq(R) : t = told[d]
  BY <1>3 DEF Lists
<1>5. PICK u \in Seq(R) : u = session[d].response /\ u = S.response
  BY <1>3 DEF Lists, S
<1>6. PICK v \in Seq(R) : v = replies
  BY <1>2, <1>3, <1>5, AppendProperties
<1>7. PICK n \in 0..Len(v) : Told(d, SubSeq(v, 1, n)) /\ EndHandling(SubSeq(v, n + 1, Len(v)))
  BY <1>3, <1>6, PartIsSent
<1>9. PICK f, l : SplitAt(R, t, v, n, f, l)
  BY SendingSplits
<1>8. /\ f \in Seq(R) /\ l \in Seq(R)
      /\ f = SubSeq(v, 1, n) /\ l = SubSeq(v, n + 1, Len(v))
      /\ f \o l = v /\ t \o f \in Seq(R) /\ (t \o f) \o l = t \o v
  BY <1>9 DEF SplitAt
<1>10. t \o v \in Seq(R) /\ t \o u \in Seq(R)
  BY ConcatProperties
<1>11. Replies(d) = t \o u
  BY <1>4, <1>5 DEF Replies
<1>12. PICK w \in Seq(R) : w = t \o u
  BY <1>10
<1>13. v = u \/ (IsConclusion(r) /\ t \o v = Append(w, r))
  <2>1. t \o Append(u, r) = Append(t \o u, r)
    BY <1>3, AppendBehind
  <2> QED
    BY <1>2, <1>5, <1>6, <1>12, <2>1
<1>14. Own(t \o v) = Own(w)
  <2>1. CASE v = u
    BY <1>12, <2>1
  <2>2. CASE IsConclusion(r) /\ t \o v = Append(w, r)
    BY <1>3, <2>2, OwnOfAppend
  <2> QED
    BY <1>13, <2>1, <2>2
<1>15. Starts(w, t \o v)
  <2>1. CASE v = u
    BY <1>12, <2>1, LenProperties DEF Starts
  <2>2. CASE IsConclusion(r) /\ t \o v = Append(w, r)
    BY <1>3, <2>2, AppendStarts
  <2> QED
    BY <1>13, <2>1, <2>2
<1>16. Starts(t \o f, t \o v)
  <2>1. PICK x \in Seq(R) : x = t \o f
    BY <1>8
  <2>2. Starts(x, x \o l)
    <3>1. /\ Len(x \o l) = Len(x) + Len(l) /\ Len(x) \in Nat /\ Len(l) \in Nat
          /\ \A j \in 1..(Len(x) + Len(l)) : (x \o l)[j] = IF j <= Len(x) THEN x[j] ELSE l[j - Len(x)]
      BY Joined
    <3> QED
      BY <3>1 DEF Starts
  <2> QED
    BY <1>8, <2>1, <2>2
<1>17. l = << >> => t \o f = t \o v
  BY <1>8, ConcatEmptySeq
<1>18. told' = [told EXCEPT ![d] = told[d] \o f] /\ EndHandling(l)
  BY <1>7, <1>8 DEF Told
<1>19. Splits(R, d, replies, f, l)
  BY <1>4, <1>5, <1>6, <1>8, <1>10, <1>11, <1>12, <1>14, <1>15, <1>16, <1>17, <1>18 DEF Splits
<1> QED
  BY <1>19

LEMMA SendingKeeps ==
    ASSUME Inv, Fates, Texts', pc = "send", NEW replies, LeavesToSend(replies), SendsPart(replies)
    PROVE  Fates'
<1>1. PICK d \in Client : d = cur
  BY CurrentSession
<1>2. PICK R, first, rest : Splits(R, d, replies, first, rest)
  BY <1>1, Sending DEF Fates
<1>3. EndHandling(rest) /\ told' = [told EXCEPT ![d] = told[d] \o first]
  BY <1>2 DEF Splits
<1>4. /\ UNCHANGED <<inq, script, sent>> /\ events' = {}
      /\ DOMAIN session = Client /\ DOMAIN client = Client /\ DOMAIN inq = Client
      /\ DOMAIN told = Client
  BY <1>3 DEF EndHandling, Inv, Sessions, Fates, Texts, Lists
<1>5. IsSession(S) /\ S.action # "closed" /\ S = session[d] /\ client[d] # "new" /\ Open(d)
  BY <1>1, CurrentSession DEF Match, S, Inv, Loop, NoSession, Open
<1>6. \/ /\ session' = [session EXCEPT ![d] = NoSession]
         /\ client' = [client EXCEPT ![d] = IF @ = "open" THEN "dismissed" ELSE @]
      \/ session' = [session EXCEPT ![d] = [S EXCEPT !.response = rest]] /\ client' = client
  BY <1>1, <1>3 DEF EndHandling, S
<1>7. \A b \in Client \ {d} : Same(b)
  BY <1>3, <1>4, <1>6 DEF Same
<1>8. Reported'
  BY <1>4 DEF Reported
<1>9. told'[d] = told[d] \o first
  BY <1>3, <1>4
<1>10. ASSUME d \in Client \ Typist PROVE Fate(d)'
  <2>1. Fate(d)
    BY <1>10 DEF Fates
  <2>2. CASE session' = [session EXCEPT ![d] = [S EXCEPT !.response = rest]] /\ client' = client
    <3>1. PICK s : s = session'[d]
      OBVIOUS
    <3>2. s = [S EXCEPT !.response = rest]
      BY <1>4, <2>2, <3>1
    <3>3. /\ s.buffer = session[d].buffer /\ s.response = rest
          /\ s.action = session[d].action /\ s # NoSession
      BY <1>5, <3>2, SessionUpdates DEF NoSession
    <3>4. Own(Replies(d)') = Own(Replies(d))
      BY <1>2, <1>9, <3>1, <3>3 DEF Splits, Replies
    <3>5. Reads(d)
      BY <1>5, <2>1 DEF Fate
    <3>6. Reads(d)'
      BY <1>4, <3>1, <3>3, <3>4, <3>5 DEF Reads, ReadUpTo, Answering, Answerable, Letters
    <3> QED
      BY <1>5, <2>2, <3>1, <3>3, <3>6 DEF Fate, Open
  <2>3. CASE /\ session' = [session EXCEPT ![d] = NoSession]
             /\ client' = [client EXCEPT ![d] = IF @ = "open" THEN "dismissed" ELSE @]
    <3>1. session'[d] = NoSession /\ client'[d] # "new"
      BY <1>4, <1>5, <2>3
    <3>2. NoSession.response = << >>
      BY DEF NoSession
    <3>3. PICK all \in Seq(R), part \in Seq(R) :
             /\ all = told[d] \o replies /\ part = told[d] \o first
             /\ Starts(part, all) /\ Own(all) = Own(Replies(d))
      BY <1>2 DEF Splits
    <3>4. Replies(d)' = part
      BY <1>9, <3>1, <3>2, <3>3, ConcatEmptySeq DEF Replies
    <3>5. MatchesPart(Own(all), Answerable(d))
      BY <2>1, <3>3, FateMatches DEF Fates
    <3>6. Starts(Own(part), Own(all)) /\ Own(part) \in Seq(R) /\ Own(all) \in Seq(R)
      BY <3>3, OwnStarts, OwnIsOfReplies
    <3>7. Answerable(d) \in Seq(Seq(Letter))
      BY AnswerableIsList
    <3>8. MatchesPart(Own(part), Answerable(d))
      BY <3>5, <3>6, <3>7, PartMatchesPart
    <3>9. Answerable(d)' = Answerable(d)
      BY <1>4 DEF Answerable
    <3> QED
      BY <3>1, <3>4, <3>8, <3>9 DEF Fate, Open
  <2> QED
    BY <1>6, <2>2, <2>3
<1> QED
  BY <1>3, <1>4, <1>7, <1>8, <1>10, FatesKept

LEMMA EnvironmentKeepsFates ==
    ASSUME Inv, Fates, Texts',
           \/ \E c \in Client :
                \/ Connect(c) \/ Shut(c)
                \/ \E n \in 1..Len(Letters(c)) : Arrive(c, n)
                \/ \E reported \in SUBSET {"IN", "OUT", "HUP"} \ {{}} : Take(c, reported)
           \/ StoreChanges \/ Tick \/ DnsCrashes \/ Ended \/ UNCHANGED vars
    PROVE  Fates'
<1>1. CASE StoreChanges \/ Tick \/ DnsCrashes \/ Ended \/ UNCHANGED vars
  <2>1. UNCHANGED <<session, cur, events, inq, told, script, sent, client>>
    BY <1>1 DEF StoreChanges, Tick, DnsCrashes, Ended, vars, loopVars, clientVars
  <2>2. \A c \in Client \ Typist : Fate(c)'
    BY <2>1, FateStays DEF Fates
  <2>3. Reported'
    BY <2>1 DEF Fates, Reported
  <2> QED
    BY <2>1, <2>2, <2>3 DEF Fates
<1> QED
  BY <1>1, ConnectKeeps, ShutKeeps, ArriveKeeps, TakeKeeps

LEMMA CommandsAreReplied ==
    ASSUME Inv, Fates, Texts',
           Blank \/ EchoOrUndefined \/ Quit \/ DnsBusy \/ DnsFound \/ DnsFetching \/ DnsError
    PROVE  Fates'
<1>1. ASSUME NEW do \in {"blank", "quit"}, NEW action, action = IF do = "quit" THEN "quit" ELSE "none",
             Runs(do, action, << >>)
      PROVE  Fates'
  BY <1>1, CommandKeeps DEF Replied
<1>2. ASSUME NEW do \in {"echo", "undefined", "dns"}, NEW reply, Runs(do, "none", <<reply>>),
             ~IsConclusion(reply), Answers(reply, Text)
      PROVE  Fates'
  <2>1. Replied(do, "none", <<reply>>)
    BY <1>2 DEF Replied
  <2> QED
    BY <1>2, <2>1, CommandKeeps
<1>3. CASE Blank
  BY <1>1, <1>3 DEF Blank
<1>4. CASE Quit
  BY <1>1, <1>4 DEF Quit
<1>5. CASE EchoOrUndefined
  <2>1. PICK do \in {"echo", "undefined"} : Runs(do, "none", <<Reply(do, Text)>>)
    BY <1>5 DEF EchoOrUndefined
  <2>2. Meaning(Text).do = do
    BY <2>1 DEF Runs
  <2>3. ~IsConclusion(Reply(do, Text)) /\ Answers(Reply(do, Text), Text)
    BY <2>2 DEF IsConclusion, Reply, Answers
  <2> QED
    BY <1>2, <2>1, <2>3
<1>6. ASSUME NEW what \in {"busy", "found", "fetching", "error"}, NEW about,
             about = Dn \/ what = "busy", Runs("dns", "none", <<Reply(what, about)>>)
      PROVE  Fates'
  <2>1. Meaning(Text).do = "dns"
    BY <1>6 DEF Runs
  <2>2. ~IsConclusion(Reply(what, about)) /\ Answers(Reply(what, about), Text)
    BY <1>6, <2>1 DEF IsConclusion, Reply, Answers, Dn
  <2> QED
    BY <1>2, <1>6, <2>2
<1> QED
  BY <1>3, <1>4, <1>5, <1>6 DEF DnsBusy, DnsFound, DnsFetching, DnsError

(* What the handlers that send leave to be sent. *)
LEMMA PollLeaves ==
    ASSUME NoRoom \/ PollIdle \/ PollWaits \/ PollResolved \/ PollTimesOut
    PROVE  /\ pc = "send"
           /\ \E replies : /\ LeavesToSend(replies) /\ SendsPart(replies)
                           /\ \/ current' = current
                              \/ replies # S.response \/ S.response # << >>
                              \/ ~Waiting
<1>1. CASE NoRoom \/ PollIdle \/ PollWaits
  BY <1>1 DEF NoRoom, PollIdle, PollWaits, LeavesToSend, SendsPart, Sends, lookup
<1>2. ASSUME NEW what \in {"resolved", "timeout"}, Concludes(what)
      PROVE  /\ pc = "send"
             /\ \E replies : /\ LeavesToSend(replies) /\ SendsPart(replies)
                             /\ \/ replies # S.response \/ S.response # << >>
  <2> DEFINE r == Reply(what, current)
  <2>1. IsConclusion(r)
    BY DEF IsConclusion, Reply
  <2> HIDE DEF r
  <2>2. CASE Sends(Append(S.response, r))
    <3>1. CASE S.response = << >>
      <4>1. Append(<< >>, r) # << >>
        <5>1. << >> \in Seq({r}) /\ r \in {r}
          OBVIOUS
        <5> QED
          BY <5>1, AppendProperties
      <4> QED
        BY <2>1, <2>2, <3>1, <4>1 DEF LeavesToSend, SendsPart, Sends
    <3>2. CASE S.response # << >>
      BY <2>1, <2>2, <3>2 DEF LeavesToSend, SendsPart, Sends
    <3> QED
      BY <3>1, <3>2
  <2>3. CASE Sends(S.response) /\ S.response # << >>
    BY <2>3 DEF LeavesToSend, SendsPart, Sends
  <2> QED
    BY <1>2, <2>2, <2>3 DEF Concludes, r
<1> QED
  BY <1>1, <1>2 DEF PollResolved, PollTimesOut

LEMMA FatesNext == Inv /\ Once /\ Fates /\ [Next]_vars => Fates'
<1> SUFFICES ASSUME Inv, Once, Fates, [Next]_vars PROVE Fates'
  OBVIOUS
<1>1. Texts'
  BY OnceNext DEF Once
<1>2. CASE QuitIsLeft \/ ReplyIsPending
  BY <1>1, <1>2, HoldingKeeps DEF QuitIsLeft, ReplyIsPending
<1>3. CASE NoCommand
  BY <1>1, <1>3, NoCommandKeeps
<1>4. CASE NoRoom \/ PollIdle \/ PollWaits \/ PollResolved \/ PollTimesOut
  BY <1>1, <1>4, PollLeaves, SendingKeeps
<1>5. CASE Blank \/ EchoOrUndefined \/ Quit \/ DnsBusy \/ DnsFound \/ DnsFetching \/ DnsError
  BY <1>1, <1>5, CommandsAreReplied
<1> QED
  BY <1>1, <1>2, <1>3, <1>4, <1>5, EnvironmentKeepsFates DEF Next, Handlers

(* However the lines are cut and whoever polls, quits or hangs up, with      *)
(* replies unsent or lost: what a client whose lines come whole is told,     *)
(* look-ups that end aside, are the replies to its first commands, each to   *)
(* its own and in their order.                                               *)
THEOREM LinesAreRepliedInOrder == Spec => []RepliesMatchLines
<1>1. Init => Inv /\ Once /\ Fates
  BY InvInit, OnceInit, FatesInit
<1>2. Inv /\ Once /\ Fates /\ [Next]_vars => (Inv /\ Once /\ Fates)'
  BY InvNext, OnceNext, FatesNext
<1>3. Inv /\ Once /\ Fates => RepliesMatchLines
  BY FatesAnswer
<1> QED
  BY <1>1, <1>2, <1>3, PTL DEF Spec

-----------------------------------------------------------------------------
(* The client that has quit. *)

LEMMA StartsIsPrefix ==
    ASSUME NEW R, NEW s \in Seq(R), NEW u \in Seq(R), Starts(s, u)
    PROVE  IsPrefix(s, u)
<1>1. PICK n \in Nat : n = Len(s) /\ n <= Len(u) /\ \A i \in 1..n : u[i] = s[i]
  BY LenProperties DEF Starts
<1>2. SubSeq(s, 1, n) = s
  BY <1>1, SubSeqFull
<1>3. 0 + n <= Len(u) /\ 1 \in Int /\ 1 = 0 + 1 /\ n \in Int /\ n = 0 + n /\ 0 \in Nat
  BY <1>1
<1>4. /\ SubSeq(u, 1, n) \in Seq(R) /\ Len(SubSeq(u, 1, n)) = n
      /\ \A j \in 1..n : SubSeq(u, 1, n)[j] = u[0 + j]
  BY <1>3, Prefix
<1>5. PICK v \in Seq(R) : v = SubSeq(u, 1, n)
  BY <1>4
<1>6. Len(v) = n /\ s = [j \in 1..n |-> s[j]] /\ \A j \in 1..n : v[j] = s[j]
  <2>1. s = [j \in 1..n |-> s[j]]
    BY <1>1
  <2>2. \A j \in 1..n : v[j] = u[0 + j] /\ 0 + j = j
    BY <1>4, <1>5
  <2> QED
    BY <1>1, <1>4, <1>5, <2>1, <2>2
<1>7. v = s
  BY <1>6, SameItems
<1> QED
  BY <1>1, <1>2, <1>5, <1>7 DEF IsPrefix

LEMMA Dismissal ==
    ASSUME Inv, Fates, pc = "send", NEW replies, LeavesToSend(replies), SendsPart(replies),
           NEW c \in Client \ Typist, client'[c] = "dismissed", client[c] # "dismissed"
    PROVE  /\ c = cur /\ Len(Own(told'[c])) = Len(Answerable(c))
           /\ IsPrefix(Replies(c), told'[c])
           /\ session[c].response = << >> /\ replies # S.response => Len(told'[c]) > Len(Replies(c))
<1>1. PICK d \in Client : d = cur
  BY CurrentSession
<1>2. PICK R, first, rest : Splits(R, d, replies, first, rest)
  BY <1>1, Sending DEF Fates
<1>3. EndHandling(rest) /\ told' = [told EXCEPT ![d] = told[d] \o first]
  BY <1>2 DEF Splits
<1>4. /\ DOMAIN client = Client /\ DOMAIN told = Client
  BY DEF Inv, Sessions, Fates, Texts, Lists
<1>5. c = d /\ client[d] = "open" /\ ("HUP" \in events \/ IsDone(rest))
  BY <1>1, <1>3, <1>4 DEF EndHandling
<1>6. S.action = "quit" /\ rest = << >>
  BY <1>1, <1>5 DEF Fates, Reported, IsDone
<1>7. told'[c] = told[c] \o replies
  BY <1>2, <1>3, <1>4, <1>5, <1>6 DEF Splits
<1>8. Matches(Own(Replies(c)), Answerable(c))
  <2>1. Open(d) /\ Fate(d)
    BY <1>1, <1>5, CurrentSession DEF Inv, Loop, Fates
  <2>2. session[d].action = "quit"
    BY <1>1, <1>6 DEF S
  <2> QED
    BY <1>5, <2>1, <2>2 DEF Fate, Reads, Answering
<1>9. Len(Own(told'[c])) = Len(Answerable(c))
  BY <1>2, <1>5, <1>7, <1>8 DEF Splits, Matches
<1>10. IsPrefix(Replies(c), told'[c])
  BY <1>2, <1>5, <1>7, StartsIsPrefix DEF Splits
<1>11. ASSUME session[c].response = << >>, replies # S.response
       PROVE  Len(told'[c]) > Len(Replies(c))
  <2>1. PICK r : replies = Append(S.response, r)
    BY <1>11 DEF LeavesToSend
  <2>2. replies = Append(<< >>, r) /\ Replies(c) = told[c] /\ told[c] \in Seq(R) /\ replies \in Seq(R)
    BY <1>1, <1>2, <1>5, <1>11, <2>1, ConcatEmptySeq DEF S, Replies, Splits
  <2>3. Len(Append(<< >>, r)) = 1
    <3>1. << >> \in Seq({r}) /\ r \in {r} /\ Len(<< >>) = 0
      OBVIOUS
    <3> QED
      BY <3>1, AppendProperties
  <2>4. Len(told[c] \o replies) = Len(told[c]) + Len(replies) /\ Len(told[c]) \in Nat
    BY <2>2, ConcatProperties, LenProperties
  <2> QED
    BY <1>7, <2>2, <2>3, <2>4
<1> QED
  BY <1>1, <1>5, <1>9, <1>10, <1>11

LEMMA OnlySendingDismisses ==
    ASSUME Inv, [Next]_vars, NEW c \in Client, client'[c] = "dismissed", client[c] # "dismissed"
    PROVE  NoRoom \/ PollIdle \/ PollWaits \/ PollResolved \/ PollTimesOut
<1>1. DOMAIN client = Client
  BY DEF Inv, Sessions
<1>2. ASSUME NEW b \in Client, Connect(b) \/ Shut(b) PROVE FALSE
  BY <1>1, <1>2 DEF Connect, Shut
<1>3. client' # client
  OBVIOUS
<1>4. ~(\E s : Receives(s))
  BY <1>3 DEF Receives, clientVars
<1> QED
  BY <1>2, <1>3, <1>4 DEF Next, Handlers, Arrive, Take, StoreChanges, Tick, Ended, vars, clientVars,
       QuitIsLeft, ReplyIsPending, NoCommand, Blank, EchoOrUndefined, Quit, DnsBusy, DnsFound,
       DnsFetching, DnsError, DnsCrashes, Runs

(* A client that is dismissed, for having quit, has had its reply to every   *)
(* line before, each of them sent, and what the last poll has found.         *)
THEOREM QuittersAreAnswered == Spec => QuitIsAnsweredInFull
<1> DEFINE Kept ==
      \A c \in Client \ Typist :
          client'[c] = "dismissed" /\ client[c] # "dismissed"
            => /\ Len(Own(told'[c])) = Len(Answerable(c))
               /\ IsPrefix(Replies(c), told'[c])
               /\ Waiting /\ ~Waiting' /\ session[c].response = << >>
                    => Len(told'[c]) > Len(Replies(c))
<1>1. Inv /\ Fates /\ [Next]_vars => [Kept]_vars
  <2> SUFFICES ASSUME Inv, Fates, [Next]_vars, NEW c \in Client \ Typist,
                      client'[c] = "dismissed", client[c] # "dismissed"
               PROVE  /\ Len(Own(told'[c])) = Len(Answerable(c))
                      /\ IsPrefix(Replies(c), told'[c])
                      /\ Waiting /\ ~Waiting' /\ session[c].response = << >>
                           => Len(told'[c]) > Len(Replies(c))
    OBVIOUS
  <2>1. NoRoom \/ PollIdle \/ PollWaits \/ PollResolved \/ PollTimesOut
    BY OnlySendingDismisses
  <2>2. PICK replies : /\ LeavesToSend(replies) /\ SendsPart(replies)
                       /\ \/ current' = current
                          \/ replies # S.response \/ S.response # << >>
                          \/ ~Waiting
    BY <2>1, PollLeaves
  <2>3. pc = "send"
    BY <2>1, PollLeaves
  <2>4. /\ c = cur /\ Len(Own(told'[c])) = Len(Answerable(c))
        /\ IsPrefix(Replies(c), told'[c])
        /\ session[c].response = << >> /\ replies # S.response => Len(told'[c]) > Len(Replies(c))
    BY <2>2, <2>3, Dismissal
  <2> QED
    BY <2>2, <2>4 DEF Waiting, S
<1>2. Init => Inv /\ Once /\ Fates
  BY InvInit, OnceInit, FatesInit
<1>3. Inv /\ Once /\ Fates /\ [Next]_vars => (Inv /\ Once /\ Fates)'
  BY InvNext, OnceNext, FatesNext
<1>4. Spec => [](Inv /\ Fates)
  BY <1>2, <1>3, PTL DEF Spec
<1> QED
  BY <1>1, <1>4, PTL DEF Spec, QuitIsAnsweredInFull
=============================================================================
