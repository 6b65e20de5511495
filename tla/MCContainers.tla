----------------------------- MODULE MCContainers -----------------------------
(* The containers and the loader of the configuration, each by itself.       *)
EXTENDS Heap, LinkedList, StringMap, ConfigLoader

VARIABLE which

MCValue == 1..3
MCName == 1..6
MCHash == [n \in MCName |-> (7 - n) \div 2]

CONSTANTS d1, d2
MCDatum == {d1, d2}

(* Lines of the configuration, of which the last has no end or a blank too   *)
(* many: "auth = plain" is not "auth=plain".                                 *)
CONSTANTS alice, bob, pw, other
MCWord == {"auth", "auth_plain", "none", "plain",
           Blank, Equals, LineEnd, Path, alice, bob, pw, other}
ListGiven == <<Blank, "auth_plain", Equals, Path, LineEnd>>
MCConfigs ==
    LET auth == <<"auth", Equals, "plain", LineEnd>>
        spaced == <<"auth", Blank, Equals, Blank, "plain", LineEnd>>
    IN {Absent, auth, ListGiven, auth \o ListGiven, ListGiven \o auth,
        ListGiven \o ListGiven, spaced \o <<LineEnd>> \o ListGiven,
        <<"auth", Equals, Blank, other, LineEnd>>,
        ListGiven \o <<"auth", Equals, "none", Blank, LineEnd>>,
        ListGiven \o <<"auth_plain", Equals, other, LineEnd>>,
        auth \o <<"auth_plain", Equals, Path>>}

(* Rows: a user, one without a password, one behind a blank or two, ones that *)
(* are too long, with a rest that is read; the last with and without its end. *)
MCRows == {<<alice, Blank, pw>>, <<alice, Blank, other>>, <<bob, Blank, pw>>,
           <<bob>>, <<bob, Blank, Blank, other>>, <<Blank, alice, Blank, pw>>,
           <<alice, alice, alice>>, <<bob, Blank, pw, pw, pw>>,
           <<bob, bob, bob, alice, Blank, other>>, <<bob, Blank, pw, Blank, alice, Blank, other>>}
EndedRows == {r \o <<LineEnd>> : r \in MCRows}
OneRow == {<<>>} \cup EndedRows
TwoRows == OneRow \cup {r \o s : r, s \in EndedRows}
MCLists(starts) == starts \cup {s \o r : s \in starts, r \in MCRows}

(* Every configuration has its list of up to two rows, the plain one of up   *)
(* to three.  The files rest in their initial states where the others run.   *)
MCFiles ==
    IF which = "config"
    THEN \/ config \in MCConfigs /\ users \in {Absent} \cup MCLists(OneRow) /\ created \in BOOLEAN
         \/ config = ListGiven /\ users \in MCLists(TwoRows) /\ created = TRUE
    ELSE config = Absent /\ users = Absent /\ created = TRUE

MCInit ==
    /\ which \in {"heap", "list", "map", "config"}
    /\ MCFiles
    /\ which # "heap" => capacity = DEFAULT_CAPACITY /\ size = 0
    /\ HeapInit
    /\ ListInit
    /\ MapInit
    /\ ConfigInit

(* Only one name takes different values in turn.                             *)
MCData == \A n \in Name \ {3} : datum'[n] # d2

MCNext ==
    /\ \/ which = "heap" /\ HeapNext /\ UNCHANGED <<listVars, mapVars, configVars>>
       \/ which = "list" /\ ListNext /\ UNCHANGED <<heapVars, mapVars, configVars>>
       \/ which = "map" /\ MapNext /\ MCData
          /\ UNCHANGED <<heapVars, listVars, configVars>>
       \/ which = "config" /\ ConfigNext /\ UNCHANGED <<heapVars, listVars, mapVars>>
    /\ UNCHANGED which

MCSpec == MCInit /\ [][MCNext]_<<heapVars, listVars, mapVars, configVars, which>>
=============================================================================
