----------------------------- MODULE ConfigLoader -----------------------------
(***************************************************************************)
(* How socks5_start loads its configuration: ss_load_config of             *)
(* socks5/ss_config.c with the lists of users that it opens, over the      *)
(* string map and the blocks that hold the passwords.  One line of a file  *)
(* is read in each step.  A file is a sequence of words, blanks, "=" and   *)
(* line ends; a word stands for the characters it is made of, and the      *)
(* buffer for a name holds MaxLength of these.                             *)
(***************************************************************************)
EXTENDS Integers, Sequences, FiniteSetsExt, Functions

CONSTANTS
    Word,                     \* what files are made of
    Blank, Equals, LineEnd,   \* what is between words, and words too
    Path,                     \* the word that is the path of the list of users
    Absent,                   \* instead of a file that cannot be opened
    MaxLength,                \* sizeof(username) - 1, and of the password
    Blocks                    \* how many passwords fit into memory: a bound

ASSUME ConfigAssumption ==
    /\ Blank # LineEnd
    /\ Absent \notin Seq(Word)
    /\ MaxLength \in Nat \ {0}
    /\ Blocks \in Nat

VARIABLES
    config, users,   \* the files
    created,         \* ss_create_config, which returns nothing, gave the config
    loading,         \* what is being read, or how loading ended
    line,            \* where the next line of config starts
    row,             \* where the line of users is that is read, 0 before any
    rc,              \* what was in rc of parse_auth_plain, never assigned
    method,          \* auth_method
    accounts,        \* the map: the block with the password of each user
    stored           \* the password in each block, Absent in a free one

configVars == <<config, users, created, loading, line, row, rc, method,
                accounts, stored>>
files == <<config, users, created>>

None == <<>>
AllFree == [b \in 1..Blocks |-> Absent]

(* Any two files; the passwords of the one fit into memory.                  *)
ConfigInit ==
    /\ config = Absent \/ config \in Seq(Word)
    /\ users = Absent \/ (users \in Seq(Word) /\ Len(users) < Blocks)
    /\ created \in BOOLEAN
    /\ loading = "nothing"
    /\ line = 1 /\ row = 0
    /\ rc = 0
    /\ method = "none"
    /\ accounts = None
    /\ stored = AllFree

-----------------------------------------------------------------------------
(* The first place from p on of one of the marks, or the end of the file.    *)
FirstOf(text, p, marks) ==
    Min({k \in p..Len(text) : text[k] \in marks} \cup {Len(text) + 1})

Between(text, p, q) == SubSeq(text, p, q - 1)

(* ss_string_trim: only what is before the first word goes.                  *)
Trimmed(text) ==
    LET words == {k \in DOMAIN text : text[k] # Blank}
    IN IF words = {} THEN <<>> ELSE SubSeq(text, Min(words), Len(text))

(* read_config_line: a line that the file does not end is no line.           *)
KeyEnd == FirstOf(config, line, {Equals, LineEnd})
SettingStart == IF KeyEnd \in DOMAIN config /\ config[KeyEnd] = Equals
              THEN KeyEnd + 1 ELSE KeyEnd
LineStop == FirstOf(config, SettingStart, {LineEnd})
IsLine == LineStop \in DOMAIN config
Key == Trimmed(Between(config, line, KeyEnd))
Setting == Trimmed(Between(config, SettingStart, LineStop))

(* Where reading a word from p ends: a name may start with a blank.          *)
WordEnd(p, blanks) ==
    Min({k \in p..Len(users) : \/ users[k] = LineEnd
                               \/ users[k] = Blank /\ k >= blanks
                               \/ k - p = MaxLength}
        \cup {Len(users) + 1})

Overflows(p, q) == q - p = MaxLength /\ q \in DOMAIN users
                   /\ users[q] \notin {Blank, LineEnd}

(* read_auth_plain_line: what it returns and stores, and how far it reads.   *)
NameEnd == WordEnd(row, row + 1)
HasPassword == NameEnd \in DOMAIN users /\ users[NameEnd] = Blank
PasswordEnd == IF HasPassword THEN WordEnd(NameEnd + 1, 0) ELSE NameEnd
Password == IF HasPassword THEN Between(users, NameEnd + 1, PasswordEnd) ELSE <<>>
IsTooLong == \/ Overflows(row, NameEnd)
             \/ HasPassword /\ Overflows(NameEnd + 1, PasswordEnd)

RowRead ==
    IF IsTooLong
    THEN [code |-> -1, name |-> <<>>, password |-> <<>>, next |-> PasswordEnd + 1]
    ELSE [code |-> IF PasswordEnd \in DOMAIN users THEN 1 ELSE 0,
          name |-> Between(users, row, NameEnd),
          password |-> Password,
          next |-> PasswordEnd + 1]

-----------------------------------------------------------------------------
(* ss_release_config, which free()s the passwords that the map leads to.     *)
Released ==
    /\ loading' = IF created THEN "failed" ELSE "undefined"
    /\ accounts' = None
    /\ stored' = [b \in 1..Blocks |-> IF b \in Range(accounts) THEN Absent
                                                               ELSE stored[b]]
    /\ UNCHANGED <<files, row, rc, method>>

Open ==
    /\ loading = "nothing"
    /\ loading' = IF config = Absent THEN "failed" ELSE "config"
    /\ UNCHANGED <<files, line, row, rc, method, accounts, stored>>

ReadsLine == loading = "config" /\ IsLine /\ line' = LineStop + 1

OtherLine ==
    /\ ReadsLine
    /\ Key \notin {<<"auth">>, <<"auth_plain">>}
    /\ UNCHANGED <<files, loading, row, rc, method, accounts, stored>>

(* Without the config of ss_create_config what follows a random pointer is   *)
(* undefined.                                                                *)
MethodLine ==
    /\ ReadsLine
    /\ Key = <<"auth">>
    /\ IF Setting \in {<<"none">>, <<"plain">>}
       THEN /\ loading' = IF created THEN "config" ELSE "undefined"
            /\ method' = Setting[1]
            /\ UNCHANGED <<files, row, rc, accounts, stored>>
       ELSE Released

(* The loop over the users compares what a line returns with rc, which was   *)
(* never given a value, and goes on for as long as they differ.              *)
UsersLine ==
    /\ ReadsLine
    /\ Key = <<"auth_plain">>
    /\ IF Setting = <<Path>> /\ users # Absent
       THEN /\ loading' = "users"
            /\ row' = 1
            /\ rc' \in {-1, 0, 1, 2}
            /\ UNCHANGED <<files, method, accounts, stored>>
       ELSE Released

ConfigEnds ==
    /\ loading = "config" /\ ~IsLine
    /\ loading' = "loaded"
    /\ UNCHANGED <<files, line, row, rc, method, accounts, stored>>

-----------------------------------------------------------------------------
(* parse_auth_plain, a line in each step.  The row that ends the loop, if    *)
(* one does, is not stored.                                                  *)
GoesOnWithRows == loading = "users" /\ RowRead.code # rc
IsUser == RowRead.name # <<>> /\ RowRead.password # <<>>

RowsEnd ==
    /\ loading = "users" /\ RowRead.code = rc
    /\ UNCHANGED line
    /\ IF rc < 0
       THEN Released
       ELSE /\ loading' = "config"
            /\ UNCHANGED <<files, row, rc, method, accounts, stored>>

RowIsSkipped ==
    /\ GoesOnWithRows /\ ~IsUser
    /\ row' = RowRead.next
    /\ UNCHANGED <<files, loading, line, rc, method, accounts, stored>>

(* ss_string_clone                                                           *)
Cloned(b) == [stored EXCEPT ![b] = RowRead.password]

(* ss_strmap_put                                                             *)
Mapped(name, block) ==
    [n \in DOMAIN accounts \cup {name} |->
       IF n = name THEN block ELSE accounts[n]]

(* Mutant: a name that is listed again keeps its first password.             *)
RowIsStoredOnce ==
    /\ GoesOnWithRows /\ IsUser
    /\ row' = RowRead.next
    /\ loading' = IF created THEN "users" ELSE "undefined"
    /\ LET name == RowRead.name
           block == Min({b \in 1..Blocks : stored[b] = Absent})
       IN IF name \in DOMAIN accounts
          THEN UNCHANGED <<accounts, stored>>
          ELSE accounts' = Mapped(name, block) /\ stored' = Cloned(block)
    /\ UNCHANGED <<files, line, rc, method>>

(* The password that the name had is free()d when the map gives it back.     *)
RowIsStored ==
    /\ GoesOnWithRows /\ IsUser
    /\ row' = RowRead.next
    /\ loading' = IF created THEN "users" ELSE "undefined"
    /\ LET name == RowRead.name
           block == Min({b \in 1..Blocks : stored[b] = Absent})
       IN /\ accounts' = Mapped(name, block)
          /\ stored' = IF name \in DOMAIN accounts
                       THEN [Cloned(block) EXCEPT ![accounts[name]] = Absent]
                       ELSE Cloned(block)
    /\ UNCHANGED <<files, line, rc, method>>

(* The server runs on what was loaded, or does not start.                    *)
ConfigIsRead ==
    /\ loading \in {"loaded", "failed", "undefined"}
    /\ UNCHANGED configVars

ConfigNext ==
    \/ Open \/ OtherLine \/ MethodLine \/ UsersLine \/ ConfigEnds
    \/ RowsEnd \/ RowIsSkipped \/ RowIsStored
    \/ ConfigIsRead

ConfigSpec == ConfigInit /\ [][ConfigNext]_configVars

-----------------------------------------------------------------------------
(* A line of just a name and a password starts at i.                         *)
Lists(i) ==
    /\ i = 1 \/ users[i - 1] = LineEnd
    /\ i + 2 \in DOMAIN users
    /\ {users[i], users[i + 2]} \cap {Blank, LineEnd} = {}
    /\ users[i + 1] = Blank
    /\ i + 3 \in DOMAIN users => users[i + 3] = LineEnd

RowsBefore(p) == {i \in 1..(p - 1) : i \in DOMAIN users /\ Lists(i)}

(* Where a name may be read: where a line starts, behind a password, and     *)
(* behind a name or password that is too long, of which the rest is read.    *)
MayStart(i) ==
    \/ i = 1 \/ users[i - 1] \in {Blank, LineEnd}
    \/ i - 1 > MaxLength /\ \A k \in (i - MaxLength)..(i - 1) :
                                users[k] \notin {Blank, LineEnd}

(* A password for a name of one word is read at i.                           *)
Gives(i) ==
    /\ MayStart(i)
    /\ i + 2 \in DOMAIN users
    /\ {users[i], users[i + 2]} \cap {Blank, LineEnd} = {}
    /\ users[i + 1] = Blank

(* The text is read at i, all of it.                                         *)
IsRead(i, text) ==
    /\ MayStart(i)
    /\ SubSeq(users, i, i + Len(text) - 1) = text
    /\ i + Len(text) \in DOMAIN users => users[i + Len(text)] \in {Blank, LineEnd}

(* However the files and rc turn out, a line of a name and a password gives  *)
(* the name its password unless one comes for it later, be it in what is     *)
(* left of a line; a name has no password that the file does not hold for    *)
(* it, nor a part of one; and when rc was 0 by luck no line with an end is   *)
(* left out.  Each password in memory belongs to one name of the map, so     *)
(* that none is lost or free()d under a name.                                *)
UsersAreAsListed ==
    /\ loading \in {"users", "config", "loaded"} =>
       /\ \A i \in RowsBefore(row) :
             \/ \E k \in (i + 1)..(row - 1) : Gives(k) /\ users[k] = users[i]
             \/ /\ <<users[i]>> \in DOMAIN accounts
                /\ stored[accounts[<<users[i]>>]] = <<users[i + 2]>>
       /\ row > 0 /\ rc = 0 /\ loading # "users" =>
             \A i \in row..Len(users) : users[i] # LineEnd
    /\ \A name \in DOMAIN accounts :
          \E i \in DOMAIN users :
             IsRead(i, name \o <<Blank>> \o stored[accounts[name]])
    /\ IsInjective(accounts)
    /\ {b \in 1..Blocks : stored[b] # Absent} = Range(accounts)
=============================================================================
