---------------------------- MODULE AccountsProofs ----------------------------
(* The accounts, the key and the sessions for any number of tabs, names,
   passwords and faults. The inductive invariant adds to the types what a tab
   still waits for when the server is down, who may be about to insert an admin,
   which key the file, the server and the sealed secrets share, on which page an
   answer finds its tab, and what the token of a request is still worth. *)
EXTENDS Accounts, FiniteSetTheorems, TLAPS

SecretTypes ==
    /\ jwtSecret \in Secrets \cup {0}
    /\ keyFile \in Keys \cup {0} /\ sealed \in Keys \cup {0}
    /\ masterKey \in Keys \cup {0}
    /\ boot \in [Processes -> {"down", "write_key", "read_secret", "write_secret",
                               "create_check", "insert", "up"}]

UserTypes == users \in [Ids -> Credentials \cup {NoUser}]

BrowserTypes == storage \in Tokens \cup {NoToken, Expired}

TabTypes ==
    /\ pc \in [Tabs -> Settled \cup Loading \cup Serving]
    /\ form \in [Tabs -> Credentials \cup {NoUser}]
    /\ account \in [Tabs -> Ids \cup {0}]
    /\ \A t \in Tabs :
          /\ pc[t] \in {"login_sign", "password_write"} => account[t] # 0
          /\ account[t] # 0 => pc[t] \in {"login_sign", "password_check", "password_write"}

AskTypes ==
    /\ asked \in [Tabs -> Bearing \cup {"none", "status"}]
    /\ carried \in [Tabs -> Ids \cup {0}]
    /\ replaced \subseteq {t \in Tabs : asked[t] \in Bearing}
    /\ \A t \in Tabs :
          /\ carried[t] # 0 => asked[t] \in Bearing
          /\ asked[t] # "none" => Up

FaultTypes == faults \in 0 .. MaxFaults

FlagTypes ==
    /\ cookie \in BOOLEAN /\ overlap \in BOOLEAN /\ disturbed \in BOOLEAN

\* A request that has read the database waits for its second half only while the
\* server is up, and the row it read is still there.
WaitInv ==
    \A t \in Tabs :
        /\ ~Up => pc[t] \notin {"login_sign", "setup_insert", "password_check", "password_write"}
        /\ pc[t] = "auto_login" => form[t] # NoUser
        /\ account[t] # 0 => users[account[t]] # NoUser

\* Without an overlap there is one admin at most, and none while one is inserted.
AdminInv ==
    overlap \/ /\ \A i, j \in Ids : users[i] # NoUser /\ users[j] # NoUser => i = j
               /\ Inserting # {} => ~UserExists

\* If nothing disturbed it, the server's key is the file's, secrets are sealed
\* with it, and a new key is written only where there is none.
KeyInv ==
    disturbed \/ /\ sealed # 0 => keyFile = sealed
                 /\ boot["server"] \in {"read_secret", "write_secret", "up"} =>
                        masterKey = keyFile /\ keyFile # 0
                 /\ \A p \in Processes : boot[p] = "write_key" => keyFile = 0

\* The page that awaits an answer is still there, or about to be left.
PlaceInv ==
    \A t \in Tabs :
        /\ asked[t] \in {"me", "status"} => pc[t] \in {"login_form", "login_sign"} \cup Loading
        /\ asked[t] = "page" => pc[t] \in {"home"} \cup Loading

\* The user of a token the server accepts is in the table: no row goes away
\* without the secret, and no new secret is that of an old token.
TokenInv == Authorized => users[storage.user] # NoUser

AskInv == AskTypes /\ PlaceInv

AccountsInv ==
    /\ SecretTypes /\ UserTypes /\ BrowserTypes /\ TabTypes /\ FaultTypes /\ FlagTypes
    /\ WaitInv /\ AdminInv /\ KeyInv

LEMMA TypeOKParts ==
  TypeOK <=> SecretTypes /\ UserTypes /\ BrowserTypes /\ TabTypes /\ FaultTypes
             /\ FlagTypes /\ AskTypes
BY DEF TypeOK, SecretTypes, UserTypes, BrowserTypes, TabTypes, FaultTypes, FlagTypes, AskTypes

-----------------------------------------------------------------------------

LEMMA AccountsInitInv == Init => AccountsInv
<1> SUFFICES ASSUME Init PROVE AccountsInv
  OBVIOUS
<1>1. SecretTypes /\ UserTypes /\ BrowserTypes
  BY DEF Init, SecretTypes, UserTypes, BrowserTypes, Processes
<1>2. TabTypes
  BY DEF Init, TabTypes, Settled
<1>3. FaultTypes /\ FlagTypes
  <2>1. FaultTypes
    BY AccountsAssumption DEF Init, FaultTypes
  <2> QED BY <2>1 DEF Init, FlagTypes
<1>4. WaitInv
  BY DEF Init, WaitInv
<1>5. AdminInv
  BY DEF Init, AdminInv, Inserting, UserExists
<1>6. KeyInv
  BY DEF Init, KeyInv, Processes
<1> QED BY <1>1, <1>2, <1>3, <1>4, <1>5, <1>6 DEF AccountsInv

-----------------------------------------------------------------------------
(* Processes *)

\* A process step that leaves the users, the browser and its tabs alone.
LEMMA ProcessFrame ==
  ASSUME AccountsInv, UNCHANGED <<users, browser, pc, form, account, overlap>>, Up => Up',
         boot'["setup"] = "insert" => boot["setup"] = "insert"
  PROVE  UserTypes' /\ BrowserTypes' /\ TabTypes' /\ WaitInv' /\ AdminInv'
<1> USE DEF AccountsInv, browser
<1>1. UserTypes' /\ BrowserTypes' /\ TabTypes'
  BY DEF UserTypes, BrowserTypes, TabTypes
<1>2. WaitInv'
  BY DEF WaitInv
<1>3. Inserting' \subseteq Inserting
  BY DEF Inserting
<1>4. AdminInv'
  BY <1>3 DEF AdminInv, UserExists
<1> QED BY <1>1, <1>2, <1>4

LEMMA ReadKeyKeeps ==
  ASSUME AccountsInv, NEW p \in Processes, ReadKey(p)
  PROVE  AccountsInv'
<1> USE DEF AccountsInv
<1>1. /\ UNCHANGED <<disk, browser, tabs, overlap>>
      /\ boot[p] = "down"
      /\ \/ /\ keyFile # 0 /\ boot' = [boot EXCEPT ![p] = "read_secret"]
            /\ masterKey' = IF p = "server" THEN keyFile ELSE masterKey
            /\ UNCHANGED <<faults, disturbed>>
         \/ /\ boot' = [boot EXCEPT ![p] = "write_key"]
            /\ UNCHANGED masterKey
            /\ \/ keyFile = 0 /\ UNCHANGED <<faults, disturbed>>
               \/ Fault /\ disturbed' = TRUE
  BY DEF ReadKey, At, KeyUsable, NoFault
<1>2. SecretTypes'
  BY <1>1 DEF SecretTypes, disk
<1>3. FaultTypes' /\ FlagTypes'
  <2>1. FaultTypes'
    BY <1>1, AccountsAssumption DEF FaultTypes, Fault
  <2>2. FlagTypes'
    BY <1>1 DEF FlagTypes, browser
  <2> QED BY <2>1, <2>2
<1>4. UserTypes' /\ BrowserTypes' /\ TabTypes' /\ WaitInv' /\ AdminInv'
  BY <1>1, ProcessFrame DEF disk, tabs, Up, SecretTypes, Processes
<1>5. KeyInv'
  BY <1>1 DEF KeyInv, SecretTypes, Processes, disk
<1> QED BY <1>2, <1>3, <1>4, <1>5

LEMMA WriteKeyKeeps ==
  ASSUME AccountsInv, NEW p \in Processes, WriteKey(p)
  PROVE  AccountsInv'
<1> USE DEF AccountsInv
<1>0. \E k \in Keys : k \notin {sealed, masterKey}
  BY DEF Keys
<1>1. /\ UNCHANGED <<users, jwtSecret, sealed, browser, tabs, overlap>>
      /\ boot[p] = "write_key"
      /\ \/ /\ boot' = [boot EXCEPT ![p] = "read_secret"]
            /\ keyFile' \in Keys
            /\ masterKey' = IF p = "server" THEN keyFile' ELSE masterKey
            /\ disturbed' = (disturbed \/ \E q \in Processes \ {p} : boot[q] = "write_key")
            /\ UNCHANGED faults
         \/ /\ boot' = [boot EXCEPT ![p] = "down"]
            /\ Fault
            /\ UNCHANGED <<keyFile, masterKey, disturbed>>
  BY <1>0 DEF WriteKey, At, NoFault
<1>2. SecretTypes'
  BY <1>1 DEF SecretTypes
<1>3. FaultTypes' /\ FlagTypes'
  <2>1. FaultTypes'
    BY <1>1, AccountsAssumption DEF FaultTypes, Fault
  <2>2. disturbed' \in BOOLEAN
    BY <1>1, Zenon DEF FlagTypes
  <2> QED BY <1>1, <2>1, <2>2 DEF FlagTypes, browser
<1>4. UserTypes' /\ BrowserTypes' /\ TabTypes' /\ WaitInv' /\ AdminInv'
  BY <1>1, ProcessFrame DEF tabs, Up, SecretTypes, Processes
<1>5. KeyInv'
  <2>1. CASE disturbed'
    BY <2>1 DEF KeyInv
  <2>2. CASE ~disturbed'
    <3>1. ~disturbed /\ keyFile = 0 /\ sealed = 0
      <4>1. ~disturbed
        BY <1>1, <2>2, Zenon
      <4> QED BY <1>1, <4>1 DEF KeyInv
    <3>2. boot["server"] \notin {"read_secret", "write_secret", "up"}
      BY <3>1 DEF KeyInv
    <3>3. CASE boot' = [boot EXCEPT ![p] = "down"] /\ UNCHANGED <<keyFile, masterKey>>
      BY <1>1, <3>1, <3>2, <3>3 DEF KeyInv, SecretTypes, Processes
    <3>4. CASE /\ boot' = [boot EXCEPT ![p] = "read_secret"]
               /\ keyFile' \in Keys
               /\ masterKey' = IF p = "server" THEN keyFile' ELSE masterKey
               /\ \A q \in Processes \ {p} : boot[q] # "write_key"
      <4>1. keyFile' # 0
        BY <3>4 DEF Keys
      <4> QED BY <1>1, <3>1, <3>2, <3>4, <4>1 DEF KeyInv, SecretTypes, Processes
    <3> QED BY <1>1, <2>2, <3>3, <3>4
  <2> QED BY <2>1, <2>2
<1> QED BY <1>2, <1>3, <1>4, <1>5

LEMMA SecretKeeps ==
  ASSUME AccountsInv, NEW p \in Processes, ReadSecret(p) \/ WriteSecret(p)
  PROVE  AccountsInv'
<1> USE DEF AccountsInv
<1>0. \E s \in Secrets : s # storage.secret
  BY DEF Secrets
<1>1. /\ UNCHANGED <<users, keyFile, sealed, browser, pc, form, account, overlap, disturbed>>
      /\ jwtSecret' \in Secrets \cup {jwtSecret}
      /\ NoFault \/ Fault
      /\ boot[p] \in {"read_secret", "write_secret"}
      /\ \E to \in {"write_secret", "up", "create_check", "down"} :
            /\ boot' = [boot EXCEPT ![p] = to]
            /\ to = "up" => p = "server"
            /\ masterKey' = IF to = "down" /\ p = "server" THEN 0 ELSE masterKey
  <2>1. CASE ReadSecret(p)
    BY <2>1 DEF ReadSecret, At, AfterSecret, NoFault, Fault, disk, tabs, ghosts, Processes
  <2>2. CASE WriteSecret(p)
    BY <1>0, <2>2 DEF WriteSecret, At, AfterSecret, NoFault, Fault, ghosts, Processes
  <2> QED BY <2>1, <2>2
<1>2. PICK to \in {"write_secret", "up", "create_check", "down"} :
            /\ boot' = [boot EXCEPT ![p] = to]
            /\ to = "up" => p = "server"
            /\ masterKey' = IF to = "down" /\ p = "server" THEN 0 ELSE masterKey
  BY <1>1
<1>3. SecretTypes'
  BY <1>1, <1>2 DEF SecretTypes
<1>4. FaultTypes' /\ FlagTypes'
  <2>1. FaultTypes'
    BY <1>1, AccountsAssumption DEF FaultTypes, NoFault, Fault
  <2>2. FlagTypes'
    BY <1>1 DEF FlagTypes, browser
  <2> QED BY <2>1, <2>2
<1>5. UserTypes' /\ BrowserTypes' /\ TabTypes' /\ WaitInv' /\ AdminInv'
  BY <1>1, <1>2, ProcessFrame DEF Up, SecretTypes, Processes
<1>6. KeyInv'
  BY <1>1, <1>2 DEF KeyInv, SecretTypes, Processes
<1> QED BY <1>3, <1>4, <1>5, <1>6

LEMMA StopKeeps ==
  ASSUME AccountsInv, NEW p \in Processes, Stop(p)
  PROVE  AccountsInv'
<1> USE DEF AccountsInv
<1>1. /\ boot' = [boot EXCEPT ![p] = "down"]
      /\ Fault
      /\ UNCHANGED <<users, jwtSecret, keyFile, sealed, storage, cookie, overlap, disturbed>>
      /\ p # "server" => UNCHANGED <<masterKey, pc, form, account>>
      /\ p = "server" =>
           /\ masterKey' = 0
           /\ pc' = [t \in Tabs |-> Unanswered(t)]
           /\ form' = [t \in Tabs |-> IF pc[t] = "login_sign" THEN NoUser ELSE form[t]]
           /\ account' = [t \in Tabs |-> 0]
  BY DEF Stop, disk, browser, tabs, ghosts
<1>2. SecretTypes'
  BY <1>1 DEF SecretTypes
<1>3. FaultTypes' /\ FlagTypes'
  <2>1. FaultTypes'
    BY <1>1, AccountsAssumption DEF FaultTypes, Fault
  <2> QED BY <1>1, <2>1 DEF FlagTypes
<1>4. UserTypes' /\ BrowserTypes'
  BY <1>1 DEF UserTypes, BrowserTypes
<1>5. KeyInv'
  BY <1>1 DEF KeyInv, SecretTypes, Processes
<1>6. CASE p # "server"
  BY <1>1, <1>2, <1>3, <1>5, <1>6, ProcessFrame DEF Up, SecretTypes, Processes, browser
<1>7. CASE p = "server"
  <2>1. \A t \in Tabs : /\ pc'[t] = Unanswered(t)
                        /\ pc'[t] \in (Settled \cup Loading \cup Serving)
                                        \ {"login_sign", "setup_insert", "password_check",
                                           "password_write"}
                        /\ pc'[t] = "auto_login" => pc[t] = "auto_login"
    BY <1>1, <1>7 DEF Unanswered, TabTypes, Settled, Loading, Serving
  <2>2. TabTypes'
    <3>1. pc' \in [Tabs -> Settled \cup Loading \cup Serving]
      BY <1>1, <1>7, <2>1
    <3>2. form' \in [Tabs -> Credentials \cup {NoUser}]
      BY <1>1, <1>7 DEF TabTypes
    <3> QED BY <1>1, <1>7, <2>1, <3>1, <3>2 DEF TabTypes
  <2>3. WaitInv'
    BY <1>1, <1>7, <2>1 DEF WaitInv
  <2>4. AdminInv'
    <3>1. Inserting' \subseteq Inserting
      BY <1>1, <1>7, <2>1 DEF Inserting, SecretTypes, Processes
    <3> QED BY <1>1, <3>1 DEF AdminInv, UserExists
  <2> QED BY <1>2, <1>3, <1>4, <1>5, <2>2, <2>3, <2>4
<1> QED BY <1>6, <1>7

LEMMA SealAndResetKeep ==
  ASSUME AccountsInv, Seal \/ Reset
  PROVE  AccountsInv'
<1> USE DEF AccountsInv
<1>1. CASE Seal
  <2>1. /\ Up /\ sealed' = masterKey
        /\ UNCHANGED <<users, jwtSecret, keyFile, boot, masterKey, browser, tabs, faults,
                       ghosts>>
    BY <1>1 DEF Seal
  <2>2. SecretTypes'
    BY <2>1 DEF SecretTypes
  <2>3. KeyInv'
    BY <2>1 DEF KeyInv, ghosts, Up
  <2>4. UserTypes' /\ BrowserTypes' /\ TabTypes' /\ WaitInv' /\ AdminInv'
    BY <2>1, ProcessFrame DEF tabs, Up, ghosts
  <2>5. FaultTypes' /\ FlagTypes'
    BY <2>1 DEF FaultTypes, FlagTypes, browser, ghosts
  <2> QED BY <2>2, <2>3, <2>4, <2>5
<1>2. CASE Reset
  <2>1. /\ \A p \in Processes : boot[p] = "down"
        /\ UNCHANGED <<boot, masterKey, storage, cookie, pc, form, account>>
        /\ NoFault \/ Fault
        /\ keyFile' \in {keyFile, 0}
        /\ \/ /\ users' = [i \in Ids |-> NoUser]
              /\ jwtSecret' = 0 /\ sealed' = 0
              /\ overlap' = FALSE
              /\ disturbed' = (disturbed \/ FALSE)
           \/ /\ UNCHANGED <<users, jwtSecret, sealed, overlap>>
              /\ disturbed' = (disturbed \/ TRUE)
    BY <1>2, Zenon DEF Reset, browser, tabs
  <2>2. \/ disturbed' = disturbed
        \/ disturbed' = TRUE /\ UNCHANGED <<users, jwtSecret, sealed, overlap>>
    BY <2>1 DEF FlagTypes
  <2>3. ~Up /\ ~Up' /\ \A t \in Tabs : account[t] = 0
    BY <2>1 DEF Up, Processes, WaitInv, TabTypes
  <2>4. SecretTypes'
    BY <2>1 DEF SecretTypes
  <2>5. UserTypes' /\ BrowserTypes' /\ TabTypes'
    BY <2>1 DEF UserTypes, BrowserTypes, TabTypes
  <2>6. FaultTypes' /\ FlagTypes'
    <3>1. FaultTypes'
      BY <2>1, AccountsAssumption DEF FaultTypes, NoFault, Fault
    <3>2. overlap' \in BOOLEAN
      BY <2>1 DEF FlagTypes
    <3>3. disturbed' \in BOOLEAN
      BY <2>2 DEF FlagTypes
    <3> QED BY <2>1, <3>1, <3>2, <3>3 DEF FlagTypes
  <2>7. WaitInv'
    BY <2>1, <2>3 DEF WaitInv
  <2>8. AdminInv'
    <3>1. UNCHANGED Inserting
      BY <2>1 DEF Inserting
    <3>2. CASE users' = [i \in Ids |-> NoUser]
      BY <3>2 DEF AdminInv, UserExists
    <3>3. CASE UNCHANGED <<users, overlap>>
      BY <3>1, <3>3 DEF AdminInv, UserExists
    <3> QED BY <2>1, <3>2, <3>3
  <2>9. KeyInv'
    <3>1. CASE disturbed'
      BY <3>1 DEF KeyInv
    <3>2. CASE ~disturbed'
      <4>1. sealed' = 0 /\ \A p \in Processes : boot'[p] = "down"
        <5>1. ~(disturbed' = TRUE)
          BY <3>2
        <5>2. ~(disturbed' = (disturbed \/ TRUE))
          BY <3>2
        <5> QED BY <2>1, <5>2, Zenon
      <4> QED BY <4>1 DEF KeyInv, Processes
    <3> QED BY <3>1, <3>2
  <2> QED BY <2>4, <2>5, <2>6, <2>7, <2>8, <2>9
<1> QED BY <1>1, <1>2

-----------------------------------------------------------------------------
(* Inserting an admin *)

\* Somebody who is about to insert an admin is not alone when two are.
LEMMA InsertersCounted ==
  ASSUME NEW x \in Inserting, NEW y \in Inserting, x # y
  PROVE  Cardinality(Inserting) > 1
<1>1. IsFiniteSet(Inserting)
  <2>1. IsFiniteSet({t \in Tabs : pc[t] = "setup_insert"})
    BY AccountsAssumption, FS_Subset
  <2>2. IsFiniteSet({p \in {"setup"} : boot[p] = "insert"})
    BY FS_Singleton, FS_Subset
  <2> QED BY <2>1, <2>2, FS_Union DEF Inserting
<1>2. {x} \subseteq Inserting /\ {x} # Inserting
  OBVIOUS
<1>3. Cardinality({x}) = 1
  BY FS_Singleton
<1>4. Cardinality({x}) < Cardinality(Inserting)
  BY <1>1, <1>2, FS_Subset, FS_CardinalityType
<1> QED BY <1>3, <1>4

\* What the insert of one of those who are about to leaves for the others.
LEMMA InsertKeeps ==
  ASSUME AccountsInv, NEW c \in Credentials, NEW x \in Inserting, InsertUser(c),
         Inserting' \subseteq Inserting \ {x}
  PROVE  /\ UserTypes' /\ AdminInv' /\ overlap' \in BOOLEAN
         /\ \A i \in Ids : users[i] # NoUser => users'[i] # NoUser
<1> USE DEF AccountsInv
<1>0. c # NoUser /\ c \in Credentials
  BY AccountsAssumption DEF Credentials, NoUser
<1> DEFINE free == CHOOSE i \in Ids : users[i] = NoUser
<1>1. users' = [users EXCEPT ![free] = c]
      /\ overlap' = (overlap \/ Cardinality(Inserting) > 1)
  BY DEF InsertUser
<1>2. UserTypes' /\ \A i \in Ids : users[i] # NoUser => users'[i] # NoUser
  BY <1>0, <1>1 DEF UserTypes
<1>3. overlap' \in BOOLEAN
  BY <1>1, Zenon DEF FlagTypes
<1>4. AdminInv'
  <2>1. CASE overlap'
    BY <2>1 DEF AdminInv
  <2>2. CASE ~overlap'
    <3>1. ~overlap /\ ~(Cardinality(Inserting) > 1)
      BY <1>1, <2>2, Zenon
    <3>2. Inserting' = {}
      BY <3>1, InsertersCounted
    <3>3. \A i \in Ids : users[i] = NoUser
      BY <3>1 DEF AdminInv, UserExists
    <3>4. \A i, j \in Ids : users'[i] # NoUser /\ users'[j] # NoUser => i = j
      BY <1>1, <3>3 DEF UserTypes
    <3> QED BY <3>2, <3>4 DEF AdminInv
  <2> QED BY <2>1, <2>2
<1> QED BY <1>2, <1>3, <1>4

LEMMA SetupKeeps ==
  ASSUME AccountsInv, SetupChecks \/ SetupInserts
  PROVE  AccountsInv'
<1> USE DEF AccountsInv
<1>1. CASE SetupChecks
  <2>1. /\ UNCHANGED <<disk, masterKey, browser, tabs, faults, ghosts>>
        /\ boot["setup"] = "create_check"
        /\ \/ boot' = [boot EXCEPT !["setup"] = "insert"] /\ ~UserExists
           \/ boot' = [boot EXCEPT !["setup"] = "down"]
    BY <1>1 DEF SetupChecks, At, MayCreate
  <2>2. SecretTypes' /\ KeyInv'
    BY <2>1 DEF SecretTypes, KeyInv, disk, ghosts, Processes
  <2>3. UserTypes' /\ BrowserTypes' /\ TabTypes' /\ FaultTypes' /\ FlagTypes'
    BY <2>1 DEF UserTypes, BrowserTypes, TabTypes, FaultTypes, FlagTypes, disk, browser,
       tabs, ghosts
  <2>4. WaitInv'
    BY <2>1 DEF WaitInv, Up, SecretTypes, Processes, disk, tabs
  <2>5. AdminInv'
    <3>1. CASE ~UserExists
      BY <2>1, <3>1 DEF AdminInv, UserExists, disk, ghosts
    <3>2. CASE boot' = [boot EXCEPT !["setup"] = "down"]
      <4>1. Inserting' \subseteq Inserting
        BY <2>1, <3>2 DEF Inserting, tabs, SecretTypes, Processes
      <4> QED BY <2>1, <4>1 DEF AdminInv, UserExists, disk, ghosts
    <3> QED BY <2>1, <3>1, <3>2
  <2> QED BY <2>2, <2>3, <2>4, <2>5
<1>2. CASE SetupInserts
  <2>1. /\ UNCHANGED <<jwtSecret, keyFile, sealed, masterKey, browser, tabs, disturbed>>
        /\ boot["setup"] = "insert" /\ boot' = [boot EXCEPT !["setup"] = "down"]
        /\ NoFault \/ Fault
        /\ (\E c \in Credentials : InsertUser(c)) \/ UNCHANGED <<users, overlap>>
    BY <1>2 DEF SetupInserts, At
  <2>2. SecretTypes' /\ KeyInv'
    BY <2>1 DEF SecretTypes, KeyInv, Processes
  <2>3. BrowserTypes' /\ TabTypes' /\ cookie' \in BOOLEAN /\ disturbed' \in BOOLEAN
    BY <2>1 DEF BrowserTypes, TabTypes, FlagTypes, browser, tabs
  <2>4. FaultTypes'
    BY <2>1, AccountsAssumption DEF FaultTypes, NoFault, Fault
  <2>5. Inserting' \subseteq Inserting \ {"setup"} /\ "setup" \in Inserting
    BY <2>1, AccountsAssumption DEF Inserting, tabs, SecretTypes, Processes
  <2>6. /\ UserTypes' /\ AdminInv' /\ overlap' \in BOOLEAN
        /\ \A i \in Ids : users[i] # NoUser => users'[i] # NoUser
    <3>1. CASE \E c \in Credentials : InsertUser(c)
      BY <2>5, <3>1, InsertKeeps
    <3>2. CASE UNCHANGED <<users, overlap>>
      BY <2>5, <3>2 DEF UserTypes, FlagTypes, AdminInv, UserExists
    <3> QED BY <2>1, <3>1, <3>2
  <2>7. WaitInv'
    BY <2>1, <2>6 DEF WaitInv, TabTypes, Up, SecretTypes, Processes, tabs
  <2> QED BY <2>2, <2>3, <2>4, <2>6, <2>7 DEF FlagTypes
<1> QED BY <1>1, <1>2

-----------------------------------------------------------------------------
(* Tabs *)

\* Where a request waits for its second half.
Halfway == {"login_sign", "setup_insert", "password_check", "password_write"}

\* A tab moves and the rows stay.
LEMMA MoveKeeps ==
  ASSUME AccountsInv, NEW t \in Tabs, NEW x \in Settled \cup Loading \cup Serving, Go(t, x),
         ServerSame, RowsSame, BrowserTypes', cookie' \in BOOLEAN, NoFault \/ Fault,
         form' \in [Tabs -> Credentials \cup {NoUser}],
         account' \in [Tabs -> Ids \cup {0}],
         \A s \in Tabs \ {t} : form'[s] = form[s] /\ account'[s] = account[s],
         x \in {"login_sign", "password_write"} => account'[t] # 0,
         account'[t] # 0 => x \in {"login_sign", "password_check", "password_write"},
         account'[t] # 0 => users[account'[t]] # NoUser,
         x = "auto_login" => form'[t] # NoUser,
         x \in Halfway => Up,
         x = "setup_insert" => ~UserExists
  PROVE  AccountsInv'
<1> USE DEF AccountsInv
<1>1. /\ pc' = [pc EXCEPT ![t] = x]
      /\ UNCHANGED <<jwtSecret, keyFile, sealed, boot, masterKey, disturbed, users, overlap>>
  BY DEF Go, ServerSame, RowsSame
<1>2. SecretTypes' /\ UserTypes' /\ KeyInv'
  BY <1>1 DEF SecretTypes, UserTypes, KeyInv
<1>3. FaultTypes' /\ FlagTypes'
  <2>1. FaultTypes'
    BY AccountsAssumption DEF FaultTypes, NoFault, Fault
  <2> QED BY <1>1, <2>1 DEF FlagTypes
<1>4. TabTypes'
  <2>1. pc' \in [Tabs -> Settled \cup Loading \cup Serving]
    BY <1>1 DEF TabTypes
  <2>2. \A s \in Tabs :
          /\ pc'[s] \in {"login_sign", "password_write"} => account'[s] # 0
          /\ account'[s] # 0 => pc'[s] \in {"login_sign", "password_check", "password_write"}
    BY <1>1 DEF TabTypes
  <2> QED BY <2>1, <2>2 DEF TabTypes
<1>5. WaitInv'
  <2>1. pc'[t] = x /\ \A s \in Tabs \ {t} : pc'[s] = pc[s]
    BY <1>1 DEF TabTypes
  <2> QED BY <1>1, <2>1 DEF WaitInv, Up, Halfway
<1>6. AdminInv'
  <2>1. CASE x = "setup_insert"
    BY <1>1, <2>1 DEF AdminInv, UserExists
  <2>2. CASE x # "setup_insert"
    <3>1. Inserting' \subseteq Inserting
      BY <1>1, <2>2 DEF Inserting, TabTypes
    <3> QED BY <1>1, <3>1 DEF AdminInv, UserExists
  <2> QED BY <2>1, <2>2
<1> QED BY <1>2, <1>3, <1>4, <1>5, <1>6

\* The common case: a page that leaves form and account alone.
LEMMA PageKeeps ==
  ASSUME AccountsInv, NEW t \in Tabs,
         NEW x \in Settled \cup Loading, Go(t, x),
         pc[t] \notin {"login_sign", "password_check", "password_write"},
         ServerSame, RowsSame, TabSame, NoFault \/ Fault,
         UNCHANGED browser \/ ClearToken
  PROVE  AccountsInv'
<1>1. BrowserTypes' /\ cookie' \in BOOLEAN
  BY DEF AccountsInv, BrowserTypes, FlagTypes, browser, ClearToken
<1>2. account'[t] = 0
  BY DEF AccountsInv, TabTypes, TabSame
<1>3. x \in Settled \cup Loading \cup Serving /\ x # "auto_login" /\ x \notin Halfway
      /\ x \notin {"login_sign", "password_write"}
  BY DEF Settled, Loading, Serving, Halfway
<1>4. /\ form' \in [Tabs -> Credentials \cup {NoUser}]
      /\ account' \in [Tabs -> Ids \cup {0}]
      /\ \A s \in Tabs \ {t} : form'[s] = form[s] /\ account'[s] = account[s]
  BY DEF AccountsInv, TabTypes, TabSame
<1>5. x = "setup_insert" => ~UserExists
  BY <1>3 DEF Halfway
<1> QED BY <1>1, <1>2, <1>3, <1>4, <1>5, MoveKeeps

LEMMA RefusedIsPage ==
  ASSUME NEW t \in Tabs, NEW path \in Bearing, Refused(t, path)
  PROVE  Go(t, "nav_login") /\ ClearToken /\ (NoFault \/ Fault)
BY DEF Refused, Answer401, SkipLogout, Bearing

\* An answer on the login page, which its form may be waiting on too.
LEMMA AnswerKeeps ==
  ASSUME AccountsInv, AskInv, NEW t \in Tabs, asked[t] \in {"me", "status"},
         NEW x \in {pc[t]} \cup Loading, Go(t, x), Abandon(t),
         ServerSame, RowsSame, NoFault \/ Fault, UNCHANGED browser \/ ClearToken
  PROVE  AccountsInv'
<1>0. pc[t] \in {"login_form", "login_sign"} \cup Loading
  BY DEF AskInv, PlaceInv
<1>1. BrowserTypes' /\ cookie' \in BOOLEAN
  BY DEF AccountsInv, BrowserTypes, FlagTypes, browser, ClearToken
<1>2. pc'[t] = x /\ pc \in [Tabs -> Settled \cup Loading \cup Serving]
  BY DEF Go, AccountsInv, TabTypes
<1>3. /\ form' = [form EXCEPT ![t] = IF x = pc[t] THEN @ ELSE NoUser]
      /\ account' = [account EXCEPT ![t] = IF x = pc[t] THEN @ ELSE 0]
  BY <1>2 DEF Abandon
<1>4. /\ form' \in [Tabs -> Credentials \cup {NoUser}]
      /\ account' \in [Tabs -> Ids \cup {0}]
      /\ \A s \in Tabs \ {t} : form'[s] = form[s] /\ account'[s] = account[s]
  BY <1>3 DEF AccountsInv, TabTypes
<1>5. x \in Settled \cup Loading \cup Serving
  BY <1>0 DEF Settled, Serving
<1>6. /\ x # "auto_login" /\ x # "setup_insert"
      /\ x \in Halfway => x = "login_sign" /\ pc[t] = x
  BY <1>0 DEF Loading, Halfway
<1>7. CASE x = pc[t]
  <2>1. account'[t] = account[t] /\ form'[t] = form[t]
    BY <1>3, <1>7 DEF AccountsInv, TabTypes
  <2>2. /\ x \in {"login_sign", "password_write"} => account'[t] # 0
        /\ account'[t] # 0 => x \in {"login_sign", "password_check", "password_write"}
    BY <1>7, <2>1 DEF AccountsInv, TabTypes
  <2>3. account'[t] # 0 => users[account'[t]] # NoUser
    BY <2>1 DEF AccountsInv, WaitInv
  <2>4. x \in Halfway => Up
    BY <1>6 DEF AccountsInv, WaitInv
  <2> QED BY <1>1, <1>4, <1>5, <1>6, <2>2, <2>3, <2>4, MoveKeeps
<1>8. CASE x # pc[t]
  <2>1. account'[t] = 0
    BY <1>3, <1>8 DEF AccountsInv, TabTypes
  <2>2. x \notin Halfway /\ x \notin {"login_sign", "password_write"}
    BY <1>8 DEF Loading, Halfway
  <2> QED BY <1>1, <1>4, <1>5, <1>6, <2>1, <2>2, MoveKeeps
<1> QED BY <1>7, <1>8

\* A page is loaded or left, an answer comes, a request is sent.
LEMMA PageStepKeeps ==
  ASSUME AccountsInv, AskInv, NEW t \in Tabs,
         \/ Open(t) \/ NavLogin(t) \/ LoginMe(t) \/ LoginStatus(t) \/ NavSetup(t)
         \/ NavDashboard(t) \/ DashboardGet(t) \/ Logout(t) \/ Poll(t)
  PROVE  AccountsInv'
<1>1. CASE Open(t)
  BY <1>1, PageKeeps DEF Open, NoFault, browser, Settled, Loading
<1>2. CASE NavLogin(t)
  <2>1. Go(t, "login_form") \/ Go(t, "offline")
    BY <1>2 DEF NavLogin
  <2>2. pc[t] = "nav_login" /\ ServerSame /\ RowsSame /\ TabSame /\ UNCHANGED browser /\ NoFault
    BY <1>2 DEF NavLogin, browser, NoFault
  <2> QED BY <2>1, <2>2, PageKeeps DEF Settled
<1>3. CASE LoginMe(t)
  <2>1. ServerSame /\ RowsSame /\ Abandon(t) /\ asked[t] = "me"
    BY <1>3 DEF LoginMe
  <2>2. CASE Refused(t, "me")
    <3>1. Go(t, "nav_login") /\ ClearToken /\ (NoFault \/ Fault)
      BY <2>2, RefusedIsPage DEF Bearing
    <3> QED BY <2>1, <3>1, AnswerKeeps DEF Loading
  <2>3. CASE ~Refused(t, "me")
    <3>1. /\ Go(t, "nav_dashboard") \/ Go(t, pc[t])
          /\ NoFault \/ Fault
          /\ UNCHANGED browser
      BY <1>3, <2>3 DEF LoginMe
    <3> QED BY <2>1, <3>1, AnswerKeeps DEF Loading
  <2> QED BY <2>2, <2>3
<1>4. CASE LoginStatus(t)
  <2>1. /\ Go(t, "nav_setup") \/ Go(t, pc[t])
        /\ NoFault \/ Fault
        /\ ServerSame /\ RowsSame /\ Abandon(t) /\ UNCHANGED browser
        /\ asked[t] = "status"
    BY <1>4 DEF LoginStatus
  <2> QED BY <2>1, AnswerKeeps DEF Loading
<1>5. CASE NavSetup(t)
  BY <1>5, PageKeeps DEF NavSetup, NoFault, browser, Settled, Loading
<1>6. CASE NavDashboard(t)
  <2>1. Go(t, "offline") \/ Go(t, "nav_login") \/ Go(t, "home")
    BY <1>6 DEF NavDashboard
  <2>2. /\ pc[t] = "nav_dashboard" /\ ServerSame /\ RowsSame /\ TabSame
        /\ UNCHANGED browser /\ NoFault
    BY <1>6 DEF NavDashboard, browser, NoFault
  <2> QED BY <2>1, <2>2, PageKeeps DEF Settled, Loading
<1>7. CASE DashboardGet(t)
  <2>1. ServerSame /\ RowsSame /\ TabSame /\ asked[t] = "page"
    BY <1>7 DEF DashboardGet
  <2>2. pc[t] \in {"home"} \cup Loading
    BY <2>1 DEF AskInv, PlaceInv
  <2>3. pc[t] \notin {"login_sign", "password_check", "password_write"}
        /\ pc[t] \in Settled \cup Loading
    BY <2>2 DEF Loading, Settled
  <2>4. CASE Refused(t, "page")
    <3>1. Go(t, "nav_login") /\ ClearToken /\ (NoFault \/ Fault)
      BY <2>4, RefusedIsPage DEF Bearing
    <3> QED BY <2>1, <2>3, <3>1, PageKeeps DEF Loading
  <2>5. CASE Go(t, pc[t]) /\ NoFault /\ UNCHANGED browser
    BY <2>1, <2>3, <2>5, PageKeeps
  <2> QED BY <1>7, <2>4, <2>5 DEF DashboardGet
<1>8. CASE Logout(t)
  BY <1>8, PageKeeps DEF Logout, NoFault, Settled, Loading
<1>9. CASE Poll(t)
  <2>1. ServerSame /\ RowsSame /\ TabSame /\ UNCHANGED browser /\ NoFault /\ pc[t] = "home"
    BY <1>9 DEF Poll, browser, NoFault
  <2>2. Go(t, "home")
    BY <1>9 DEF Poll, Go, AccountsInv, TabTypes
  <2> QED BY <2>1, <2>2, PageKeeps DEF Settled
<1> QED BY <1>1, <1>2, <1>3, <1>4, <1>5, <1>6, <1>7, <1>8, <1>9

\* A login that was let in has found the row it will sign the token of.
LEMMA LoginRequestMoves ==
  ASSUME AccountsInv, NEW t \in Tabs, NEW c \in Credentials, NEW from \in Settled \cup Serving,
         NEW refused \in Settled \cup Loading, LoginRequest(t, c, from, refused),
         from \notin {"login_sign", "password_check", "password_write"}
  PROVE  /\ ServerSame /\ RowsSame /\ UNCHANGED <<browser, faults>>
         /\ \/ /\ Go(t, "login_sign") /\ Up
               /\ \E i \in Ids : users[i] = c /\ account' = [account EXCEPT ![t] = i]
            \/ Go(t, refused) /\ UNCHANGED account /\ account[t] = 0
BY DEF LoginRequest, AccountsInv, TabTypes

LEMMA LoginKeeps ==
  ASSUME AccountsInv, NEW t \in Tabs, DoLogin(t) \/ AutoLogin(t)
  PROVE  AccountsInv'
<1>1. PICK c \in Credentials, from \in {"login_form", "auto_login"},
           refused \in {"login_form", "nav_login"} :
         /\ LoginRequest(t, c, from, refused)
         /\ UNCHANGED form \/ (form' = [form EXCEPT ![t] = NoUser])
  <2>1. CASE DoLogin(t)
    BY <2>1 DEF DoLogin
  <2>2. CASE AutoLogin(t)
    <3>1. LoginRequest(t, form[t], "auto_login", "nav_login") /\ pc[t] = "auto_login"
      BY <2>2 DEF AutoLogin, LoginRequest
    <3>2. form[t] \in Credentials
      BY <3>1 DEF AccountsInv, WaitInv, TabTypes
    <3>3. UNCHANGED form \/ form' = [form EXCEPT ![t] = NoUser]
      BY <2>2 DEF AutoLogin
    <3> QED BY <3>1, <3>2, <3>3
  <2> QED BY <2>1, <2>2
<1>2. /\ ServerSame /\ RowsSame /\ UNCHANGED <<browser, faults>>
      /\ \/ /\ Go(t, "login_sign") /\ Up
            /\ \E i \in Ids : users[i] = c /\ account' = [account EXCEPT ![t] = i]
         \/ Go(t, refused) /\ UNCHANGED account /\ account[t] = 0
  BY <1>1, LoginRequestMoves DEF Settled, Loading, Serving
<1>3. BrowserTypes' /\ cookie' \in BOOLEAN /\ NoFault
  BY <1>2 DEF AccountsInv, BrowserTypes, FlagTypes, browser, NoFault
<1>4. /\ form' \in [Tabs -> Credentials \cup {NoUser}]
      /\ \A s \in Tabs \ {t} : form'[s] = form[s]
  BY <1>1 DEF AccountsInv, TabTypes
<1>5. CASE Go(t, refused) /\ UNCHANGED account /\ account[t] = 0
  <2>1. refused \in Settled \cup Loading \cup Serving /\ refused # "auto_login"
        /\ refused \notin Halfway /\ refused \notin {"login_sign", "password_write"}
    BY DEF Settled, Loading, Halfway
  <2>2. account' \in [Tabs -> Ids \cup {0}] /\ account'[t] = 0
        /\ \A s \in Tabs \ {t} : account'[s] = account[s]
    BY <1>5 DEF AccountsInv, TabTypes
  <2>3. refused # "setup_insert"
    BY <2>1 DEF Halfway
  <2> QED BY <1>2, <1>3, <1>4, <1>5, <2>1, <2>2, <2>3, MoveKeeps
<1>6. CASE /\ Go(t, "login_sign") /\ Up
           /\ \E i \in Ids : users[i] = c /\ account' = [account EXCEPT ![t] = i]
  <2>1. PICK i \in Ids : users[i] = c /\ account' = [account EXCEPT ![t] = i]
    BY <1>6
  <2>2. account' \in [Tabs -> Ids \cup {0}] /\ account'[t] = i /\ i # 0
        /\ \A s \in Tabs \ {t} : account'[s] = account[s]
    BY <2>1 DEF AccountsInv, TabTypes, Ids
  <2>3. c # NoUser
    BY AccountsAssumption DEF Credentials, NoUser
  <2>4. "login_sign" \in Settled \cup Loading \cup Serving
    BY DEF Serving
  <2> QED BY <1>2, <1>3, <1>4, <1>6, <2>1, <2>2, <2>3, <2>4, MoveKeeps
<1> QED BY <1>2, <1>5, <1>6

LEMMA LoginSignKeeps ==
  ASSUME AccountsInv, NEW t \in Tabs, LoginSign(t)
  PROVE  AccountsInv'
<1>1. /\ pc[t] = "login_sign"
      /\ \/ jwtSecret # 0 /\ NoFault /\ SetToken(account[t]) /\ Go(t, "nav_dashboard")
         \/ /\ NoFault \/ Fault
            /\ UNCHANGED browser
            /\ Go(t, "login_form") \/ Go(t, "nav_login")
      /\ form' = [form EXCEPT ![t] = NoUser]
      /\ account' = [account EXCEPT ![t] = 0]
      /\ ServerSame /\ RowsSame
  BY DEF LoginSign, Unanswered
<1>2. BrowserTypes' /\ cookie' \in BOOLEAN
  <2>1. CASE UNCHANGED browser
    BY <2>1 DEF AccountsInv, BrowserTypes, FlagTypes, browser
  <2>2. CASE jwtSecret # 0 /\ SetToken(account[t])
    BY <1>1, <2>2 DEF AccountsInv, SecretTypes, TabTypes, SetToken, BrowserTypes, Tokens
  <2> QED BY <1>1, <2>1, <2>2
<1>3. /\ form' \in [Tabs -> Credentials \cup {NoUser}]
      /\ account' \in [Tabs -> Ids \cup {0}] /\ account'[t] = 0
      /\ \A s \in Tabs \ {t} : form'[s] = form[s] /\ account'[s] = account[s]
  BY <1>1 DEF AccountsInv, TabTypes
<1>4. PICK x \in {"nav_dashboard", "login_form", "nav_login"} : Go(t, x)
  BY <1>1
<1>5. x \in Settled \cup Loading \cup Serving /\ x \notin Halfway /\ x # "auto_login"
      /\ x \notin {"login_sign", "password_check", "password_write"} /\ x # "setup_insert"
  BY DEF Settled, Loading, Halfway
<1> QED BY <1>1, <1>2, <1>3, <1>4, <1>5, MoveKeeps

LEMMA DoSetupKeeps ==
  ASSUME AccountsInv, NEW t \in Tabs, DoSetup(t)
  PROVE  AccountsInv'
<1>1. /\ Go(t, "setup_insert") /\ Up /\ ~UserExists
      /\ ServerSame /\ RowsSame /\ TabSame /\ UNCHANGED browser /\ NoFault
      /\ pc[t] = "setup_form"
  BY DEF DoSetup, NoFault
<1>2. BrowserTypes' /\ cookie' \in BOOLEAN
  BY <1>1 DEF AccountsInv, BrowserTypes, FlagTypes, browser
<1>3. /\ form' \in [Tabs -> Credentials \cup {NoUser}]
      /\ account' \in [Tabs -> Ids \cup {0}] /\ account'[t] = 0
      /\ \A s \in Tabs \ {t} : form'[s] = form[s] /\ account'[s] = account[s]
  BY <1>1 DEF AccountsInv, TabTypes, TabSame
<1>4. "setup_insert" \in Settled \cup Loading \cup Serving
  BY DEF Serving
<1> QED BY <1>1, <1>2, <1>3, <1>4, MoveKeeps

LEMMA SetupInsertKeeps ==
  ASSUME AccountsInv, NEW t \in Tabs, SetupInsert(t)
  PROVE  AccountsInv'
<1>1. /\ pc[t] = "setup_insert" /\ ServerSame /\ UNCHANGED <<account, browser>>
      /\ NoFault \/ Fault
      /\ account[t] = 0
  BY DEF SetupInsert, AccountsInv, TabTypes
<1>2. BrowserTypes' /\ cookie' \in BOOLEAN
  BY <1>1 DEF AccountsInv, BrowserTypes, FlagTypes, browser
<1>3. CASE RowsSame /\ UNCHANGED form /\ Go(t, "setup_form")
  BY <1>1, <1>3, PageKeeps DEF TabSame, Settled
<1>4. CASE \E c \in Credentials : /\ InsertUser(c)
                                  /\ form' = [form EXCEPT ![t] = c]
                                  /\ Go(t, "auto_login")
  <2>1. PICK c \in Credentials : /\ InsertUser(c)
                                 /\ form' = [form EXCEPT ![t] = c]
                                 /\ Go(t, "auto_login")
    BY <1>4
  <2>2. pc' = [pc EXCEPT ![t] = "auto_login"] /\ UNCHANGED <<boot, disturbed>>
    BY <1>1, <2>1 DEF Go, ServerSame
  <2>3. t \in Inserting /\ Inserting' \subseteq Inserting \ {t}
    BY <1>1, <2>2, AccountsAssumption DEF Inserting, AccountsInv, TabTypes
  <2>4. /\ UserTypes' /\ AdminInv' /\ overlap' \in BOOLEAN
        /\ \A i \in Ids : users[i] # NoUser => users'[i] # NoUser
    BY <2>1, <2>3, InsertKeeps
  <2>5. SecretTypes' /\ KeyInv' /\ FlagTypes'
    BY <1>1, <1>2, <2>4 DEF AccountsInv, SecretTypes, KeyInv, FlagTypes, ServerSame
  <2>6. FaultTypes'
    BY <1>1, AccountsAssumption DEF AccountsInv, FaultTypes, NoFault, Fault
  <2>7. TabTypes'
    <3>1. pc' \in [Tabs -> Settled \cup Loading \cup Serving]
      BY <2>2 DEF AccountsInv, TabTypes, Serving
    <3>2. form' \in [Tabs -> Credentials \cup {NoUser}]
      BY <2>1 DEF AccountsInv, TabTypes
    <3> QED BY <1>1, <2>2, <3>1, <3>2 DEF AccountsInv, TabTypes
  <2>8. WaitInv'
    <3>1. c # NoUser
      BY AccountsAssumption DEF Credentials, NoUser
    <3> QED BY <1>1, <2>1, <2>2, <2>4, <3>1 DEF AccountsInv, WaitInv, TabTypes, Up
  <2> QED BY <1>2, <2>4, <2>5, <2>6, <2>7, <2>8 DEF AccountsInv
<1> QED BY <1>3, <1>4 DEF SetupInsert

\* A row that is there gets another name or password.
LEMMA RowChangeKeeps ==
  ASSUME AccountsInv, NEW i \in Ids, users[i] # NoUser, NEW u \in Credentials,
         users' = [users EXCEPT ![i] = u], UNCHANGED overlap,
         Inserting' \subseteq Inserting
  PROVE  /\ UserTypes' /\ AdminInv'
         /\ \A j \in Ids : users[j] # NoUser => users'[j] # NoUser
<1>1. u # NoUser
  BY AccountsAssumption DEF Credentials, NoUser
<1>2. \A j \in Ids : users'[j] # NoUser <=> users[j] # NoUser
  BY <1>1 DEF AccountsInv, UserTypes
<1>3. UserTypes'
  BY DEF AccountsInv, UserTypes
<1>4. AdminInv'
  BY <1>2 DEF AccountsInv, AdminInv, UserExists
<1> QED BY <1>2, <1>3, <1>4

LEMMA UpdateProfileKeeps ==
  ASSUME AccountsInv, AskInv, NEW t \in Tabs, UpdateProfile(t)
  PROVE  AccountsInv'
<1>1. PICK n \in Names : /\ users[carried[t]] # NoUser
                         /\ users' = [users EXCEPT ![carried[t]].name = n]
  BY DEF UpdateProfile
<1>2. /\ ServerSame /\ UNCHANGED <<overlap, storage, cookie, pc, form, account, faults>>
      /\ carried[t] # 0
  BY DEF UpdateProfile, browser, TabSame
<1> DEFINE i == carried[t]
           u == [users[i] EXCEPT !.name = n]
<1>3. i \in Ids
  BY <1>2 DEF AskInv, AskTypes
<1>4. u \in Credentials
  BY <1>1, <1>3 DEF AccountsInv, UserTypes, Credentials
<1>5. users' = [users EXCEPT ![i] = u]
  BY <1>1
<1>6. UNCHANGED <<Inserting, boot, disturbed>>
  BY <1>2 DEF Inserting, ServerSame
<1>7. UserTypes' /\ AdminInv' /\ \A j \in Ids : users[j] # NoUser => users'[j] # NoUser
  <2> HIDE DEF i, u
  <2> QED BY <1>1, <1>2, <1>3, <1>4, <1>5, <1>6, RowChangeKeeps DEF i
<1>8. SecretTypes' /\ KeyInv' /\ BrowserTypes' /\ TabTypes' /\ FaultTypes' /\ FlagTypes'
  BY <1>2 DEF AccountsInv, SecretTypes, KeyInv, BrowserTypes, TabTypes, FaultTypes,
     FlagTypes, ServerSame
<1>9. WaitInv'
  BY <1>2, <1>6, <1>7 DEF AccountsInv, WaitInv, TabTypes, Up
<1> QED BY <1>7, <1>8, <1>9 DEF AccountsInv

LEMMA ChangePasswordKeeps ==
  ASSUME AccountsInv, TokenInv, NEW t \in Tabs, ChangePassword(t)
  PROVE  AccountsInv'
<1>1. /\ Go(t, "password_check") /\ Up /\ ServerSame /\ RowsSame
      /\ UNCHANGED <<form, storage, cookie>> /\ NoFault
      /\ account' = [account EXCEPT ![t] = IF Authorized THEN storage.user ELSE 0]
  BY DEF ChangePassword, browser, NoFault
<1>2. BrowserTypes' /\ cookie' \in BOOLEAN
  BY <1>1 DEF AccountsInv, BrowserTypes, FlagTypes
<1>3. Authorized => storage.user \in Ids
  BY DEF AccountsInv, BrowserTypes, Tokens, NoToken, Expired, Authorized
<1>4. /\ form' \in [Tabs -> Credentials \cup {NoUser}]
      /\ account' \in [Tabs -> Ids \cup {0}]
      /\ account'[t] = IF Authorized THEN storage.user ELSE 0
      /\ \A s \in Tabs \ {t} : form'[s] = form[s] /\ account'[s] = account[s]
  BY <1>1, <1>3 DEF AccountsInv, TabTypes
<1>5. account'[t] # 0 => users[account'[t]] # NoUser
  BY <1>4 DEF TokenInv
<1>6. "password_check" \in Settled \cup Loading \cup Serving
  BY DEF Serving
<1> QED BY <1>1, <1>2, <1>4, <1>5, <1>6, MoveKeeps

LEMMA PasswordCheckKeeps ==
  ASSUME AccountsInv, NEW t \in Tabs, PasswordCheck(t)
  PROVE  AccountsInv'
<1>1. /\ pc[t] = "password_check" /\ ServerSame /\ RowsSame /\ UNCHANGED <<form, browser>>
      /\ NoFault /\ Up
      /\ \/ account[t] # 0 /\ Go(t, "password_write") /\ UNCHANGED account
         \/ Go(t, "home") /\ account' = [account EXCEPT ![t] = 0]
  BY DEF PasswordCheck, Answer401, SkipLogout, NoFault, AccountsInv, WaitInv
<1>2. BrowserTypes' /\ cookie' \in BOOLEAN
  BY <1>1 DEF AccountsInv, BrowserTypes, FlagTypes, browser
<1>3. /\ form' \in [Tabs -> Credentials \cup {NoUser}]
      /\ account' \in [Tabs -> Ids \cup {0}]
      /\ \A s \in Tabs \ {t} : form'[s] = form[s] /\ account'[s] = account[s]
  BY <1>1 DEF AccountsInv, TabTypes
<1>4. CASE account[t] # 0 /\ Go(t, "password_write") /\ UNCHANGED account
  <2>1. users[account[t]] # NoUser
    BY <1>4 DEF AccountsInv, WaitInv
  <2>2. "password_write" \in Settled \cup Loading \cup Serving
    BY DEF Serving
  <2> QED BY <1>1, <1>2, <1>3, <1>4, <2>1, <2>2, MoveKeeps
<1>5. CASE Go(t, "home") /\ account' = [account EXCEPT ![t] = 0]
  <2>1. account'[t] = 0
    BY <1>5 DEF AccountsInv, TabTypes
  <2>2. "home" \in Settled \cup Loading \cup Serving /\ "home" \notin Halfway
    BY DEF Settled, Halfway
  <2> QED BY <1>1, <1>2, <1>3, <1>5, <2>1, <2>2, MoveKeeps
<1> QED BY <1>1, <1>4, <1>5

LEMMA PasswordWriteKeeps ==
  ASSUME AccountsInv, NEW t \in Tabs, PasswordWrite(t)
  PROVE  AccountsInv'
<1>1. /\ pc[t] = "password_write" /\ account[t] # 0 /\ account[t] \in Ids
      /\ users[account[t]] # NoUser
  BY DEF PasswordWrite, AccountsInv, TabTypes, WaitInv
<1>2. /\ pc' = [pc EXCEPT ![t] = "home"] /\ account' = [account EXCEPT ![t] = 0]
      /\ ServerSame /\ UNCHANGED <<overlap, form, storage, cookie>>
      /\ NoFault \/ Fault
      /\ \/ UNCHANGED users
         \/ \E new \in Passwords : users' = [users EXCEPT ![account[t]].password = new]
  BY DEF PasswordWrite, Go, browser
<1>3. UNCHANGED <<boot, disturbed>> /\ Inserting' \subseteq Inserting
  BY <1>2 DEF Inserting, ServerSame, AccountsInv, TabTypes
<1>4. UserTypes' /\ AdminInv' /\ \A j \in Ids : users[j] # NoUser => users'[j] # NoUser
  <2>1. CASE UNCHANGED users
    BY <1>2, <1>3, <2>1 DEF AccountsInv, UserTypes, AdminInv, UserExists
  <2>2. CASE \E new \in Passwords : users' = [users EXCEPT ![account[t]].password = new]
    <3>1. PICK new \in Passwords : users' = [users EXCEPT ![account[t]].password = new]
      BY <2>2
    <3> DEFINE i == account[t]
               u == [users[i] EXCEPT !.password = new]
    <3>2. u \in Credentials
      BY <1>1 DEF AccountsInv, UserTypes, Credentials
    <3>3. users' = [users EXCEPT ![i] = u] /\ i \in Ids /\ users[i] # NoUser
      BY <1>1, <3>1
    <3>4. UNCHANGED overlap
      BY <1>2
    <3> HIDE DEF i, u
    <3> QED BY <1>3, <3>2, <3>3, <3>4, RowChangeKeeps
  <2> QED BY <1>2, <2>1, <2>2
<1>5. SecretTypes' /\ KeyInv' /\ BrowserTypes' /\ FlagTypes'
  BY <1>2 DEF AccountsInv, SecretTypes, KeyInv, BrowserTypes, FlagTypes, ServerSame
<1>6. FaultTypes'
  BY <1>2, AccountsAssumption DEF AccountsInv, FaultTypes, NoFault, Fault
<1>7. TabTypes'
  <2>1. pc' \in [Tabs -> Settled \cup Loading \cup Serving]
    BY <1>2 DEF AccountsInv, TabTypes, Settled
  <2> QED BY <1>2, <2>1 DEF AccountsInv, TabTypes
<1>8. WaitInv'
  BY <1>2, <1>3, <1>4 DEF AccountsInv, WaitInv, TabTypes, Up
<1> QED BY <1>4, <1>5, <1>6, <1>7, <1>8 DEF AccountsInv

LEMMA ExpiryKeeps ==
  ASSUME AccountsInv, TokenExpires \/ CookieExpires \/ \E t \in Tabs : OldTokenExpires(t)
  PROVE  AccountsInv'
<1>1. /\ ServerSame /\ RowsSame /\ UNCHANGED <<pc, form, account, faults>>
      /\ UNCHANGED cookie \/ cookie' = FALSE
      /\ UNCHANGED storage \/ storage' = Expired
  BY DEF TokenExpires, CookieExpires, OldTokenExpires, browser, tabs
<1>2. BrowserTypes'
  BY <1>1 DEF AccountsInv, BrowserTypes
<1>3. FlagTypes'
  BY <1>1 DEF AccountsInv, FlagTypes, ServerSame, RowsSame
<1>4. SecretTypes' /\ KeyInv' /\ UserTypes' /\ TabTypes' /\ FaultTypes' /\ WaitInv'
  BY <1>1 DEF AccountsInv, SecretTypes, KeyInv, UserTypes, TabTypes, FaultTypes, WaitInv,
     Up, ServerSame, RowsSame
<1>5. AdminInv'
  <2>1. UNCHANGED <<Inserting, users, overlap>>
    BY <1>1 DEF Inserting, ServerSame, RowsSame
  <2> QED BY <2>1 DEF AccountsInv, AdminInv, UserExists
<1> QED BY <1>2, <1>3, <1>4, <1>5 DEF AccountsInv

-----------------------------------------------------------------------------

LEMMA NextKeeps ==
  ASSUME AccountsInv, AskInv, TokenInv, [Next]_vars
  PROVE  AccountsInv'
<1>1. CASE \E p \in Processes : ProcessStep(p)
  BY <1>1, ReadKeyKeeps, WriteKeyKeeps, SecretKeeps, StopKeeps DEF ProcessStep
<1>2. CASE SetupChecks \/ SetupInserts \/ Seal \/ Reset
  BY <1>2, SetupKeeps, SealAndResetKeep
<1>3. CASE \E t \in Tabs : PageStep(t) \/ FormStep(t) \/ UserStep(t)
  BY <1>3, PageStepKeeps, LoginKeeps, LoginSignKeeps, DoSetupKeeps, SetupInsertKeeps,
     UpdateProfileKeeps, ChangePasswordKeeps, PasswordCheckKeeps, PasswordWriteKeeps
     DEF PageStep, FormStep, UserStep
<1>4. CASE TokenExpires \/ CookieExpires \/ \E t \in Tabs : OldTokenExpires(t)
  BY <1>4, ExpiryKeeps
<1>5. CASE UNCHANGED vars
  <2>1. UNCHANGED <<users, jwtSecret, keyFile, sealed, boot, masterKey, storage, cookie, pc,
                    form, account, faults, overlap, disturbed>>
    BY <1>5 DEF vars, disk, browser, tabs, ghosts
  <2>2. UNCHANGED Inserting
    BY <2>1 DEF Inserting
  <2> QED BY <2>1, <2>2 DEF AccountsInv, SecretTypes, UserTypes, BrowserTypes, TabTypes,
          FaultTypes, FlagTypes, WaitInv, AdminInv, KeyInv, Up, UserExists
<1> QED BY <1>1, <1>2, <1>3, <1>4, <1>5 DEF Next

-----------------------------------------------------------------------------
(* What a step does to the token, the secret and the requests on their way *)

\* Rows that are there stay there.
RowsStay == \A i \in Ids : users[i] # NoUser => users'[i] # NoUser

Asks(t) == \E what \in Bearing \cup {"none", "status"} : Ask(t, what) /\ (what # "none" => Up)

\* The token and the secret stay; at most one request is sent or answered.
Quiet ==
    /\ UNCHANGED <<storage, jwtSecret>> /\ RowsStay /\ (Up => Up')
    /\ UNCHANGED requests \/ \E t \in Tabs : Asks(t)

\* The token is cleared, by a logout or an answer.
Clears ==
    /\ storage' = NoToken /\ UNCHANGED jwtSecret /\ RowsStay /\ (Up => Up')
    /\ UNCHANGED requests \/ \E t \in Tabs : Asks(t)

LogsIn ==
    /\ UNCHANGED jwtSecret /\ RowsStay /\ (Up => Up') /\ jwtSecret # 0
    /\ \E i \in Ids : SetToken(i) /\ users[i] # NoUser

\* The stored token and those on their way are worth nothing any more.
Devalues ==
    /\ UNCHANGED <<asked, replaced>> /\ carried' = [t \in Tabs |-> 0]
    /\ ~Authorized' /\ RowsStay /\ (Up => Up')
    /\ UNCHANGED storage \/ storage' = Expired

OldDevalues ==
    /\ UNCHANGED <<storage, jwtSecret>> /\ RowsStay /\ (Up => Up')
    /\ \E t \in Tabs : OldTokenExpires(t)

\* The server is down, or goes down with the requests on their way.
Down ==
    /\ UNCHANGED storage /\ (UNCHANGED <<users, jwtSecret>> \/ jwtSecret' = 0)
    /\ \/ ~Up /\ UNCHANGED requests
       \/ /\ asked' = [t \in Tabs |-> "none"]
          /\ carried' = [t \in Tabs |-> 0]
          /\ replaced' = {}

Effects == Quiet \/ Clears \/ LogsIn \/ Devalues \/ OldDevalues \/ Down

LEMMA RowsUnchanged == UNCHANGED users => RowsStay
BY DEF RowsStay

LEMMA InsertStays ==
  ASSUME AccountsInv, NEW c \in Credentials, InsertUser(c)
  PROVE  RowsStay
<1>1. c # NoUser
  BY AccountsAssumption DEF Credentials, NoUser
<1> DEFINE free == CHOOSE i \in Ids : users[i] = NoUser
<1>2. users' = [users EXCEPT ![free] = c]
  BY DEF InsertUser
<1> QED BY <1>1, <1>2 DEF RowsStay, AccountsInv, UserTypes

LEMMA ProcessEffects ==
  ASSUME AccountsInv, \/ \E p \in Processes : ProcessStep(p)
                      \/ SetupChecks \/ SetupInserts \/ Seal \/ Reset
  PROVE  Effects
<1>1. ASSUME NEW p \in Processes, ReadKey(p) \/ WriteKey(p) \/ ReadSecret(p) PROVE Quiet
  <2>1. UNCHANGED <<users, jwtSecret, storage, requests>>
    BY <1>1 DEF ReadKey, WriteKey, ReadSecret, disk, browser, tabs
  <2>2. Up => Up'
    BY <1>1 DEF ReadKey, WriteKey, ReadSecret, At, Up, AccountsInv, SecretTypes, Processes
  <2> QED BY <2>1, <2>2, RowsUnchanged DEF Quiet
<1>2. ASSUME NEW p \in Processes, WriteSecret(p) PROVE Quiet \/ Devalues
  <2>1. UNCHANGED <<users, storage, asked, replaced>>
    BY <1>2 DEF WriteSecret, browser
  <2>2. Up => Up'
    BY <1>2 DEF WriteSecret, At, Up, AccountsInv, SecretTypes, Processes
  <2>3. CASE UNCHANGED <<jwtSecret, carried>>
    BY <2>1, <2>2, <2>3, RowsUnchanged DEF Quiet, requests
  <2>4. CASE /\ jwtSecret' = CHOOSE s \in Secrets : s # storage.secret
             /\ carried' = [t \in Tabs |-> 0]
    <3>1. \E s \in Secrets : s # storage.secret
      BY DEF Secrets
    <3>2. jwtSecret' # storage.secret
      BY <2>4, <3>1
    <3>3. ~Authorized'
      BY <2>1, <3>2 DEF Authorized
    <3> QED BY <2>1, <2>2, <2>4, <3>3, RowsUnchanged DEF Devalues
  <2> QED BY <1>2, <2>3, <2>4 DEF WriteSecret
<1>3. ASSUME NEW p \in Processes, Stop(p) PROVE Quiet \/ Down
  <2>1. UNCHANGED <<users, jwtSecret, storage>> /\ boot' = [boot EXCEPT ![p] = "down"]
    BY <1>3 DEF Stop, disk, browser
  <2>2. CASE p = "server"
    BY <1>3, <2>1, <2>2 DEF Stop, Down
  <2>3. CASE p # "server"
    <3>1. UNCHANGED requests
      BY <1>3, <2>3 DEF Stop, tabs
    <3>2. Up => Up'
      BY <2>1, <2>3 DEF Up, AccountsInv, SecretTypes, Processes
    <3> QED BY <2>1, <3>1, <3>2, RowsUnchanged DEF Quiet
  <2> QED BY <2>2, <2>3
<1>4. CASE SetupChecks \/ SetupInserts \/ Seal
  <2>1. /\ UNCHANGED <<jwtSecret, storage, requests>>
        /\ (\E c \in Credentials : InsertUser(c)) \/ UNCHANGED users
    BY <1>4 DEF SetupChecks, SetupInserts, Seal, disk, browser, tabs
  <2>2. RowsStay
    BY <2>1, InsertStays, RowsUnchanged
  <2>3. Up => Up'
    BY <1>4 DEF SetupChecks, SetupInserts, Seal, At, Up, AccountsInv, SecretTypes, Processes
  <2>4. Quiet
    BY <2>1, <2>2, <2>3 DEF Quiet
  <2> QED BY <2>4 DEF Effects
<1>5. CASE Reset
  <2>1. /\ UNCHANGED <<storage, requests>> /\ ~Up
        /\ jwtSecret' = 0 \/ UNCHANGED <<users, jwtSecret>>
    BY <1>5 DEF Reset, browser, tabs, Up, Processes
  <2>2. Down
    BY <2>1 DEF Down
  <2> QED BY <2>2 DEF Effects
<1> QED BY <1>1, <1>2, <1>3, <1>4, <1>5 DEF ProcessStep, Effects

\* What the steps of a tab leave alone.
LEMMA TabFrame ==
  ASSUME NEW t \in Tabs, PageStep(t) \/ FormStep(t) \/ UserStep(t)
  PROVE  UNCHANGED <<jwtSecret, boot>> /\ (Up => Up')
<1>1. ServerSame
  <2>1. CASE PageStep(t)
    BY <2>1 DEF PageStep, NavLogin, NavSetup, NavDashboard, LoginMe, LoginStatus,
       DashboardGet, UpdateProfile
  <2>2. CASE FormStep(t)
    BY <2>2 DEF FormStep, AutoLogin, LoginRequest, LoginSign, SetupInsert, PasswordCheck,
       PasswordWrite
  <2>3. CASE UserStep(t)
    BY <2>3 DEF UserStep, Open, DoLogin, LoginRequest, DoSetup, Logout, Poll, ChangePassword
  <2> QED BY <2>1, <2>2, <2>3
<1> QED BY <1>1 DEF ServerSame, Up

LEMMA PageEffects ==
  ASSUME AccountsInv, AskInv, NEW t \in Tabs, PageStep(t)
  PROVE  Quiet \/ Clears
<1>0. UNCHANGED jwtSecret /\ (Up => Up')
  BY TabFrame
<1>a. asked[t] # "none" => Up
  BY DEF AskInv, AskTypes
<1>1. CASE NavLogin(t) \/ NavSetup(t) \/ NavDashboard(t)
  <2>1. UNCHANGED <<users, storage>>
    BY <1>1 DEF NavLogin, NavSetup, NavDashboard, RowsSame, browser
  <2>2. Asks(t)
    BY <1>1 DEF NavLogin, NavSetup, NavDashboard, Asks, Bearing
  <2> QED BY <1>0, <2>1, <2>2, RowsUnchanged DEF Quiet
<1>2. CASE LoginMe(t) \/ LoginStatus(t) \/ DashboardGet(t)
  <2>1. UNCHANGED users /\ asked[t] # "none"
    BY <1>2 DEF LoginMe, LoginStatus, DashboardGet, RowsSame
  <2>2. UNCHANGED storage \/ storage' = NoToken
    BY <1>2, RefusedIsPage DEF LoginMe, LoginStatus, DashboardGet, browser, ClearToken, Bearing
  <2>3. Asks(t)
    BY <1>2, <1>a, <2>1 DEF LoginMe, LoginStatus, DashboardGet, Asks
  <2> QED BY <1>0, <2>1, <2>2, <2>3, RowsUnchanged DEF Quiet, Clears
<1>3. CASE UpdateProfile(t)
  <2>1. PICK n \in Names : /\ users[carried[t]] # NoUser
                           /\ users' = [users EXCEPT ![carried[t]].name = n]
    BY <1>3 DEF UpdateProfile
  <2>2. UNCHANGED storage /\ Asks(t)
    BY <1>3 DEF UpdateProfile, Asks, browser
  <2>3. carried[t] \in Ids /\ users[carried[t]] \in Credentials
    BY <1>3, <2>1 DEF UpdateProfile, AskInv, AskTypes, AccountsInv, UserTypes
  <2>4. [users[carried[t]] EXCEPT !.name = n] # NoUser
    BY <2>3, AccountsAssumption DEF Credentials, NoUser
  <2>5. RowsStay
    BY <2>1, <2>3, <2>4 DEF RowsStay, AccountsInv, UserTypes
  <2> QED BY <1>0, <2>2, <2>5 DEF Quiet
<1> QED BY <1>1, <1>2, <1>3 DEF PageStep

LEMMA FormEffects ==
  ASSUME AccountsInv, NEW t \in Tabs, FormStep(t) \/ UserStep(t)
  PROVE  Quiet \/ LogsIn \/ (Clears /\ Logout(t))
<1>0. UNCHANGED jwtSecret /\ (Up => Up')
  BY TabFrame
<1>1. CASE AutoLogin(t) \/ DoLogin(t) \/ Open(t) \/ DoSetup(t) \/ ChangePassword(t)
  <2>1. UNCHANGED <<users, storage, requests>>
    BY <1>1 DEF AutoLogin, DoLogin, LoginRequest, Open, DoSetup, ChangePassword, RowsSame,
       NothingAsked, browser
  <2> QED BY <1>0, <2>1, RowsUnchanged DEF Quiet
<1>2. CASE LoginSign(t)
  <2>1. UNCHANGED users /\ pc[t] = "login_sign"
    BY <1>2 DEF LoginSign, RowsSame
  <2>2. CASE jwtSecret # 0 /\ SetToken(account[t])
    <3>1. account[t] \in Ids /\ users[account[t]] # NoUser
      BY <2>1 DEF AccountsInv, TabTypes, WaitInv
    <3> QED BY <1>0, <2>1, <2>2, <3>1, RowsUnchanged DEF LogsIn
  <2>3. CASE UNCHANGED browser /\ NothingAsked
    BY <1>0, <2>1, <2>3, RowsUnchanged DEF Quiet, browser, NothingAsked
  <2> QED BY <1>2, <2>2, <2>3 DEF LoginSign
<1>3. CASE SetupInsert(t)
  <2>1. UNCHANGED <<storage, requests>>
        /\ ((\E c \in Credentials : InsertUser(c)) \/ UNCHANGED users)
    BY <1>3 DEF SetupInsert, RowsSame, NothingAsked, browser
  <2>2. RowsStay
    BY <2>1, InsertStays, RowsUnchanged
  <2> QED BY <1>0, <2>1, <2>2 DEF Quiet
<1>4. CASE PasswordCheck(t)
  <2>1. UNCHANGED <<users, storage, requests>>
    BY <1>4 DEF PasswordCheck, Answer401, SkipLogout, RowsSame, NothingAsked, browser
  <2> QED BY <1>0, <2>1, RowsUnchanged DEF Quiet
<1>5. CASE PasswordWrite(t)
  <2>1. /\ UNCHANGED <<storage, requests>> /\ pc[t] = "password_write"
        /\ \/ UNCHANGED users
           \/ \E new \in Passwords : users' = [users EXCEPT ![account[t]].password = new]
    BY <1>5 DEF PasswordWrite, NothingAsked, browser
  <2>2. CASE \E new \in Passwords : users' = [users EXCEPT ![account[t]].password = new]
    <3>1. PICK new \in Passwords : users' = [users EXCEPT ![account[t]].password = new]
      BY <2>2
    <3>2. account[t] \in Ids /\ users[account[t]] \in Credentials
      BY <2>1 DEF AccountsInv, TabTypes, WaitInv, UserTypes
    <3>3. [users[account[t]] EXCEPT !.password = new] # NoUser
      BY <3>2, AccountsAssumption DEF Credentials, NoUser
    <3>4. RowsStay
      BY <3>1, <3>2, <3>3 DEF RowsStay, AccountsInv, UserTypes
    <3> QED BY <1>0, <2>1, <3>4 DEF Quiet
  <2> QED BY <1>0, <2>1, <2>2, RowsUnchanged DEF Quiet
<1>6. CASE Logout(t)
  <2>1. UNCHANGED <<users, requests>> /\ storage' = NoToken
    BY <1>6 DEF Logout, RowsSame, NothingAsked, ClearToken
  <2> QED BY <1>0, <1>6, <2>1, RowsUnchanged DEF Clears
<1>7. CASE Poll(t)
  <2>1. UNCHANGED <<users, storage>> /\ Asks(t)
    BY <1>7 DEF Poll, RowsSame, Asks, Bearing, browser
  <2> QED BY <1>0, <2>1, RowsUnchanged DEF Quiet
<1> QED BY <1>1, <1>2, <1>3, <1>4, <1>5, <1>6, <1>7 DEF FormStep, UserStep

LEMMA ExpiryEffects ==
  ASSUME TokenExpires \/ CookieExpires \/ \E t \in Tabs : OldTokenExpires(t)
  PROVE  Quiet \/ Devalues \/ OldDevalues
<1>0. UNCHANGED <<users, jwtSecret, boot>>
  BY DEF TokenExpires, CookieExpires, OldTokenExpires, ServerSame, RowsSame
<1>1. Up => Up'
  BY <1>0 DEF Up
<1>2. CASE TokenExpires
  <2>1. ~Authorized'
    BY <1>2 DEF TokenExpires, Authorized, Expired
  <2> QED BY <1>0, <1>1, <1>2, <2>1, RowsUnchanged DEF TokenExpires, Devalues
<1>3. CASE CookieExpires
  BY <1>0, <1>1, <1>3, RowsUnchanged DEF CookieExpires, Quiet, tabs
<1>4. CASE \E t \in Tabs : OldTokenExpires(t)
  BY <1>0, <1>1, <1>4, RowsUnchanged DEF OldTokenExpires, OldDevalues, browser
<1> QED BY <1>2, <1>3, <1>4

LEMMA NextEffects ==
  ASSUME AccountsInv, AskInv, [Next]_vars
  PROVE  Effects
<1>1. CASE UNCHANGED vars
  <2>1. UNCHANGED <<users, storage, jwtSecret, boot, requests>>
    BY <1>1 DEF vars, disk, browser, tabs
  <2> QED BY <2>1, RowsUnchanged DEF Effects, Quiet, Up
<1>2. CASE Next
  BY <1>2, ProcessEffects, PageEffects, FormEffects, ExpiryEffects DEF Next, Effects
<1> QED BY <1>1, <1>2

\* While the server accepts the token of a request, its user is in the table and
\* no other token is stored than one that is accepted too; a request sent with
\* the stored token is accepted as long as that token is.
CarriedInv ==
    \A t \in Tabs :
        /\ carried[t] # 0 => users[carried[t]] # NoUser /\ (storage = NoToken \/ Authorized)
        /\ asked[t] \in Bearing /\ carried[t] = 0 /\ t \notin replaced => ~Authorized

LEMMA TokenUser ==
  ASSUME AccountsInv, Authorized
  PROVE  storage.user \in Ids /\ storage.user # 0 /\ storage # NoToken
BY DEF Authorized, AccountsInv, BrowserTypes, Tokens, NoToken, Expired, Ids

LEMMA AskKeepsTypes ==
  ASSUME AccountsInv, AskTypes, NEW t \in Tabs, Asks(t), Up => Up'
  PROVE  AskTypes'
<1>1. PICK what \in Bearing \cup {"none", "status"} : Ask(t, what) /\ (what # "none" => Up)
  BY DEF Asks
<1>2. /\ asked' = [asked EXCEPT ![t] = what]
      /\ carried' = [carried EXCEPT ![t] = IF what \in Bearing /\ Authorized
                                             THEN storage.user ELSE 0]
      /\ replaced' = replaced \ {t}
  BY <1>1 DEF Ask
<1>3. asked' \in [Tabs -> Bearing \cup {"none", "status"}]
  BY <1>2 DEF AskTypes
<1>4. carried' \in [Tabs -> Ids \cup {0}]
  BY <1>2, TokenUser DEF AskTypes
<1>5. replaced' \subseteq {u \in Tabs : asked'[u] \in Bearing}
  BY <1>2 DEF AskTypes
<1>6. ASSUME NEW u \in Tabs
      PROVE  /\ carried'[u] # 0 => asked'[u] \in Bearing
             /\ asked'[u] # "none" => Up'
  BY <1>1, <1>2 DEF AskTypes
<1> QED BY <1>3, <1>4, <1>5, <1>6 DEF AskTypes

LEMMA EffectsKeepTypes ==
  ASSUME AccountsInv, AskTypes, Effects
  PROVE  AskTypes'
<1>1. CASE UNCHANGED requests /\ (Up => Up')
  BY <1>1 DEF AskTypes, requests
<1>2. CASE (\E t \in Tabs : Asks(t)) /\ (Up => Up')
  BY <1>2, AskKeepsTypes
<1>3. CASE LogsIn
  <2>1. UNCHANGED <<asked, carried>> /\ replaced' = {t \in Tabs : asked[t] \in Bearing}
        /\ (Up => Up')
    BY <1>3 DEF LogsIn, SetToken
  <2> QED BY <2>1 DEF AskTypes
<1>4. CASE Devalues
  BY <1>4 DEF Devalues, AskTypes
<1>5. CASE OldDevalues
  <2>1. PICK t \in Tabs : OldTokenExpires(t)
    BY <1>5 DEF OldDevalues
  <2>2. UNCHANGED <<asked, replaced>> /\ carried' = [carried EXCEPT ![t] = 0] /\ (Up => Up')
    BY <1>5, <2>1 DEF OldDevalues, OldTokenExpires
  <2> QED BY <2>2 DEF AskTypes
<1>6. CASE Down
  <2>1. CASE ~Up /\ UNCHANGED requests
    BY <2>1 DEF AskTypes, requests
  <2>2. CASE /\ asked' = [t \in Tabs |-> "none"] /\ carried' = [t \in Tabs |-> 0]
             /\ replaced' = {}
    BY <2>2 DEF AskTypes
  <2> QED BY <1>6, <2>1, <2>2 DEF Down
<1> QED BY <1>1, <1>2, <1>3, <1>4, <1>5, <1>6 DEF Effects, Quiet, Clears

LEMMA EffectsKeepToken ==
  ASSUME AccountsInv, TokenInv, Effects
  PROVE  TokenInv'
<1> SUFFICES ASSUME Authorized' PROVE users'[storage'.user] # NoUser
  BY DEF TokenInv
<1>1. CASE Quiet \/ OldDevalues
  <2>1. UNCHANGED <<storage, jwtSecret>> /\ RowsStay
    BY <1>1 DEF Quiet, OldDevalues
  <2>2. Authorized
    BY <2>1 DEF Authorized
  <2> QED BY <2>1, <2>2, TokenUser DEF TokenInv, RowsStay
<1>2. CASE Clears \/ Devalues
  BY <1>2 DEF Clears, Devalues, Authorized, NoToken
<1>3. CASE LogsIn
  BY <1>3 DEF LogsIn, SetToken, RowsStay
<1>4. CASE Down
  <2>1. UNCHANGED storage
    BY <1>4 DEF Down
  <2>2. storage.secret # 0
    BY <2>1 DEF Authorized, AccountsInv, BrowserTypes, Tokens, NoToken, Expired, Secrets
  <2>3. UNCHANGED <<users, jwtSecret>>
    BY <1>4, <2>1, <2>2 DEF Down, Authorized
  <2> QED BY <2>1, <2>3 DEF TokenInv, Authorized
<1> QED BY <1>1, <1>2, <1>3, <1>4 DEF Effects

LEMMA AskKeepsCarried ==
  ASSUME AccountsInv, AskTypes, TokenInv, CarriedInv, NEW t \in Tabs, Asks(t), RowsStay,
         \/ UNCHANGED <<storage, jwtSecret>>
         \/ storage' = NoToken
  PROVE  CarriedInv'
<1>1. PICK what \in Bearing \cup {"none", "status"} : Ask(t, what)
  BY DEF Asks
<1>2. /\ asked' = [asked EXCEPT ![t] = what]
      /\ carried' = [carried EXCEPT ![t] = IF what \in Bearing /\ Authorized
                                             THEN storage.user ELSE 0]
      /\ replaced' = replaced \ {t}
  BY <1>1 DEF Ask
<1>3. ~Authorized \/ ~Authorized' \/ (Authorized' /\ UNCHANGED storage)
  BY DEF Authorized, NoToken
<1>4. Authorized' => Authorized
  BY DEF Authorized, NoToken
<1>5. \/ storage' = NoToken
      \/ (Authorized => Authorized') /\ (storage = NoToken => storage' = NoToken)
  BY DEF Authorized
<1> SUFFICES ASSUME NEW u \in Tabs
             PROVE  /\ carried'[u] # 0 => /\ users'[carried'[u]] # NoUser
                                          /\ storage' = NoToken \/ Authorized'
                    /\ asked'[u] \in Bearing /\ carried'[u] = 0 /\ u \notin replaced'
                         => ~Authorized'
  BY DEF CarriedInv
<1>6. CASE u = t
  <2>1. asked'[t] = what
        /\ carried'[t] = IF what \in Bearing /\ Authorized THEN storage.user ELSE 0
    BY <1>2 DEF AskTypes
  <2>2. carried'[t] # 0 => Authorized /\ carried'[t] = storage.user
    BY <2>1
  <2>3. carried'[t] # 0 => users'[carried'[t]] # NoUser
    BY <2>2, TokenUser DEF TokenInv, RowsStay
  <2>4. asked'[t] \in Bearing /\ carried'[t] = 0 => ~Authorized
    BY <2>1, TokenUser
  <2> QED BY <1>4, <1>5, <1>6, <2>2, <2>3, <2>4
<1>7. CASE u # t
  <2>1. asked'[u] = asked[u] /\ carried'[u] = carried[u] /\ (u \notin replaced' => u \notin replaced)
    BY <1>2, <1>7 DEF AskTypes
  <2>2. carried[u] # 0 => carried[u] \in Ids
    BY DEF AskTypes
  <2> QED BY <1>4, <1>5, <2>1, <2>2 DEF CarriedInv, RowsStay
<1> QED BY <1>6, <1>7

LEMMA EffectsKeepCarried ==
  ASSUME AccountsInv, AskTypes, TokenInv, CarriedInv, Effects
  PROVE  CarriedInv'
<1>0. \A t \in Tabs : carried[t] # 0 => carried[t] \in Ids
  BY DEF AskTypes
<1>1. CASE Quiet
  <2>1. CASE UNCHANGED requests
    BY <1>0, <1>1, <2>1 DEF Quiet, requests, CarriedInv, Authorized, RowsStay
  <2>2. CASE \E t \in Tabs : Asks(t)
    BY <1>1, <2>2, AskKeepsCarried DEF Quiet
  <2> QED BY <1>1, <2>1, <2>2 DEF Quiet
<1>2. CASE Clears
  <2>1. CASE UNCHANGED requests
    BY <1>0, <1>2, <2>1 DEF Clears, requests, CarriedInv, Authorized, RowsStay, NoToken
  <2>2. CASE \E t \in Tabs : Asks(t)
    BY <1>2, <2>2, AskKeepsCarried DEF Clears
  <2> QED BY <1>2, <2>1, <2>2 DEF Clears
<1>3. CASE LogsIn
  <2>1. /\ UNCHANGED <<asked, carried>> /\ replaced' = {t \in Tabs : asked[t] \in Bearing}
        /\ RowsStay
    BY <1>3 DEF LogsIn, SetToken
  <2>2. Authorized'
    BY <1>3 DEF LogsIn, SetToken, Authorized
  <2> QED BY <1>0, <2>1, <2>2 DEF CarriedInv, RowsStay
<1>4. CASE Devalues
  BY <1>4 DEF Devalues, CarriedInv
<1>5. CASE OldDevalues
  <2>1. PICK t \in Tabs : OldTokenExpires(t)
    BY <1>5 DEF OldDevalues
  <2>2. /\ UNCHANGED <<asked, replaced, storage, jwtSecret>> /\ RowsStay
        /\ carried' = [carried EXCEPT ![t] = 0]
        /\ t \in replaced \/ storage = NoToken
    BY <1>5, <2>1 DEF OldDevalues, OldTokenExpires
  <2>3. Authorized' <=> Authorized
    BY <2>2 DEF Authorized
  <2>4. storage = NoToken => ~Authorized
    BY DEF Authorized, NoToken
  <2>5. \A u \in Tabs : carried'[u] = IF u = t THEN 0 ELSE carried[u]
    BY <2>2 DEF AskTypes
  <2> QED BY <1>0, <2>2, <2>3, <2>4, <2>5 DEF CarriedInv, RowsStay
<1>6. CASE Down
  <2>1. \A t \in Tabs : asked'[t] = "none" /\ carried'[t] = 0
    BY <1>6 DEF Down, AskTypes, requests, Bearing
  <2> QED BY <2>1 DEF CarriedInv, Bearing
<1> QED BY <1>1, <1>2, <1>3, <1>4, <1>5, <1>6 DEF Effects

-----------------------------------------------------------------------------
(* Where an answer finds its tab *)

LEMMA PlaceMoves ==
  ASSUME AccountsInv, AskInv, NEW t \in Tabs, NEW x, NEW what,
         Go(t, x), asked' = [asked EXCEPT ![t] = what],
         what \in {"me", "status"} => x \in {"login_form", "login_sign"} \cup Loading,
         what = "page" => x \in {"home"} \cup Loading
  PROVE  PlaceInv'
<1>1. pc' = [pc EXCEPT ![t] = x]
  BY DEF Go
<1>2. pc'[t] = x /\ asked'[t] = what
  BY <1>1 DEF AccountsInv, TabTypes, AskInv, AskTypes
<1>3. \A u \in Tabs \ {t} : pc'[u] = pc[u] /\ asked'[u] = asked[u]
  BY <1>1 DEF AccountsInv, TabTypes, AskInv, AskTypes
<1> QED BY <1>2, <1>3 DEF AskInv, PlaceInv

\* A step of the tab that asks nothing new.
LEMMA PlaceStays ==
  ASSUME AccountsInv, AskInv, NEW t \in Tabs, NEW x, Go(t, x), UNCHANGED asked,
         \/ x \in Loading
         \/ asked[t] \notin {"me", "status", "page"}
         \/ asked[t] # "page" /\ x \in {"login_form", "login_sign"}
  PROVE  PlaceInv'
<1>1. asked' = [asked EXCEPT ![t] = asked[t]]
  BY DEF AskInv, AskTypes
<1> QED BY <1>1, PlaceMoves

LEMMA PagePlaces ==
  ASSUME AccountsInv, AskInv, NEW t \in Tabs, PageStep(t)
  PROVE  PlaceInv'
<1>0. \A what : Ask(t, what) => asked' = [asked EXCEPT ![t] = what]
  BY DEF Ask
<1>1. CASE NavLogin(t)
  <2>1. CASE Go(t, "offline") /\ Ask(t, "none")
    BY <1>0, <2>1, PlaceMoves
  <2>2. ASSUME NEW what \in {"me", "status"}, Go(t, "login_form"), Ask(t, what) PROVE PlaceInv'
    BY <1>0, <2>2, PlaceMoves
  <2> QED BY <1>1, <2>1, <2>2 DEF NavLogin
<1>2. CASE NavSetup(t) \/ LoginStatus(t)
  <2>1. Ask(t, "none") /\ \E x : Go(t, x)
    BY <1>2 DEF NavSetup, LoginStatus
  <2> QED BY <1>0, <2>1, PlaceMoves
<1>3. CASE NavDashboard(t)
  <2>1. CASE Go(t, "home") /\ Ask(t, "page")
    BY <1>0, <2>1, PlaceMoves
  <2>2. CASE Ask(t, "none") /\ \E x : Go(t, x)
    BY <1>0, <2>2, PlaceMoves
  <2> QED BY <1>3, <2>1, <2>2 DEF NavDashboard
<1>4. CASE LoginMe(t)
  <2>1. CASE Refused(t, "me") /\ Ask(t, "status")
    <3>1. Go(t, "nav_login")
      BY <2>1, RefusedIsPage DEF Bearing
    <3> QED BY <1>0, <2>1, <3>1, PlaceMoves DEF Loading
  <2>2. CASE Go(t, "nav_dashboard") /\ Ask(t, "none")
    BY <1>0, <2>2, PlaceMoves
  <2>3. CASE Go(t, pc[t]) /\ Ask(t, "status")
    <3>1. pc[t] \in {"login_form", "login_sign"} \cup Loading
      BY <1>4 DEF LoginMe, AskInv, PlaceInv
    <3> QED BY <1>0, <2>3, <3>1, PlaceMoves
  <2> QED BY <1>4, <2>1, <2>2, <2>3 DEF LoginMe
<1>5. CASE DashboardGet(t)
  <2>1. Ask(t, "none")
    BY <1>5 DEF DashboardGet
  <2>2. \E x : Go(t, x)
    BY <1>5, RefusedIsPage DEF DashboardGet, Bearing
  <2> QED BY <1>0, <2>1, <2>2, PlaceMoves
<1>6. CASE UpdateProfile(t)
  <2>1. Ask(t, "none") /\ UNCHANGED pc
    BY <1>6 DEF UpdateProfile
  <2>2. Go(t, pc[t])
    BY <2>1 DEF Go, AccountsInv, TabTypes
  <2> QED BY <1>0, <2>1, <2>2, PlaceMoves
<1> QED BY <1>1, <1>2, <1>3, <1>4, <1>5, <1>6 DEF PageStep

LEMMA FormPlaces ==
  ASSUME AccountsInv, AskInv, NEW t \in Tabs, FormStep(t) \/ UserStep(t)
  PROVE  PlaceInv'
<1>1. ASSUME pc[t] \in {"auto_login", "setup_form", "setup_insert", "password_check",
                        "password_write"}
      PROVE  asked[t] \notin {"me", "status", "page"}
  BY <1>1 DEF AskInv, PlaceInv, Loading
<1>2. CASE AutoLogin(t) \/ DoSetup(t) \/ SetupInsert(t) \/ PasswordWrite(t)
  <2>1. UNCHANGED asked /\ \E x : Go(t, x)
    BY <1>2 DEF AutoLogin, LoginRequest, DoSetup, SetupInsert, PasswordWrite, NothingAsked,
       requests
  <2>2. pc[t] \in {"auto_login", "setup_form", "setup_insert", "password_write"}
    BY <1>2 DEF AutoLogin, LoginRequest, DoSetup, SetupInsert, PasswordWrite
  <2> QED BY <1>1, <2>1, <2>2, PlaceStays
<1>3. CASE PasswordCheck(t)
  <2>1. UNCHANGED asked /\ (\E x : Go(t, x)) /\ pc[t] = "password_check"
    BY <1>3 DEF PasswordCheck, Answer401, NothingAsked, requests
  <2> QED BY <1>1, <2>1, PlaceStays
<1>4. CASE LoginSign(t)
  <2>1. UNCHANGED asked /\ pc[t] = "login_sign"
    BY <1>4 DEF LoginSign, SetToken, NothingAsked, requests
  <2>2. asked[t] # "page"
    BY <2>1 DEF AskInv, PlaceInv, Loading
  <2>3. Go(t, "nav_dashboard") \/ Go(t, "login_form") \/ Go(t, "nav_login")
    BY <1>4, <2>1 DEF LoginSign, Unanswered
  <2> QED BY <2>1, <2>2, <2>3, PlaceStays DEF Loading
<1>5. CASE DoLogin(t)
  <2>1. /\ UNCHANGED asked /\ pc[t] = "login_form"
        /\ Go(t, "login_sign") \/ Go(t, "login_form")
    BY <1>5 DEF DoLogin, LoginRequest, NothingAsked, requests
  <2>2. asked[t] # "page"
    BY <2>1 DEF AskInv, PlaceInv, Loading
  <2> QED BY <2>1, <2>2, PlaceStays
<1>6. CASE Open(t) \/ Logout(t)
  <2>1. UNCHANGED asked /\ \E x \in Loading : Go(t, x)
    BY <1>6 DEF Open, Logout, NothingAsked, requests, Loading
  <2> QED BY <2>1, PlaceStays
<1>7. CASE Poll(t)
  <2>1. /\ UNCHANGED pc /\ pc[t] = "home"
        /\ asked' = [asked EXCEPT ![t] = "page"]
    BY <1>7 DEF Poll, Ask
  <2>2. Go(t, "home")
    BY <2>1 DEF Go, AccountsInv, TabTypes
  <2> QED BY <2>1, <2>2, PlaceMoves
<1>8. CASE ChangePassword(t)
  <2>1. UNCHANGED asked /\ Go(t, "password_check") /\ asked[t] = "none"
    BY <1>8 DEF ChangePassword, NothingAsked, requests
  <2> QED BY <2>1, PlaceStays
<1> QED BY <1>2, <1>3, <1>4, <1>5, <1>6, <1>7, <1>8 DEF FormStep, UserStep

LEMMA PlaceKeeps ==
  ASSUME AccountsInv, AskInv, [Next]_vars
  PROVE  PlaceInv'
<1>0. UNCHANGED <<pc, asked>> => PlaceInv'
  BY DEF AskInv, PlaceInv
<1>1. ASSUME NEW p \in Processes, ProcessStep(p) PROVE PlaceInv'
  <2>1. CASE Stop(p) /\ p = "server"
    <3>1. asked' = [t \in Tabs |-> "none"]
      BY <2>1 DEF Stop
    <3> QED BY <3>1 DEF PlaceInv
  <2>2. CASE ~(Stop(p) /\ p = "server")
    <3>1. UNCHANGED <<pc, asked>>
      BY <1>1, <2>2 DEF ProcessStep, ReadKey, WriteKey, ReadSecret, WriteSecret, Stop, tabs,
         requests
    <3> QED BY <1>0, <3>1
  <2> QED BY <2>1, <2>2
<1>2. CASE SetupChecks \/ SetupInserts \/ Seal \/ Reset
  BY <1>0, <1>2 DEF SetupChecks, SetupInserts, Seal, Reset, tabs, requests
<1>3. CASE TokenExpires \/ CookieExpires \/ \E t \in Tabs : OldTokenExpires(t)
  BY <1>0, <1>3 DEF TokenExpires, CookieExpires, OldTokenExpires, tabs, requests
<1>4. CASE UNCHANGED vars
  BY <1>0, <1>4 DEF vars, tabs, requests
<1> QED BY <1>1, <1>2, <1>3, <1>4, PagePlaces, FormPlaces DEF Next

-----------------------------------------------------------------------------
(* The invariant *)

FullInv == AccountsInv /\ AskInv /\ TokenInv /\ CarriedInv

LEMMA FullInvInit == Init => FullInv
<1> SUFFICES ASSUME Init PROVE FullInv
  OBVIOUS
<1>1. AccountsInv
  BY AccountsInitInv
<1>2. AskInv
  BY DEF Init, AskInv, AskTypes, PlaceInv
<1>3. TokenInv
  BY DEF Init, TokenInv, Authorized, NoToken
<1>4. CarriedInv
  BY DEF Init, CarriedInv, Bearing
<1> QED BY <1>1, <1>2, <1>3, <1>4 DEF FullInv

LEMMA NextKeepsFull ==
  ASSUME FullInv, [Next]_vars
  PROVE  FullInv'
<1> USE DEF FullInv
<1>1. Effects
  BY NextEffects
<1>2. AskTypes
  BY DEF AskInv
<1>3. AccountsInv'
  BY NextKeeps
<1>4. AskInv'
  BY <1>1, <1>2, EffectsKeepTypes, PlaceKeeps DEF AskInv
<1>5. TokenInv' /\ CarriedInv'
  BY <1>1, <1>2, EffectsKeepToken, EffectsKeepCarried
<1> QED BY <1>3, <1>4, <1>5

\* The invariant holds in every state the program reaches.
THEOREM AccountsInvariant == Spec => []FullInv
BY FullInvInit, NextKeepsFull, PTL DEF Spec

\* Rows, secrets, tabs, and the requests they wait for stay what their readers
\* take them for (models.User, the pages of web/).
THEOREM AccountsTypeCorrect == Spec => []TypeOK
<1>1. FullInv => TypeOK
  BY TypeOKParts DEF FullInv, AccountsInv, AskInv
<1> QED BY AccountsInvariant, <1>1, PTL

\* However many tabs and setup commands race, a second admin row needs an insert
\* while another insert was on its way (auth_service.go:58-75).
THEOREM AdminsAreExplained == Spec => []AdminsExplained
<1>1. ASSUME AccountsInv PROVE AdminsExplained
  <2>1. SUFFICES ASSUME ~overlap
                 PROVE ~(Cardinality({i \in Ids : users[i] # NoUser}) > 1)
    BY DEF AdminsExplained
  <2>2. \A i, j \in {k \in Ids : users[k] # NoUser} : i = j
    BY <1>1, <2>1 DEF AccountsInv, AdminInv
  <2>3. CASE {k \in Ids : users[k] # NoUser} = {}
    BY <2>3, FS_EmptySet
  <2>4. CASE {k \in Ids : users[k] # NoUser} # {}
    <3>1. PICK i : {k \in Ids : users[k] # NoUser} = {i}
      BY <2>2, <2>4
    <3> QED BY <3>1, FS_Singleton
  <2> QED BY <2>3, <2>4
<1> QED BY AccountsInvariant, <1>1, PTL DEF FullInv

\* The server can decrypt what an earlier start of it has sealed
\* (container.go:137-152).
THEOREM SealedIsReadable == Spec => []SealedReadable
<1>1. AccountsInv => SealedReadable
  BY DEF AccountsInv, KeyInv, SealedReadable, Up
<1> QED BY AccountsInvariant, <1>1, PTL DEF FullInv

-----------------------------------------------------------------------------
(* Sessions *)

\* Of the steps that clear the token, an answer to a request does so only if the
\* token the request carried is refused; if that is not an older one, the stored
\* one would be too.
LEMMA LogoutIsExplained ==
  ASSUME FullInv, Next, storage # NoToken, storage' = NoToken
  PROVE  \/ \E t \in Tabs : Logout(t) \/ StaleRefusal(t)
         \/ ~Authorized
         \/ faults' # faults
<1> USE DEF FullInv
<1>0. storage' # storage
  OBVIOUS
<1>1. CASE \/ \E p \in Processes : ProcessStep(p)
           \/ SetupChecks \/ SetupInserts \/ Seal \/ Reset
  <2>1. UNCHANGED storage
    BY <1>1 DEF ProcessStep, ReadKey, WriteKey, ReadSecret, WriteSecret, Stop, SetupChecks,
       SetupInserts, Seal, Reset, browser
  <2> QED BY <1>0, <2>1
<1>2. CASE TokenExpires \/ CookieExpires \/ \E t \in Tabs : OldTokenExpires(t)
  BY <1>0, <1>2, ExpiryEffects DEF Quiet, Devalues, OldDevalues, NoToken, Expired
<1>3. ASSUME NEW t \in Tabs, FormStep(t) \/ UserStep(t)
      PROVE  Logout(t)
  <2>1. ~Quiet
    BY <1>0 DEF Quiet
  <2>2. ~LogsIn
    BY DEF LogsIn, SetToken, NoToken
  <2> QED BY <1>3, <2>1, <2>2, FormEffects
<1>4. ASSUME NEW t \in Tabs, PageStep(t)
      PROVE  StaleRefusal(t) \/ ~Authorized \/ faults' # faults
  <2>1. Refused(t, asked[t]) /\ asked[t] \in Bearing
    <3>1. CASE LoginMe(t) \/ DashboardGet(t)
      BY <1>0, <3>1 DEF LoginMe, DashboardGet, browser, Bearing
    <3>2. CASE NavLogin(t) \/ NavSetup(t) \/ NavDashboard(t) \/ LoginStatus(t) \/ UpdateProfile(t)
      BY <1>0, <3>2 DEF NavLogin, NavSetup, NavDashboard, LoginStatus, UpdateProfile, browser
    <3> QED BY <1>4, <3>1, <3>2 DEF PageStep
  <2>2. Fault => faults' # faults
    BY AccountsAssumption DEF Fault, AccountsInv, FaultTypes
  <2>3. carried[t] = 0 \/ Fault
    BY <2>1 DEF Refused
  <2>4. carried[t] = 0 /\ t \notin replaced => ~Authorized
    BY <2>1 DEF CarriedInv
  <2>5. t \in replaced => StaleRefusal(t)
    BY <2>1 DEF StaleRefusal
  <2> QED BY <2>2, <2>3, <2>4, <2>5
<1> QED BY <1>1, <1>2, <1>3, <1>4 DEF Next

\* A session ends by a logout, by what happens to its token, or by a late answer
\* to a request with an older token (api.js:98-120): no answer to a form ends the
\* session all tabs share, and none to a request sent since the login.
THEOREM SessionsEndExplained == Spec => NoSpuriousLogout
<1>1. FullInv /\ [Next]_vars
        => [storage # NoToken /\ storage' = NoToken
              => \/ \E t \in Tabs : Logout(t) \/ StaleRefusal(t)
                 \/ ~Authorized
                 \/ faults' # faults]_vars
  BY LogoutIsExplained
<1> QED BY AccountsInvariant, <1>1, PTL DEF Spec, NoSpuriousLogout, FullInv

-----------------------------------------------------------------------------
(* Redirects *)

\* The cookie comes with the token and goes with it, unless both are too old.
CookieInv == (cookie => storage # NoToken) /\ (storage.kind = "signed" => cookie)

LEMMA BrowserSteps ==
  ASSUME [Next]_vars
  PROVE  \/ UNCHANGED browser \/ ClearToken \/ (\E i : SetToken(i)) \/ TokenExpires
         \/ CookieExpires
<1>1. CASE \E p \in Processes : ProcessStep(p)
  BY <1>1 DEF ProcessStep, ReadKey, WriteKey, ReadSecret, WriteSecret, Stop
<1>2. CASE SetupChecks \/ SetupInserts \/ Seal \/ Reset
  BY <1>2 DEF SetupChecks, SetupInserts, Seal, Reset
<1>3. ASSUME NEW t \in Tabs, PageStep(t) PROVE UNCHANGED browser \/ ClearToken
  <2>1. CASE LoginMe(t) \/ DashboardGet(t)
    BY <2>1, RefusedIsPage DEF LoginMe, DashboardGet, Bearing
  <2>2. CASE NavLogin(t) \/ NavSetup(t) \/ NavDashboard(t) \/ LoginStatus(t) \/ UpdateProfile(t)
    BY <2>2 DEF NavLogin, NavSetup, NavDashboard, LoginStatus, UpdateProfile, browser
  <2> QED BY <1>3, <2>1, <2>2 DEF PageStep
<1>4. ASSUME NEW t \in Tabs, FormStep(t) \/ UserStep(t)
      PROVE  UNCHANGED browser \/ ClearToken \/ \E i : SetToken(i)
  <2>1. CASE LoginSign(t) \/ Logout(t)
    BY <2>1 DEF LoginSign, Logout
  <2>2. CASE AutoLogin(t) \/ SetupInsert(t) \/ PasswordCheck(t) \/ PasswordWrite(t)
    BY <2>2 DEF AutoLogin, LoginRequest, SetupInsert, PasswordCheck, PasswordWrite,
       Answer401, SkipLogout, browser
  <2>3. CASE Open(t) \/ DoLogin(t) \/ DoSetup(t) \/ Poll(t) \/ ChangePassword(t)
    BY <2>3 DEF Open, DoLogin, LoginRequest, DoSetup, Poll, ChangePassword, browser
  <2> QED BY <1>4, <2>1, <2>2, <2>3 DEF FormStep, UserStep
<1>5. CASE \E t \in Tabs : OldTokenExpires(t)
  BY <1>5 DEF OldTokenExpires
<1>6. CASE UNCHANGED vars
  BY <1>6 DEF vars
<1> QED BY <1>1, <1>2, <1>3, <1>4, <1>5, <1>6 DEF Next

LEMMA CookieKeeps ==
  ASSUME CookieInv, [Next]_vars
  PROVE  CookieInv'
<1>1. CASE UNCHANGED browser
  BY <1>1 DEF browser, CookieInv
<1>2. CASE ClearToken
  BY <1>2 DEF ClearToken, CookieInv, NoToken
<1>3. CASE \E i : SetToken(i)
  BY <1>3 DEF SetToken, CookieInv, NoToken
<1>4. CASE TokenExpires
  BY <1>4 DEF TokenExpires, CookieInv, NoToken, Expired
<1>5. CASE CookieExpires
  BY <1>5 DEF CookieExpires, CookieInv
<1> QED BY <1>1, <1>2, <1>3, <1>4, <1>5, BrowserSteps

LEMMA RedirectsAhead ==
  ASSUME NEW t \in Tabs
  PROVE  PagesAhead(t) \in 0 .. 8 /\ Redirects(t) \in Nat /\ Redirects(t) >= PagesAhead(t)
<1>1. PagesAhead(t) \in 0 .. 8
  BY DEF PagesAhead
<1> QED BY <1>1 DEF Redirects, Larger

\* What a page's step does to its place and its request.
LEMMA PageMoves ==
  ASSUME FullInv, NEW t \in Tabs
  PROVE  /\ \A x : Go(t, x) => pc'[t] = x
         /\ \A what : Ask(t, what) =>
              /\ asked'[t] = what
              /\ carried'[t] = IF what \in Bearing /\ Authorized THEN storage.user ELSE 0
<1> USE DEF FullInv, AccountsInv, TabTypes, AskInv, AskTypes
<1>1. \A x : Go(t, x) => pc'[t] = x
  BY DEF Go
<1>2. ASSUME NEW what, Ask(t, what)
      PROVE  /\ asked'[t] = what
             /\ carried'[t] = IF what \in Bearing /\ Authorized THEN storage.user ELSE 0
  BY <1>2 DEF Ask
<1> QED BY <1>1, <1>2

\* A page that is loaded.
LEMMA LoadRedirects ==
  ASSUME FullInv, CookieInv, NEW t \in Tabs, Up,
         NavLogin(t) \/ NavSetup(t) \/ NavDashboard(t)
  PROVE  Redirects(t)' < Redirects(t)
<1>1. UNCHANGED <<storage, cookie, jwtSecret>>
  BY DEF NavLogin, NavSetup, NavDashboard, ServerSame, browser
<1>2. Authorized' <=> Authorized
  BY <1>1 DEF Authorized
<1>3. Authorized => cookie /\ storage # NoToken /\ storage.user # 0
  BY TokenUser DEF CookieInv, Authorized, FullInv
<1>4. Redirects(t) \in Nat /\ PagesAhead(t) \in 0 .. 8 /\ Redirects(t) >= PagesAhead(t)
  BY RedirectsAhead
<1> SUFFICES Redirects(t)' < PagesAhead(t) /\ Redirects(t)' \in Nat
  BY <1>4
<1>5. CASE NavLogin(t)
  <2>1. /\ pc[t] = "nav_login" /\ pc'[t] = "login_form"
        /\ storage # NoToken => asked'[t] = "me"
                                /\ carried'[t] = IF Authorized THEN storage.user ELSE 0
        /\ storage = NoToken => asked'[t] = "status"
    BY <1>5, PageMoves DEF NavLogin, Bearing
  <2>2. PagesAhead(t)' = 0
    BY <2>1 DEF PagesAhead
  <2>3. CASE Authorized
    BY <1>2, <1>3, <2>1, <2>2, <2>3 DEF PagesAhead, Redirects, Larger
  <2>4. CASE ~Authorized /\ storage # NoToken
    BY <1>1, <1>2, <2>1, <2>2, <2>4 DEF PagesAhead, Redirects, Larger
  <2>5. CASE ~Authorized /\ storage = NoToken
    BY <1>1, <1>2, <2>1, <2>2, <2>5 DEF PagesAhead, Redirects, Larger
  <2> QED BY <2>3, <2>4, <2>5
<1>6. CASE NavSetup(t)
  <2>1. /\ pc[t] = "nav_setup" /\ asked'[t] = "none"
        /\ pc'[t] = IF cookie \/ storage # NoToken THEN "nav_dashboard" ELSE "setup_form"
    BY <1>6, PageMoves DEF NavSetup
  <2>2. Redirects(t)' = PagesAhead(t)'
    BY <2>1 DEF Redirects
  <2>3. cookie => storage # NoToken
    BY DEF CookieInv
  <2> QED BY <1>1, <1>2, <1>3, <2>1, <2>2, <2>3 DEF PagesAhead
<1>7. CASE NavDashboard(t)
  <2>1. /\ pc[t] = "nav_dashboard"
        /\ ~cookie \/ storage = NoToken => pc'[t] = "nav_login" /\ asked'[t] = "none"
        /\ cookie /\ storage # NoToken =>
              /\ pc'[t] = "home" /\ asked'[t] = "page"
              /\ carried'[t] = IF Authorized THEN storage.user ELSE 0
    BY <1>7, PageMoves DEF NavDashboard, Bearing
  <2>2. CASE ~cookie \/ storage = NoToken
    <3>1. Redirects(t)' = PagesAhead(t)'
      BY <2>1, <2>2 DEF Redirects
    <3> QED BY <1>1, <1>2, <1>3, <2>1, <2>2, <3>1 DEF PagesAhead
  <2>3. CASE cookie /\ storage # NoToken
    <3>1. PagesAhead(t)' = 0
      BY <2>1, <2>3 DEF PagesAhead
    <3> QED BY <1>1, <1>2, <1>3, <2>1, <2>3, <3>1 DEF PagesAhead, Redirects, Larger
  <2> QED BY <2>2, <2>3
<1> QED BY <1>5, <1>6, <1>7

\* An answer that the page awaits.
LEMMA AnswerRedirects ==
  ASSUME FullInv, NEW t \in Tabs, faults' = faults,
         LoginMe(t) \/ LoginStatus(t) \/ DashboardGet(t) \/ UpdateProfile(t)
  PROVE  Redirects(t)' < Redirects(t)
<1>0. ~Fault
  BY AccountsAssumption DEF FullInv, AccountsInv, FaultTypes, Fault
<1>1. UNCHANGED jwtSecret
  BY DEF LoginMe, LoginStatus, DashboardGet, UpdateProfile, ServerSame
<1>2. storage = NoToken => ~Authorized
  BY DEF Authorized, NoToken
<1>3. UNCHANGED storage => (Authorized' <=> Authorized)
  BY <1>1 DEF Authorized
<1>4. PagesAhead(t) \in 0 .. 8 /\ PagesAhead(t)' \in 0 .. 8
  BY RedirectsAhead DEF PagesAhead
<1>5. UNCHANGED storage /\ pc'[t] = pc[t] => PagesAhead(t)' = PagesAhead(t)
  BY <1>3 DEF PagesAhead
<1>6. asked'[t] = "none" => Redirects(t)' = PagesAhead(t)'
  BY DEF Redirects
<1>7. storage' = NoToken /\ pc'[t] = "nav_login" => PagesAhead(t)' = 3 /\ ~Authorized'
  BY DEF PagesAhead, Authorized, NoToken
<1>8. carried[t] # 0 => users[carried[t]] # NoUser /\ (storage = NoToken \/ Authorized)
  BY DEF FullInv, CarriedInv
<1>9. CASE LoginMe(t)
  <2>1. CASE Refused(t, "me") /\ Ask(t, "status")
    <3>1. /\ carried[t] = 0 /\ asked[t] = "me"
          /\ storage' = NoToken /\ pc'[t] = "nav_login" /\ asked'[t] = "status"
      BY <1>0, <1>9, <2>1, RefusedIsPage, PageMoves DEF LoginMe, Refused, ClearToken, Bearing
    <3>2. Redirects(t)' = 4
      BY <1>7, <3>1 DEF Redirects, Larger
    <3>3. Redirects(t) >= 5
      BY <1>4, <3>1 DEF Redirects, Larger
    <3> QED BY <1>4, <3>1, <3>2, <3>3 DEF Redirects, Larger
  <2>2. CASE carried[t] # 0 /\ Go(t, "nav_dashboard") /\ Ask(t, "none") /\ UNCHANGED browser
    <3>1. /\ asked[t] = "me" /\ UNCHANGED storage
          /\ pc'[t] = "nav_dashboard" /\ asked'[t] = "none"
      BY <1>9, <2>2, PageMoves DEF LoginMe, browser
    <3>2. CASE Authorized
      BY <1>2, <1>3, <1>4, <1>6, <2>2, <3>1, <3>2 DEF PagesAhead, Redirects, Larger
    <3>3. CASE storage = NoToken
      BY <1>2, <1>3, <1>4, <1>6, <2>2, <3>1, <3>3 DEF PagesAhead, Redirects, Larger
    <3> QED BY <1>8, <2>2, <3>2, <3>3
  <2> QED BY <1>0, <1>8, <1>9, <2>1, <2>2 DEF LoginMe
<1>10. CASE LoginStatus(t)
  <2>1. /\ asked[t] = "status" /\ asked'[t] = "none" /\ UNCHANGED storage
        /\ pc'[t] = IF UserExists THEN pc[t] ELSE "nav_setup"
    BY <1>0, <1>10, PageMoves DEF LoginStatus, browser
  <2>2. Authorized => UserExists
    BY TokenUser DEF FullInv, TokenInv, UserExists
  <2>3. Redirects(t) >= PagesAhead(t) + 1 /\ Redirects(t) \in Nat
    BY <1>4, <2>1 DEF Redirects, Larger
  <2>4. CASE UserExists
    BY <1>4, <1>5, <1>6, <2>1, <2>3, <2>4
  <2>5. CASE ~UserExists
    <3>1. ~Authorized /\ ~Authorized' /\ pc'[t] = "nav_setup"
      BY <1>3, <2>1, <2>2, <2>5
    <3>2. Redirects(t) >= IF storage = NoToken THEN 2 ELSE 9
      BY <1>4, <2>1, <3>1 DEF Redirects, Larger
    <3>3. PagesAhead(t)' = IF storage = NoToken THEN 1 ELSE 8
      BY <2>1, <3>1 DEF PagesAhead
    <3> QED BY <1>6, <2>1, <2>3, <3>2, <3>3
  <2> QED BY <2>4, <2>5
<1>11. CASE DashboardGet(t)
  <2>1. asked[t] = "page" /\ asked'[t] = "none"
    BY <1>11, PageMoves DEF DashboardGet
  <2>2. CASE Refused(t, "page")
    <3>1. carried[t] = 0 /\ storage' = NoToken /\ pc'[t] = "nav_login"
      BY <1>0, <2>2, RefusedIsPage, PageMoves DEF Refused, ClearToken, Bearing
    <3>2. Redirects(t) >= 4 /\ Redirects(t) \in Nat
      BY <1>4, <2>1, <3>1 DEF Redirects, Larger
    <3> QED BY <1>6, <1>7, <2>1, <3>1, <3>2
  <2>3. CASE carried[t] # 0 /\ Go(t, pc[t]) /\ UNCHANGED browser
    <3>1. UNCHANGED storage /\ pc'[t] = pc[t]
      BY <2>3, PageMoves DEF browser
    <3>2. Redirects(t) = PagesAhead(t) + 1
      BY <2>1, <2>3 DEF Redirects
    <3> QED BY <1>4, <1>5, <1>6, <2>1, <3>1, <3>2
  <2> QED BY <1>11, <2>2, <2>3 DEF DashboardGet
<1>12. CASE UpdateProfile(t)
  <2>1. /\ asked[t] = "page" /\ asked'[t] = "none" /\ carried[t] # 0
        /\ UNCHANGED storage /\ pc'[t] = pc[t]
    BY <1>12, PageMoves DEF UpdateProfile, browser
  <2>2. Redirects(t) = PagesAhead(t) + 1
    BY <2>1 DEF Redirects
  <2> QED BY <1>4, <1>5, <1>6, <2>1, <2>2
<1> QED BY <1>9, <1>10, <1>11, <1>12

\* The redirects of the pages never chase each other (login.html, setup.html and
\* api.js:requireAuth look at different things, and at the answers to requests an
\* older token was sent with): whatever the other tabs, the setup command or a
\* reset have changed since, each one leaves fewer.
THEOREM RedirectsEnd == Spec => RedirectsMakeProgress
<1> DEFINE Inv == FullInv /\ CookieInv
<1>1. Init => Inv
  BY FullInvInit DEF Init, CookieInv, NoToken
<1>2. Inv /\ [Next]_vars => Inv'
  BY NextKeepsFull, CookieKeeps
<1>3. Inv /\ [Next]_vars
        => [\A t \in Tabs :
              /\ Up /\ faults' = faults
              /\ <<pc[t], asked[t]>>' # <<pc[t], asked[t]>> /\ PageStep(t)
              => Redirects(t)' < Redirects(t)]_vars
  BY LoadRedirects, AnswerRedirects DEF PageStep
<1> QED BY <1>1, <1>2, <1>3, PTL DEF Spec, RedirectsMakeProgress
=============================================================================
