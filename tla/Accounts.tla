------------------------------ MODULE Accounts ------------------------------
(* The installation's own secrets, the admin account and its browser sessions:
   the first start of the server and of `trangly setup`, which share the data
   directory; the setup, login and profile endpoints; and the tabs of one
   browser, which share localStorage and the cookie. The requests are split
   where the code reads the database and uses the answer later, and where a page
   awaits an answer: the token a request carries may no longer be the one in
   localStorage when its answer comes. *)
EXTENDS Integers, FiniteSets

CONSTANTS
    Tabs,          \* the open tabs of the admin's browser
    Names,         \* usernames
    Passwords,
    MaxFaults      \* bound: operations that fail, processes that stop or crash

ASSUME AccountsAssumption ==
    /\ "none" \notin Names \cup Passwords /\ "wrong" \notin Passwords
    /\ IsFiniteSet(Names)
    /\ IsFiniteSet(Tabs) /\ "setup" \notin Tabs
    /\ MaxFaults \in Nat

VARIABLES
    users,       \* rows of the users table, by id
    jwtSecret,   \* the row of jwt_secrets; 0: no row
    keyFile,     \* contents of the master key file; 0: no file
    sealed,      \* the key the stored GitHub secrets are encrypted with; 0: none
    boot,        \* how far a process has come
    masterKey,   \* the key the server has in memory; 0: none
    storage,     \* the token in localStorage
    cookie,      \* the sy_auth cookie is there
    pc,          \* what a tab shows, or waits for
    form,        \* what the tab's setup form was sent with
    account,     \* the row a login or password request of the tab is about
    asked,       \* the request the script of the tab's page awaits an answer of
    carried,     \* the user of the token it carries; 0: a token to be refused
    replaced,    \* tabs whose request carries a token a login has replaced since
    faults,      \* used up so far
    overlap,     \* an admin was inserted while another insert was on its way
    disturbed    \* the key file was unreadable, or two first starts overlapped

disk == <<users, jwtSecret, keyFile, sealed>>
browser == <<storage, cookie>>
requests == <<asked, carried, replaced>>
tabs == <<pc, form, account, requests>>
ghosts == <<overlap, disturbed>>
vars == <<disk, boot, masterKey, browser, tabs, faults, ghosts>>

\* UNIQUE(username): there are never more rows than names.
Ids == 1..Cardinality(Names)
Credentials == [name : Names, password : Passwords]
NoUser == [name |-> "none", password |-> "none"]
Processes == {"server", "setup"}

\* Keys and secrets only matter up to equality: a new one is any value that
\* nothing but what it replaces refers to.
Keys == 1..3
Secrets == 1..2
Tokens == [kind : {"signed"}, user : Ids, secret : Secrets]
NoToken == [kind |-> "none", user |-> 0, secret |-> 0]
Expired == [kind |-> "expired", user |-> 0, secret |-> 0]

Settled == {"login_form", "setup_form", "home", "offline"}
Loading == {"nav_login", "nav_setup", "nav_dashboard"}
Serving == {"login_sign", "setup_insert", "auto_login", "password_check", "password_write"}

\* Requests the Auth middleware looks at the token of. Bound: a page awaits one
\* answer at a time, the login page's form apart.
Bearing == {"me", "page"}

Up == boot["server"] = "up"
Fault == faults < MaxFaults /\ faults' = faults + 1
NoFault == UNCHANGED faults

Init ==
    /\ users = [i \in Ids |-> NoUser]
    /\ jwtSecret = 0 /\ keyFile = 0 /\ sealed = 0
    /\ boot = [p \in Processes |-> "down"]
    /\ masterKey = 0
    /\ storage = NoToken /\ cookie = FALSE
    /\ pc = [t \in Tabs |-> "offline"]
    /\ form = [t \in Tabs |-> NoUser]
    /\ account = [t \in Tabs |-> 0]
    /\ asked = [t \in Tabs |-> "none"]
    /\ carried = [t \in Tabs |-> 0]
    /\ replaced = {}
    /\ faults = 0
    /\ overlap = FALSE /\ disturbed = FALSE

-----------------------------------------------------------------------------
(* The users table. *)

UserExists == \E i \in Ids : users[i] # NoUser
NameTaken(n, i) == \E j \in Ids \ {i} : users[j].name = n

\* Others past the check of CreateAdmin and not yet in the table.
Inserting == {t \in Tabs : pc[t] = "setup_insert"}
             \cup {p \in {"setup"} : boot[p] = "insert"}

InsertUser(c) ==
    /\ ~NameTaken(c.name, 0)
    /\ users' = [users EXCEPT ![CHOOSE i \in Ids : users[i] = NoUser] = c]
    /\ overlap' = (overlap \/ Cardinality(Inserting) > 1)

\* Mutant of MayCreate: CreateAdmin leaves the check to its callers.
MayCreateUnchecked == TRUE

\* The check of CreateAdmin.
MayCreate == ~UserExists

-----------------------------------------------------------------------------
(* Starting a process: NewContainer and SetupAdmin both load or create the
   master key and seed the JWT secret; SetupAdmin then creates the admin. *)

At(p, from, to) == boot[p] = from /\ boot' = [boot EXCEPT ![p] = to]

\* Mutant of KeyUsable: the length is compared with that of a hex key.
KeyNeverUsable == FALSE

KeyUsable == keyFile # 0

\* The process starts. A file that cannot be read or has not 32 bytes counts as absent.
ReadKey(p) ==
    /\ \/ /\ KeyUsable
          /\ At(p, "down", "read_secret")
          /\ masterKey' = IF p = "server" THEN keyFile ELSE masterKey
          /\ NoFault /\ UNCHANGED disturbed
       \/ /\ ~KeyUsable
          /\ At(p, "down", "write_key")
          /\ NoFault /\ UNCHANGED <<masterKey, disturbed>>
       \/ /\ At(p, "down", "write_key")
          /\ Fault
          /\ disturbed' = TRUE
          /\ UNCHANGED masterKey
    /\ UNCHANGED <<disk, browser, tabs, overlap>>

WriteKey(p) ==
    /\ \/ /\ At(p, "write_key", "read_secret")
          /\ keyFile' = CHOOSE k \in Keys : k \notin {sealed, masterKey}
          /\ masterKey' = IF p = "server" THEN keyFile' ELSE masterKey
          /\ disturbed' = (disturbed \/ \E q \in Processes \ {p} : boot[q] = "write_key")
          /\ NoFault
       \/ /\ At(p, "write_key", "down")
          /\ Fault
          /\ UNCHANGED <<keyFile, masterKey, disturbed>>
    /\ UNCHANGED <<users, jwtSecret, sealed, browser, tabs, overlap>>

AfterSecret(p) == IF p = "server" THEN "up" ELSE "create_check"

\* Only a missing row is seeded; any other error of the read is ignored.
ReadSecret(p) ==
    /\ \/ /\ At(p, "read_secret", IF jwtSecret = 0 THEN "write_secret" ELSE AfterSecret(p))
          /\ NoFault
       \/ At(p, "read_secret", AfterSecret(p)) /\ Fault
    /\ UNCHANGED <<disk, masterKey, browser, tabs, ghosts>>

WriteSecret(p) ==
    /\ \/ /\ At(p, "write_secret", AfterSecret(p))
          /\ jwtSecret' = CHOOSE s \in Secrets : s # storage.secret
          /\ carried' = [t \in Tabs |-> 0]
          /\ NoFault /\ UNCHANGED masterKey
       \/ /\ At(p, "write_secret", "down")
          /\ masterKey' = IF p = "server" THEN 0 ELSE masterKey
          /\ Fault /\ UNCHANGED <<jwtSecret, carried>>
    /\ UNCHANGED <<users, keyFile, sealed, browser, pc, form, account, asked, replaced, ghosts>>

\* `trangly setup`: CreateAdmin, and the end of the process either way.
SetupChecks ==
    /\ At("setup", "create_check", IF MayCreate THEN "insert" ELSE "down")
    /\ UNCHANGED <<disk, masterKey, browser, tabs, faults, ghosts>>

SetupInserts ==
    /\ At("setup", "insert", "down")
    /\ \/ /\ \E c \in Credentials : InsertUser(c)
          /\ NoFault
       \/ /\ \E c \in Credentials : NameTaken(c.name, 0)
          /\ NoFault /\ UNCHANGED <<users, overlap>>
       \/ Fault /\ UNCHANGED <<users, overlap>>
    /\ UNCHANGED <<jwtSecret, keyFile, sealed, masterKey, browser, tabs, disturbed>>

\* Mutant of Unanswered: the page does not catch a fetch that fails.
UnansweredWaits(t) == pc[t]

\* What a tab shows once its request gets no answer.
Unanswered(t) ==
    CASE pc[t] = "setup_insert" -> "setup_form"
      [] pc[t] = "login_sign" -> IF form[t] = NoUser THEN "login_form" ELSE "nav_login"
      [] pc[t] \in {"password_check", "password_write"} -> "home"
      [] OTHER -> pc[t]

\* A process ends, by a signal or a crash, and with it the requests it serves.
Stop(p) ==
    /\ boot[p] # "down"
    /\ boot' = [boot EXCEPT ![p] = "down"]
    /\ Fault
    /\ IF p = "server"
       THEN /\ masterKey' = 0
            /\ pc' = [t \in Tabs |-> Unanswered(t)]
            /\ form' = [t \in Tabs |-> IF pc[t] = "login_sign" THEN NoUser ELSE form[t]]
            /\ account' = [t \in Tabs |-> 0]
            /\ asked' = [t \in Tabs |-> "none"]
            /\ carried' = [t \in Tabs |-> 0]
            /\ replaced' = {}
       ELSE UNCHANGED <<masterKey, tabs>>
    /\ UNCHANGED <<disk, browser, ghosts>>

\* The server stores a secret of the GitHub App, encrypted with its key.
Seal ==
    /\ Up
    /\ sealed' = masterKey
    /\ UNCHANGED <<users, jwtSecret, keyFile, boot, masterKey, browser, tabs, faults, ghosts>>

\* `trangly reset` of a stopped installation: each file is removed or a warning
\* printed.
Reset ==
    /\ \A p \in Processes : boot[p] = "down"
    /\ \E dbGone, keyGone \in BOOLEAN :
          /\ IF dbGone /\ keyGone THEN NoFault ELSE Fault
          /\ IF dbGone
             THEN /\ users' = [i \in Ids |-> NoUser]
                  /\ jwtSecret' = 0 /\ sealed' = 0
                  /\ overlap' = FALSE
             ELSE UNCHANGED <<users, jwtSecret, sealed, overlap>>
          /\ keyFile' = IF keyGone THEN 0 ELSE keyFile
          /\ disturbed' = (disturbed \/ ~dbGone)
    /\ UNCHANGED <<boot, masterKey, browser, tabs>>

-----------------------------------------------------------------------------
(* The browser. *)

Go(t, to) == pc' = [pc EXCEPT ![t] = to]

\* The server's side of a tab step; what the tab steps leave alone.
ServerSame == UNCHANGED <<jwtSecret, keyFile, sealed, boot, masterKey, disturbed>>
RowsSame == UNCHANGED <<users, overlap>>
TabSame == UNCHANGED <<form, account>>
NothingAsked == UNCHANGED requests

SetToken(i) ==
    /\ storage' = [kind |-> "signed", user |-> i, secret |-> jwtSecret]
    /\ cookie' = TRUE
    /\ replaced' = {t \in Tabs : asked[t] \in Bearing}
    /\ UNCHANGED <<asked, carried>>

\* Mutant of ClearToken: the token stays in localStorage.
ClearCookieOnly == UNCHANGED storage /\ cookie' = FALSE

ClearToken == storage' = NoToken /\ cookie' = FALSE

Authorized == storage.kind = "signed" /\ storage.secret = jwtSecret

\* The page sends a request with the token of this moment and awaits the answer;
\* what = "none": the page awaits nothing.
Ask(t, what) ==
    /\ asked' = [asked EXCEPT ![t] = what]
    /\ carried' = [carried EXCEPT ![t] = IF what \in Bearing /\ Authorized THEN storage.user ELSE 0]
    /\ replaced' = replaced \ {t}

\* An answer that moves the page on abandons the login form it was sent from.
Abandon(t) ==
    /\ form' = [form EXCEPT ![t] = IF pc'[t] = pc[t] THEN @ ELSE NoUser]
    /\ account' = [account EXCEPT ![t] = IF pc'[t] = pc[t] THEN @ ELSE 0]

\* Mutant of SkipLogout: a wrong current password ends the session.
SkipLogoutForLogin == {"login"}

\* Paths whose 401 is an answer and not the end of the session.
SkipLogout == {"login", "change_password"}

\* The 401 interceptor of request: whichever token the request carried, the one
\* that is stored now is cleared.
Answer401(t, path, else) ==
    IF path \in SkipLogout
    THEN Go(t, else) /\ UNCHANGED browser
    ELSE ClearToken /\ Go(t, "nav_login")

\* The Auth middleware has turned the request away: a token it does not accept,
\* or a secret it cannot read.
Refused(t, path) ==
    /\ (carried[t] = 0 /\ NoFault) \/ Fault
    /\ Answer401(t, path, pc[t])

\* The user types an address, follows a link or reloads.
Open(t) ==
    /\ pc[t] \in Settled
    /\ \E page \in {"nav_login", "nav_setup", "nav_dashboard"} : Go(t, page)
    /\ ServerSame /\ RowsSame /\ TabSame /\ NothingAsked /\ UNCHANGED <<browser, faults>>

\* The page at "/" and the start of LoginPage.init; its form can be used while
\* init awaits. A new page hears no more of what the old one has asked.
NavLogin(t) ==
    /\ pc[t] = "nav_login"
    /\ IF Up
       THEN Go(t, "login_form") /\ Ask(t, IF storage # NoToken THEN "me" ELSE "status")
       ELSE Go(t, "offline") /\ Ask(t, "none")
    /\ ServerSame /\ RowsSame /\ TabSame /\ UNCHANGED <<browser, faults>>

\* The answer of GET /api/auth/me: 401 from the middleware, 500 when the row
\* cannot be read. After either init goes on with the setup status.
LoginMe(t) ==
    /\ asked[t] = "me"
    /\ \/ Refused(t, "me") /\ Ask(t, "status")
       \/ /\ carried[t] # 0 /\ users[carried[t]] # NoUser
          /\ Go(t, "nav_dashboard") /\ Ask(t, "none")
          /\ NoFault /\ UNCHANGED browser
       \/ /\ carried[t] # 0
          /\ (users[carried[t]] = NoUser /\ NoFault) \/ Fault
          /\ Go(t, pc[t]) /\ Ask(t, "status")
          /\ UNCHANGED browser
    /\ Abandon(t) /\ ServerSame /\ RowsSame

\* The answer of GET /api/setup/status.
LoginStatus(t) ==
    /\ asked[t] = "status"
    /\ \/ Go(t, IF UserExists THEN pc[t] ELSE "nav_setup") /\ NoFault
       \/ Go(t, pc[t]) /\ Fault
    /\ Ask(t, "none")
    /\ Abandon(t) /\ ServerSame /\ RowsSame /\ UNCHANGED browser

\* The page at /setup and SetupPage.init.
NavSetup(t) ==
    /\ pc[t] = "nav_setup"
    /\ Go(t, CASE ~Up -> "offline"
               [] Up /\ (cookie \/ storage # NoToken) -> "nav_dashboard"
               [] OTHER -> "setup_form")
    /\ Ask(t, "none")
    /\ ServerSame /\ RowsSame /\ TabSame /\ UNCHANGED <<browser, faults>>

\* A protected page: the cookie lets it be served, requireAuth asks for the
\* token, and its first request is sent.
NavDashboard(t) ==
    /\ pc[t] = "nav_dashboard"
    /\ \/ ~Up /\ Go(t, "offline") /\ Ask(t, "none")
       \/ Up /\ (~cookie \/ storage = NoToken) /\ Go(t, "nav_login") /\ Ask(t, "none")
       \/ Up /\ cookie /\ storage # NoToken /\ Go(t, "home") /\ Ask(t, "page")
    /\ ServerSame /\ RowsSame /\ TabSame /\ UNCHANGED <<browser, faults>>

\* A further request of the page, by a timer or a click: a GET, or the PUT of the
\* profile.
Poll(t) ==
    /\ pc[t] = "home" /\ asked[t] = "none" /\ Up
    /\ Ask(t, "page")
    /\ ServerSame /\ RowsSame /\ TabSame /\ UNCHANGED <<pc, browser, faults>>

\* The answer of a GET of the page, and the refusal of any of its requests.
DashboardGet(t) ==
    /\ asked[t] = "page"
    /\ \/ Refused(t, "page")
       \/ carried[t] # 0 /\ Go(t, pc[t]) /\ NoFault /\ UNCHANGED browser
    /\ Ask(t, "none")
    /\ ServerSame /\ RowsSame /\ TabSame

Logout(t) ==
    /\ pc[t] = "home"
    /\ ClearToken /\ Go(t, "nav_login")
    /\ ServerSame /\ RowsSame /\ TabSame /\ NothingAsked /\ UNCHANGED faults

\* Tokens expire in the order they were issued: those of requests on their way
\* are the stored one or older.
TokenExpires ==
    /\ storage.kind = "signed"
    /\ storage' = Expired
    /\ carried' = [t \in Tabs |-> 0]
    /\ ServerSame /\ RowsSame /\ UNCHANGED <<cookie, pc, form, account, asked, replaced, faults>>

\* A token that only requests on their way still carry.
OldTokenExpires(t) ==
    /\ carried[t] # 0 /\ (t \in replaced \/ storage = NoToken)
    /\ carried' = [carried EXCEPT ![t] = 0]
    /\ ServerSame /\ RowsSame
    /\ UNCHANGED <<browser, pc, form, account, asked, replaced, faults>>

\* Seven days against the token's twenty-four hours.
CookieExpires ==
    /\ cookie /\ storage.kind # "signed"
    /\ cookie' = FALSE
    /\ ServerSame /\ RowsSame /\ UNCHANGED <<storage, tabs, faults>>

-----------------------------------------------------------------------------
(* Login, setup and profile requests of a tab. *)

\* POST /api/auth/login, from the form or from doSetup: the row and its
\* password; the token is signed in a later step. The rate limit, a wrong
\* password, a failed read or a stopped server refuse it.
LoginRequest(t, c, from, refused) ==
    /\ pc[t] = from
    /\ \/ /\ Up
          /\ \E i \in Ids : users[i] = c /\ account' = [account EXCEPT ![t] = i]
          /\ Go(t, "login_sign")
       \/ Go(t, refused) /\ UNCHANGED account
    /\ ServerSame /\ RowsSame /\ NothingAsked /\ UNCHANGED <<browser, faults>>

DoLogin(t) ==
    /\ \E c \in Credentials : LoginRequest(t, c, "login_form", "login_form")
    /\ UNCHANGED form

\* The second half of doSetup.
AutoLogin(t) ==
    /\ LoginRequest(t, form[t], "auto_login", "nav_login")
    /\ form' = IF pc'[t] = "login_sign" THEN form ELSE [form EXCEPT ![t] = NoUser]

LoginSign(t) ==
    /\ pc[t] = "login_sign"
    /\ \/ jwtSecret # 0 /\ NoFault /\ SetToken(account[t]) /\ Go(t, "nav_dashboard")
       \/ /\ (jwtSecret = 0 /\ NoFault) \/ Fault
          /\ UNCHANGED browser /\ NothingAsked /\ Go(t, Unanswered(t))
    /\ form' = [form EXCEPT ![t] = NoUser]
    /\ account' = [account EXCEPT ![t] = 0]
    /\ ServerSame /\ RowsSame

\* POST /api/setup: the handler's check and CreateAdmin's, which no deletion
\* can come between; the hash and the insert follow.
DoSetup(t) ==
    /\ pc[t] = "setup_form"
    /\ Up /\ ~UserExists /\ MayCreate
    /\ Go(t, "setup_insert")
    /\ ServerSame /\ RowsSame /\ TabSame /\ NothingAsked /\ UNCHANGED <<browser, faults>>

SetupInsert(t) ==
    /\ pc[t] = "setup_insert"
    /\ \E c \in Credentials :
          \/ /\ InsertUser(c)
             /\ form' = [form EXCEPT ![t] = c]
             /\ Go(t, "auto_login")
             /\ NoFault
          \/ /\ (NameTaken(c.name, 0) /\ NoFault) \/ Fault
             /\ RowsSame /\ UNCHANGED form
             /\ Go(t, "setup_form")
    /\ ServerSame /\ NothingAsked /\ UNCHANGED <<account, browser>>

\* PUT /api/auth/profile; a name that is taken leaves the row alone.
UpdateProfile(t) ==
    /\ asked[t] = "page" /\ carried[t] # 0
    /\ \E n \in Names :
          /\ ~NameTaken(n, carried[t]) /\ users[carried[t]] # NoUser
          /\ users' = [users EXCEPT ![carried[t]].name = n]
    /\ Ask(t, "none")
    /\ ServerSame /\ TabSame /\ UNCHANGED <<overlap, pc, browser, faults>>

\* POST /api/auth/change-password: the token is read and the request sent; the
\* row is read and the current password compared; the new hash is written in a
\* later step.
ChangePassword(t) ==
    /\ pc[t] = "home" /\ asked[t] = "none" /\ Up
    /\ Go(t, "password_check")
    /\ account' = [account EXCEPT ![t] = IF Authorized THEN storage.user ELSE 0]
    /\ ServerSame /\ RowsSame /\ NothingAsked /\ UNCHANGED <<form, browser, faults>>

\* A token that is refused and a password that is wrong have the same answer.
PasswordCheck(t) ==
    /\ pc[t] = "password_check"
    /\ \/ /\ account[t] # 0 /\ users[account[t]].password \in Passwords
          /\ Go(t, "password_write")
          /\ UNCHANGED <<account, browser>>
       \/ /\ Answer401(t, "change_password", "home")
          /\ account' = [account EXCEPT ![t] = 0]
    /\ ServerSame /\ RowsSame /\ NothingAsked /\ UNCHANGED <<form, faults>>

PasswordWrite(t) ==
    /\ pc[t] = "password_write"
    /\ \/ NoFault /\ \E new \in Passwords : users' = [users EXCEPT ![account[t]].password = new]
       \/ Fault /\ UNCHANGED users
    /\ account' = [account EXCEPT ![t] = 0]
    /\ Go(t, "home")
    /\ ServerSame /\ NothingAsked /\ UNCHANGED <<overlap, form, browser>>

-----------------------------------------------------------------------------

ProcessStep(p) == ReadKey(p) \/ WriteKey(p) \/ ReadSecret(p) \/ WriteSecret(p) \/ Stop(p)

\* What the browser and a page's script do without the user: a page is loaded, an
\* answer comes.
PageStep(t) ==
    \/ NavLogin(t) \/ NavSetup(t) \/ NavDashboard(t)
    \/ LoginMe(t) \/ LoginStatus(t) \/ DashboardGet(t) \/ UpdateProfile(t)

\* The second halves of the requests of the forms.
FormStep(t) ==
    AutoLogin(t) \/ LoginSign(t) \/ SetupInsert(t) \/ PasswordCheck(t) \/ PasswordWrite(t)

UserStep(t) ==
    \/ Open(t) \/ DoLogin(t) \/ DoSetup(t) \/ Logout(t) \/ Poll(t) \/ ChangePassword(t)

Next ==
    \/ \E p \in Processes : ProcessStep(p)
    \/ SetupChecks \/ SetupInserts
    \/ Seal \/ Reset
    \/ \E t \in Tabs : PageStep(t) \/ FormStep(t) \/ UserStep(t) \/ OldTokenExpires(t)
    \/ TokenExpires \/ CookieExpires

Spec == Init /\ [][Next]_vars

-----------------------------------------------------------------------------

\* Types, and what a tab's place says of its request and of the secrets.
TypeOK ==
    /\ users \in [Ids -> Credentials \cup {NoUser}]
    /\ jwtSecret \in Secrets \cup {0}
    /\ keyFile \in Keys \cup {0} /\ sealed \in Keys \cup {0}
    /\ boot \in [Processes -> {"down", "write_key", "read_secret",
                               "write_secret", "create_check", "insert", "up"}]
    /\ masterKey \in Keys \cup {0}
    /\ storage \in Tokens \cup {NoToken, Expired} /\ cookie \in BOOLEAN
    /\ pc \in [Tabs -> Settled \cup Loading \cup Serving]
    /\ form \in [Tabs -> Credentials \cup {NoUser}]
    /\ account \in [Tabs -> Ids \cup {0}]
    /\ asked \in [Tabs -> Bearing \cup {"none", "status"}]
    /\ carried \in [Tabs -> Ids \cup {0}]
    /\ replaced \subseteq {t \in Tabs : asked[t] \in Bearing}
    /\ faults \in 0..MaxFaults
    /\ overlap \in BOOLEAN /\ disturbed \in BOOLEAN
    /\ \A t \in Tabs :
          /\ pc[t] \in {"login_sign", "password_write"} => account[t] # 0
          /\ account[t] # 0 => pc[t] \in {"login_sign", "password_check", "password_write"}
          /\ carried[t] # 0 => asked[t] \in Bearing
          /\ asked[t] # "none" => Up

\* A second admin row needs a setup that was between its check and its insert
\* while another inserted (auth_service.go:58-75): setups that follow each
\* other, by the page or by the command, never make two, whatever was renamed,
\* restarted or reset in between.
AdminsExplained ==
    Cardinality({i \in Ids : users[i] # NoUser}) > 1 => overlap

\* The GitHub secrets stored under one start of the server can be decrypted
\* under every later one (container.go:137-152), unless the key file was once
\* unreadable, two first starts overlapped, or a reset left the database.
SealedReadable ==
    Up /\ sealed # 0 => masterKey = sealed \/ disturbed

\* The answer to a request of tab t that was sent before the last login: the
\* token it carried is not the stored one.
StaleRefusal(t) == t \in replaced /\ Refused(t, asked[t])

\* A session ends only by a logout, by the expiry of its token, because the
\* secret that signed it is no longer the installation's, because the secret
\* could not be read, or by the refusal of an older token: api.js:117 clears
\* what is stored, also when another tab, or the form of the same login page, has
\* logged in since the request was sent. No answer to a form of one tab ends the
\* session that all tabs share, and no request sent since the login does while
\* the server accepts the token (api.js:98-120).
NoSpuriousLogout ==
    [][storage # NoToken /\ storage' = NoToken
         => \/ \E t \in Tabs : Logout(t) \/ StaleRefusal(t)
            \/ ~Authorized
            \/ faults' # faults]_vars

\* How many pages a navigation still loads while nothing else happens, by what
\* the cookie and the token let the pages do.
PagesAhead(t) ==
    CASE Authorized ->
           CASE pc[t] = "nav_login" -> 4
             [] pc[t] = "nav_setup" -> 3
             [] pc[t] = "nav_dashboard" -> 2
             [] OTHER -> 0
      [] ~Authorized /\ storage # NoToken ->
           CASE pc[t] = "nav_setup" -> 8
             [] pc[t] = "nav_dashboard" -> 7
             [] pc[t] = "nav_login" -> 6
             [] OTHER -> 0
      [] OTHER ->
           CASE pc[t] = "nav_dashboard" -> 4
             [] pc[t] = "nav_login" -> 3
             [] pc[t] = "nav_setup" -> 1
             [] OTHER -> 0

Larger(m, n) == IF m > n THEN m ELSE n

\* The same with the answer the page awaits, by the token its request carries.
Redirects(t) ==
    CASE asked[t] = "none" -> PagesAhead(t)
      [] asked[t] = "status" /\ Authorized -> PagesAhead(t) + 1
      [] asked[t] = "status" /\ ~Authorized ->
           Larger(PagesAhead(t) + 1, IF storage = NoToken THEN 2 ELSE 9)
      [] asked[t] = "me" ->
           Larger(PagesAhead(t), IF carried[t] # 0 /\ Authorized THEN 3 ELSE 5)
      [] OTHER -> IF carried[t] # 0 THEN PagesAhead(t) + 1 ELSE Larger(PagesAhead(t), 4)

\* The redirects of the login, setup and protected pages, which look at the
\* cookie, the token, the users table and the answer to an older request in turn,
\* never chase each other: while the server answers, every page that is loaded
\* and every answer that comes leaves fewer of them, whatever the other tabs and
\* the server have changed since the step before.
RedirectsMakeProgress ==
    [][\A t \in Tabs :
         /\ Up /\ faults' = faults
         /\ <<pc[t], asked[t]>>' # <<pc[t], asked[t]>> /\ PageStep(t)
         => Redirects(t)' < Redirects(t)]_vars
===============================================================================
