------------------------------ MODULE Sessions ------------------------------
(***************************************************************************)
(* The administrator's account and the sessions issued for it: login       *)
(* (web/controller/index.go), the change of the credentials                *)
(* (web/controller/setting.go, updateUser), the check every other request  *)
(* passes (web/controller/base.go), and the service they share             *)
(* (web/service/user.go).  Sessions are stored in cookies; what revokes    *)
(* them is the fingerprint of the credentials they carry.                  *)
(*                                                                         *)
(* A stored password is the password and the salt of its hash; salt 0      *)
(* stands for the cleartext of a row older than hashing.  The throttle in  *)
(* front of the login is LoginThrottle; the lifetime of cookies and the    *)
(* import of another database are left out.                                *)
(***************************************************************************)
EXTENDS Integers

CONSTANTS
    Browsers, Handlers,
    Names, Passwords,
    Nothing,         \* no cookie, no row read
    MaxOps,          \* bound: requests and uses of the command line
    MaxFaults        \* bound: failing statements

ASSUME BoundsAssumption == MaxOps \in Nat /\ MaxFaults \in Nat

Credentials == [name : Names, pw : Passwords]

\* model.User
User == [name : Names, pw : Passwords, salt : Nat]

ASSUME NothingAssumption == Nothing \notin User

Login == "login"
Change == "change"

Request == [op : {Login, Change}, browser : Browsers, cookie : User \cup {Nothing},
            old : Credentials, new : Credentials]

ASSUME NoRequestAssumption == Nothing \notin Request

VARIABLES
    row,         \* the row of the users table
    salt,        \* the salts bcrypt has drawn are 1..salt
    cookie,      \* the fingerprint in each browser's session
    pc, req,     \* the handlers
    user,        \* the row a handler holds in memory
    intended,    \* history: the credentials of the last change
    past,        \* history: fingerprints that ceased to be the row's
    shown,       \* history: credentials each browser has shown or set
    raced,       \* history: a rehash of a row read before a change has overwritten it
    adopted,     \* history: browsers given the fingerprint of another's change
    ops, faults  \* counters for the bounds

account == <<row, salt, past>>
handler == <<pc, req, user>>
history == <<intended, shown, raced, adopted>>
bounds  == <<ops, faults>>
vars    == <<account, cookie, handler, history, bounds>>

TypeOK ==
    /\ row \in User
    /\ salt \in Nat /\ row.salt <= salt
    /\ cookie \in [Browsers -> User \cup {Nothing}]
    /\ pc \in [Handlers -> {"idle", "resolve", "lookup", "rehash", "update",
                            "reload", "issue"}]
    /\ req \in [Handlers -> Request \cup {Nothing}]
    /\ user \in [Handlers -> User \cup {Nothing}]
    /\ \A h \in Handlers : pc[h] = "idle" <=> req[h] = Nothing
    /\ \A h \in Handlers : pc[h] \in {"rehash", "update", "reload", "issue"}
                              => user[h] # Nothing
    /\ intended \in Credentials
    /\ past \subseteq User
    /\ shown \in [Browsers -> SUBSET Credentials]
    /\ raced \in BOOLEAN /\ adopted \subseteq Browsers
    /\ ops \in 0..MaxOps /\ faults \in 0..MaxFaults

\* The panel serves an account whose row may predate hashing.
Init ==
    /\ row \in [name : Names, pw : Passwords, salt : {0, 1}]
    /\ salt = 1
    /\ cookie = [b \in Browsers |-> Nothing]
    /\ pc = [h \in Handlers |-> "idle"]
    /\ req = [h \in Handlers |-> Nothing]
    /\ user = [h \in Handlers |-> Nothing]
    /\ intended = [name |-> row.name, pw |-> row.pw]
    /\ past = {}
    /\ shown = [b \in Browsers |-> {}]
    /\ raced = FALSE /\ adopted = {}
    /\ ops = 0 /\ faults = 0

-----------------------------------------------------------------------------
(* model/password.go *)

\* Mutant of Fingerprint: only the name is hashed into it.
FingerprintOfName(u) == [u EXCEPT !.salt = 0, !.pw = CHOOSE p \in Passwords : TRUE]

\* CredentialFingerprint: SHA-256 of the name and the stored password.
Fingerprint(u) == u

Cleartext(u) == u.salt = 0

\* VerifyPassword, after the row was looked up by name.
Verifies(u, c) == u.name = c.name /\ u.pw = c.pw

\* Mutant of Hashed: the hash is not salted.
HashedUnsalted(c) == [name |-> c.name, pw |-> c.pw, salt |-> 1]

\* HashPassword draws a new salt.
Hashed(c) == [name |-> c.name, pw |-> c.pw, salt |-> salt + 1]

Write(u) ==
    /\ row' = u
    /\ salt' = salt + 1
    /\ past' = past \cup {Fingerprint(row)}

-----------------------------------------------------------------------------
(* The handlers *)

Goto(h, label) == pc' = [pc EXCEPT ![h] = label]

Return(h) ==
    /\ Goto(h, "idle")
    /\ req' = [req EXCEPT ![h] = Nothing]
    /\ user' = [user EXCEPT ![h] = Nothing]

\* A request arrives, with the cookie the browser has now.
Begin(h, op) ==
    /\ pc[h] = "idle" /\ ops < MaxOps
    /\ ops' = ops + 1
    /\ \E b \in Browsers, old \in Credentials, new \in Credentials :
          /\ op = Login => new = old
          /\ req' = [req EXCEPT ![h] = [op |-> op, browser |-> b, cookie |-> cookie[b],
                                        old |-> old, new |-> new]]
    /\ UNCHANGED <<account, cookie, user, history, faults>>

SubmitLogin(h) == Begin(h, Login) /\ Goto(h, "lookup")

SubmitChange(h) == Begin(h, Change) /\ Goto(h, "resolve")

\* checkLogin, resolveLoginUser, and the comparison of the old user name.
Resolve(h) ==
    /\ pc[h] = "resolve"
    /\ IF req[h].cookie # Nothing /\ req[h].cookie = Fingerprint(row)
          /\ row.name = req[h].old.name
       THEN Goto(h, "lookup") /\ UNCHANGED <<req, user>>
       ELSE Return(h)
    /\ UNCHANGED <<account, cookie, history, bounds>>

\* CheckUser: the row is read, the password compared in memory.
Lookup(h) ==
    /\ pc[h] = "lookup"
    /\ IF ~Verifies(row, req[h].old) THEN Return(h) /\ UNCHANGED shown
       ELSE /\ user' = [user EXCEPT ![h] = row]
            /\ Goto(h, CASE Cleartext(row)        -> "rehash"
                         [] req[h].op = Login     -> "issue"
                         [] OTHER                 -> "update")
            /\ shown' = [shown EXCEPT ![req[h].browser] = @ \cup {req[h].old}]
            /\ UNCHANGED req
    /\ UNCHANGED <<account, cookie, intended, raced, adopted, bounds>>

AfterCheck(h) == IF req[h].op = Login THEN "issue" ELSE "update"

\* setPassword: the password that was verified is stored as a hash, whatever
\* the row holds by now; the name stays.
Rehash(h) ==
    /\ pc[h] = "rehash"
    /\ Write([Hashed(req[h].old) EXCEPT !.name = row.name])
    /\ raced' = (raced \/ (~Cleartext(row) /\ req[h].old.pw # intended.pw))
    /\ user' = [user EXCEPT ![h] = Hashed(req[h].old)]
    /\ Goto(h, AfterCheck(h))
    /\ UNCHANGED <<cookie, req, intended, shown, adopted, bounds>>

\* A failing upgrade does not block the login.
RehashFails(h) ==
    /\ pc[h] = "rehash" /\ faults < MaxFaults
    /\ faults' = faults + 1
    /\ Goto(h, AfterCheck(h))
    /\ UNCHANGED <<account, cookie, req, user, history, ops>>

\* UpdateUser: a single statement.
UpdateUser(h) ==
    /\ pc[h] = "update"
    /\ Write(Hashed(req[h].new))
    /\ intended' = req[h].new
    /\ raced' = FALSE
    /\ user' = [user EXCEPT ![h] = Hashed(req[h].new)]
    /\ shown' = [shown EXCEPT ![req[h].browser] = @ \cup {req[h].new}]
    /\ Goto(h, "reload")
    /\ UNCHANGED <<cookie, req, adopted, bounds>>

\* Mutant of UpdateFails: two chained updates, of which the first is done.
UpdateFailsHalfway(h) ==
    /\ pc[h] = "update" /\ faults < MaxFaults
    /\ faults' = faults + 1
    /\ Write([row EXCEPT !.name = req[h].new.name])
    /\ Return(h)
    /\ UNCHANGED <<cookie, history, ops>>

UpdateFails(h) ==
    /\ pc[h] = "update" /\ faults < MaxFaults
    /\ faults' = faults + 1
    /\ Return(h)
    /\ UNCHANGED <<account, cookie, history, ops>>

\* GetUserById after the change; another change may have come between.
Reload(h) ==
    /\ pc[h] = "reload"
    /\ adopted' = IF row = user[h] THEN adopted ELSE adopted \cup {req[h].browser}
    /\ user' = [user EXCEPT ![h] = row]
    /\ Goto(h, "issue")
    /\ UNCHANGED <<account, cookie, req, intended, shown, raced, bounds>>

\* The change stands, the browser keeps its old cookie.
ReloadFails(h) ==
    /\ pc[h] = "reload" /\ faults < MaxFaults
    /\ faults' = faults + 1
    /\ Return(h)
    /\ UNCHANGED <<account, cookie, history, ops>>

\* Mutant of Issue: the session is made from the row as it is by now.
IssueLatest(h) ==
    /\ pc[h] = "issue"
    /\ cookie' = [cookie EXCEPT ![req[h].browser] = Fingerprint(row)]
    /\ Return(h)
    /\ UNCHANGED <<account, history, bounds>>

\* SetLoginSession, and the answer.
Issue(h) ==
    /\ pc[h] = "issue"
    /\ cookie' = [cookie EXCEPT ![req[h].browser] = Fingerprint(user[h])]
    /\ Return(h)
    /\ UNCHANGED <<account, history, bounds>>

\* logout: ClearSession.
Logout(b) ==
    /\ cookie[b] # Nothing
    /\ cookie' = [cookie EXCEPT ![b] = Nothing]
    /\ UNCHANGED <<account, handler, history, bounds>>

\* x-ui setting -username -password: UpdateFirstUser in another process.
UpdateFirstUser ==
    /\ ops < MaxOps
    /\ ops' = ops + 1
    /\ \E c \in Credentials : Write(Hashed(c)) /\ intended' = c
    /\ raced' = FALSE
    /\ UNCHANGED <<cookie, handler, shown, adopted, faults>>

Next ==
    \/ \E h \in Handlers :
          \/ SubmitLogin(h) \/ SubmitChange(h) \/ Resolve(h) \/ Lookup(h)
          \/ Rehash(h) \/ RehashFails(h) \/ UpdateUser(h) \/ UpdateFails(h)
          \/ Reload(h) \/ ReloadFails(h) \/ Issue(h)
    \/ \E b \in Browsers : Logout(b)
    \/ UpdateFirstUser

Spec == Init /\ [][Next]_vars

-----------------------------------------------------------------------------
(* What the sessions promise *)

\* base.go:39: the change of the credentials ends the sessions issued before.
\* A browser whose session resolves has shown the present credentials, or set
\* them; the exception is a browser whose own change was followed by another
\* before updateUser reloaded the row (setting.go:158).
SessionsAreEarned ==
    \A b \in Browsers :
        cookie[b] = Fingerprint(row) =>
            [name |-> row.name, pw |-> row.pw] \in shown[b] \/ b \in adopted

\* A session that has ended stays ended: no later change, of the password back
\* to an old one included, and no rehash makes its fingerprint the row's again.
RevokedForGood == Fingerprint(row) \notin past

\* user.go:108: the row holds the name and the password of the last change,
\* never parts of two; the exception is a login that has read a cleartext row
\* before the change and stores its hash after it (user.go:71).
ChangeStands ==
    raced \/ [name |-> row.name, pw |-> row.pw] = intended

-----------------------------------------------------------------------------
(* The account that the handlers implement *)

\* A handler holds the row as it is: what it is about to issue will resolve.
Current(h) == user[h] # Nothing /\ Fingerprint(user[h]) = Fingerprint(row)

SignedIn == {b \in Browsers : cookie[b] = Fingerprint(row)}
Admitted == {b \in Browsers : \E h \in Handlers : Current(h) /\ req[h].browser = b}
Changing == {b \in Browsers : \E h \in Handlers : pc[h] = "reload" /\ req[h].browser = b}

Promise == INSTANCE Account WITH
    credentials <- [name |-> row.name, pw |-> row.pw],
    signedIn <- SignedIn, admitted <- Admitted, changing <- Changing

\* base.go:39, setting.go:150: a change ends every session and every admission
\* under way in the very step that stores it, whichever requests overlap, and a
\* browser is signed in only by a check it passed after the last change, or by
\* the answer to its own change.
KeepsPromise == Promise!Spec
=============================================================================
