--------------------------- MODULE SessionsProofs ---------------------------
(***************************************************************************)
(* Proofs about the sessions for any number of browsers, of overlapping    *)
(* requests and of changes: sessions are earned, end with the credentials  *)
(* and stay ended, and a change stands.                                    *)
(***************************************************************************)
EXTENDS Sessions, TLAPS

Creds(u) == [name |-> u.name, pw |-> u.pw]

\* Every password in use was hashed with a salt that has been drawn, so the
\* next one is new to the row, the cookies, the handlers and the past.
SaltsDrawn ==
    /\ \A u \in past : u.salt <= salt
    /\ \A b \in Browsers : cookie[b] # Nothing => cookie[b].salt <= salt
    /\ \A h \in Handlers : user[h] # Nothing => user[h].salt <= salt

\* The browser has shown or set the credentials of the row, or was given the
\* fingerprint of another's change.
Earned(b) == Creds(row) \in shown[b] \/ b \in adopted

\* A handler that still needs the row it read holds the credentials its browser
\* showed, and one that is about to set a cookie sets an earned one.
HandlersEarn ==
    \A h \in Handlers :
       /\ pc[h] = "rehash" =>
             Creds(user[h]) = req[h].old /\ req[h].old \in shown[req[h].browser]
       /\ pc[h] \in {"reload", "issue"} /\ user[h] = row => Earned(req[h].browser)

\* A cleartext row is the one the panel was installed with: nobody has changed
\* the credentials, and who is about to hash it has shown just those.
CleartextIsOld ==
    Cleartext(row) =>
        /\ Creds(row) = intended
        /\ \A h \in Handlers : pc[h] = "rehash" => req[h].old = intended

IInv ==
    /\ TypeOK /\ SaltsDrawn /\ HandlersEarn /\ CleartextIsOld
    /\ SessionsAreEarned /\ RevokedForGood /\ ChangeStands

-----------------------------------------------------------------------------
\* A handler that is not idle has a request, with credentials in it.
LEMMA RequestTyped ==
  ASSUME TypeOK, NEW h \in Handlers, pc[h] # "idle"
  PROVE  /\ req[h] \in Request /\ req[h] # Nothing
         /\ req[h].browser \in Browsers
         /\ req[h].old \in Credentials /\ req[h].new \in Credentials
PROOF
  BY DEF TypeOK, Request

\* A hash is a row with a salt of its own.
LEMMA HashedTyped ==
  ASSUME TypeOK, NEW c \in Credentials
  PROVE  /\ Hashed(c) \in User /\ Hashed(c).salt = salt + 1
         /\ Hashed(c).name = c.name /\ Hashed(c).pw = c.pw
PROOF
  BY DEF TypeOK, Credentials, User, Hashed

\* A step keeps the types.
LEMMA TypeStep ==
  ASSUME TypeOK, [Next]_vars
  PROVE  TypeOK'
PROOF
  <1> USE BoundsAssumption, NothingAssumption, NoRequestAssumption
  <1>1. ASSUME NEW h \in Handlers, SubmitLogin(h) PROVE TypeOK'
    BY <1>1
       DEF TypeOK, User, Request, Credentials, Login, Change, SubmitLogin, Begin,
           Goto, account, handler, history, bounds, vars
  <1>2. ASSUME NEW h \in Handlers, SubmitChange(h) PROVE TypeOK'
    BY <1>2
       DEF TypeOK, User, Request, Credentials, Login, Change, SubmitChange, Begin,
           Goto, account, handler, history, bounds, vars
  <1>3. ASSUME NEW h \in Handlers, Resolve(h) PROVE TypeOK'
    BY <1>3, RequestTyped DEF TypeOK, Resolve, Goto, Return, account, history, bounds
  <1>4. ASSUME NEW h \in Handlers, Lookup(h) PROVE TypeOK'
    <2>1. CASE ~Verifies(row, req[h].old)
      BY <1>4, <2>1 DEF TypeOK, Lookup, Goto, Return, account, bounds
    <2>2. CASE Verifies(row, req[h].old)
      <3>1. /\ row # Nothing
            /\ user' = [user EXCEPT ![h] = row]
            /\ \E l \in {"rehash", "issue", "update"} : pc' = [pc EXCEPT ![h] = l]
            /\ shown' = [shown EXCEPT ![req[h].browser] = @ \cup {req[h].old}]
            /\ UNCHANGED <<req, account, cookie, intended, raced, adopted, bounds>>
        BY <1>4, <2>2, NothingAssumption DEF TypeOK, Lookup, Goto
      <3>2. pc[h] # "idle"
        BY <1>4 DEF Lookup
      <3>3. shown' \in [Browsers -> SUBSET Credentials]
        BY <3>1, <3>2, RequestTyped DEF TypeOK
      <3>4. QED
        BY <3>1, <3>2, <3>3 DEF TypeOK, account, bounds
    <2>3. QED
      BY <2>1, <2>2
  <1>5. ASSUME NEW h \in Handlers, Rehash(h) PROVE TypeOK'
    BY <1>5
       DEF TypeOK, User, Request, Credentials, Login, Change, Rehash, Write, Hashed,
           Goto, AfterCheck, Fingerprint, Cleartext, account, handler, history,
           bounds, vars
  <1>6. ASSUME NEW h \in Handlers, RehashFails(h) PROVE TypeOK'
    BY <1>6
       DEF TypeOK, User, Request, Credentials, Login, Change, RehashFails, Goto,
           AfterCheck, account, handler, history, bounds, vars
  <1>7. ASSUME NEW h \in Handlers, UpdateUser(h) PROVE TypeOK'
    <2>1. pc[h] # "idle"
      BY <1>7 DEF UpdateUser
    <2>2. /\ Hashed(req[h].new) \in User /\ Hashed(req[h].new).salt = salt + 1
          /\ Hashed(req[h].new) # Nothing
      BY <2>1, RequestTyped, HashedTyped, NothingAssumption
    <2>3. shown' \in [Browsers -> SUBSET Credentials]
      BY <1>7, <2>1, RequestTyped DEF TypeOK, UpdateUser
    <2>4. /\ row' = Hashed(req[h].new) /\ salt' = salt + 1 /\ past' = past \cup {row}
          /\ pc' = [pc EXCEPT ![h] = "reload"]
          /\ user' = [user EXCEPT ![h] = Hashed(req[h].new)]
          /\ intended' \in Credentials /\ raced' = FALSE
          /\ UNCHANGED <<cookie, req, adopted, ops, faults>>
      BY <1>7, <2>1, RequestTyped DEF UpdateUser, Write, Goto, Fingerprint, bounds
    <2>5. row' \in User /\ salt' \in Nat /\ row'.salt <= salt' /\ past' \subseteq User
      BY <2>2, <2>4 DEF TypeOK
    <2>6. /\ pc' \in [Handlers -> {"idle", "resolve", "lookup", "rehash", "update",
                                   "reload", "issue"}]
          /\ user' \in [Handlers -> User \cup {Nothing}]
          /\ \A k \in Handlers : pc'[k] = "idle" <=> req'[k] = Nothing
          /\ \A k \in Handlers : pc'[k] \in {"rehash", "update", "reload", "issue"}
                                    => user'[k] # Nothing
      BY <2>1, <2>2, <2>4 DEF TypeOK
    <2>7. QED
      BY <2>3, <2>4, <2>5, <2>6 DEF TypeOK
  <1>8. ASSUME NEW h \in Handlers, UpdateFails(h) PROVE TypeOK'
    BY <1>8
       DEF TypeOK, User, Request, Credentials, Login, Change, UpdateFails, Return,
           Goto, account, handler, history, bounds, vars
  <1>9. ASSUME NEW h \in Handlers, Reload(h) PROVE TypeOK'
    BY <1>9
       DEF TypeOK, User, Request, Credentials, Login, Change, Reload, Goto, account,
           handler, history, bounds, vars
  <1>10. ASSUME NEW h \in Handlers, ReloadFails(h) PROVE TypeOK'
    BY <1>10
       DEF TypeOK, User, Request, Credentials, Login, Change, ReloadFails, Return,
           Goto, account, handler, history, bounds, vars
  <1>11. ASSUME NEW h \in Handlers, Issue(h) PROVE TypeOK'
    BY <1>11
       DEF TypeOK, User, Request, Credentials, Login, Change, Issue, Return, Goto,
           Fingerprint, account, handler, history, bounds, vars
  <1>12. ASSUME NEW b \in Browsers, Logout(b) PROVE TypeOK'
    BY <1>12
       DEF TypeOK, User, Request, Credentials, Login, Change, Logout, account,
           handler, history, bounds, vars
  <1>13. CASE UpdateFirstUser
    <2>1. PICK c \in Credentials : Write(Hashed(c)) /\ intended' = c
      BY <1>13 DEF UpdateFirstUser
    <2>2. Hashed(c) \in User /\ Hashed(c).salt = salt + 1
      BY HashedTyped
    <2>3. row' \in User /\ salt' \in Nat /\ row'.salt <= salt' /\ past' \subseteq User
      BY <2>1, <2>2 DEF TypeOK, Write, Fingerprint
    <2>4. /\ intended' \in Credentials /\ raced' = FALSE
          /\ ops' \in 0..MaxOps
          /\ UNCHANGED <<cookie, pc, req, user, shown, adopted, faults>>
      BY <1>13, <2>1 DEF TypeOK, UpdateFirstUser, handler
    <2>5. QED
      BY <2>3, <2>4 DEF TypeOK
  <1>14. CASE UNCHANGED vars
    BY <1>14
       DEF TypeOK, User, Request, Credentials, Login, Change, account, handler,
           history, bounds, vars
  <1>15. QED
    BY <1>1, <1>2, <1>3, <1>4, <1>5, <1>6, <1>7, <1>8, <1>9, <1>10, <1>11, <1>12,
       <1>13, <1>14
       DEF Next

\* New passwords get new salts, and handlers and cookies only copies of the row.
LEMMA SaltsStep ==
  ASSUME TypeOK, TypeOK', SaltsDrawn, [Next]_vars
  PROVE  SaltsDrawn'
PROOF
  <1> USE BoundsAssumption, NothingAssumption, NoRequestAssumption
  <1>1. ASSUME NEW h \in Handlers, SubmitLogin(h) PROVE SaltsDrawn'
    BY <1>1
       DEF TypeOK, User, Request, Credentials, SaltsDrawn, SubmitLogin, Begin, Goto,
           account, handler, history, bounds, vars
  <1>2. ASSUME NEW h \in Handlers, SubmitChange(h) PROVE SaltsDrawn'
    BY <1>2
       DEF TypeOK, User, Request, Credentials, SaltsDrawn, SubmitChange, Begin,
           Goto, account, handler, history, bounds, vars
  <1>3. ASSUME NEW h \in Handlers, Resolve(h) PROVE SaltsDrawn'
    BY <1>3
       DEF TypeOK, User, Request, Credentials, SaltsDrawn, Resolve, Goto, Return,
           Fingerprint, account, handler, history, bounds, vars
  <1>4. ASSUME NEW h \in Handlers, Lookup(h) PROVE SaltsDrawn'
    BY <1>4
       DEF TypeOK, User, Request, Credentials, SaltsDrawn, Lookup, Goto, Return,
           Verifies, Cleartext, account, handler, history, bounds, vars
  <1>5. ASSUME NEW h \in Handlers, Rehash(h) PROVE SaltsDrawn'
    BY <1>5
       DEF TypeOK, User, Request, Credentials, SaltsDrawn, Rehash, Write, Hashed,
           Goto, AfterCheck, Fingerprint, Cleartext, account, handler, history,
           bounds, vars
  <1>6. ASSUME NEW h \in Handlers, RehashFails(h) PROVE SaltsDrawn'
    BY <1>6
       DEF TypeOK, User, Request, Credentials, SaltsDrawn, RehashFails, Goto,
           AfterCheck, account, handler, history, bounds, vars
  <1>7. ASSUME NEW h \in Handlers, UpdateUser(h) PROVE SaltsDrawn'
    BY <1>7
       DEF TypeOK, User, Request, Credentials, SaltsDrawn, UpdateUser, Write,
           Hashed, Goto, Fingerprint, account, handler, history, bounds, vars
  <1>8. ASSUME NEW h \in Handlers, UpdateFails(h) PROVE SaltsDrawn'
    BY <1>8
       DEF TypeOK, User, Request, Credentials, SaltsDrawn, UpdateFails, Return,
           Goto, account, handler, history, bounds, vars
  <1>9. ASSUME NEW h \in Handlers, Reload(h) PROVE SaltsDrawn'
    BY <1>9
       DEF TypeOK, User, Request, Credentials, SaltsDrawn, Reload, Goto, account,
           handler, history, bounds, vars
  <1>10. ASSUME NEW h \in Handlers, ReloadFails(h) PROVE SaltsDrawn'
    BY <1>10
       DEF TypeOK, User, Request, Credentials, SaltsDrawn, ReloadFails, Return,
           Goto, account, handler, history, bounds, vars
  <1>11. ASSUME NEW h \in Handlers, Issue(h) PROVE SaltsDrawn'
    BY <1>11
       DEF TypeOK, User, Request, Credentials, SaltsDrawn, Issue, Return, Goto,
           Fingerprint, account, handler, history, bounds, vars
  <1>12. ASSUME NEW b \in Browsers, Logout(b) PROVE SaltsDrawn'
    BY <1>12
       DEF TypeOK, User, Request, Credentials, SaltsDrawn, Logout, account, handler,
           history, bounds, vars
  <1>13. CASE UpdateFirstUser
    BY <1>13
       DEF TypeOK, User, Request, Credentials, SaltsDrawn, UpdateFirstUser, Write,
           Hashed, Fingerprint, account, handler, history, bounds, vars
  <1>14. CASE UNCHANGED vars
    BY <1>14
       DEF TypeOK, User, Request, Credentials, SaltsDrawn, account, handler,
           history, bounds, vars
  <1>15. QED
    BY <1>1, <1>2, <1>3, <1>4, <1>5, <1>6, <1>7, <1>8, <1>9, <1>10, <1>11, <1>12,
       <1>13, <1>14
       DEF Next

\* The next row is new to the past.
LEMMA RevokedStep ==
  ASSUME TypeOK, TypeOK', SaltsDrawn, RevokedForGood, [Next]_vars
  PROVE  RevokedForGood'
PROOF
  <1> USE BoundsAssumption, NothingAssumption, NoRequestAssumption
  <1>1. ASSUME NEW h \in Handlers, SubmitLogin(h) PROVE RevokedForGood'
    BY <1>1
       DEF TypeOK, User, Request, Credentials, SaltsDrawn, RevokedForGood,
           Fingerprint, SubmitLogin, Begin, Goto, account, handler, history, bounds,
           vars
  <1>2. ASSUME NEW h \in Handlers, SubmitChange(h) PROVE RevokedForGood'
    BY <1>2
       DEF TypeOK, User, Request, Credentials, SaltsDrawn, RevokedForGood,
           Fingerprint, SubmitChange, Begin, Goto, account, handler, history,
           bounds, vars
  <1>3. ASSUME NEW h \in Handlers, Resolve(h) PROVE RevokedForGood'
    BY <1>3
       DEF TypeOK, User, Request, Credentials, SaltsDrawn, RevokedForGood,
           Fingerprint, Resolve, Goto, Return, Fingerprint, account, handler,
           history, bounds, vars
  <1>4. ASSUME NEW h \in Handlers, Lookup(h) PROVE RevokedForGood'
    BY <1>4
       DEF TypeOK, User, Request, Credentials, SaltsDrawn, RevokedForGood,
           Fingerprint, Lookup, Goto, Return, Verifies, Cleartext, account, handler,
           history, bounds, vars
  <1>5. ASSUME NEW h \in Handlers, Rehash(h) PROVE RevokedForGood'
    BY <1>5
       DEF TypeOK, User, Request, Credentials, SaltsDrawn, RevokedForGood,
           Fingerprint, Rehash, Write, Hashed, Goto, AfterCheck, Fingerprint,
           Cleartext, account, handler, history, bounds, vars
  <1>6. ASSUME NEW h \in Handlers, RehashFails(h) PROVE RevokedForGood'
    BY <1>6
       DEF TypeOK, User, Request, Credentials, SaltsDrawn, RevokedForGood,
           Fingerprint, RehashFails, Goto, AfterCheck, account, handler, history,
           bounds, vars
  <1>7. ASSUME NEW h \in Handlers, UpdateUser(h) PROVE RevokedForGood'
    BY <1>7
       DEF TypeOK, User, Request, Credentials, SaltsDrawn, RevokedForGood,
           Fingerprint, UpdateUser, Write, Hashed, Goto, Fingerprint, account,
           handler, history, bounds, vars
  <1>8. ASSUME NEW h \in Handlers, UpdateFails(h) PROVE RevokedForGood'
    BY <1>8
       DEF TypeOK, User, Request, Credentials, SaltsDrawn, RevokedForGood,
           Fingerprint, UpdateFails, Return, Goto, account, handler, history,
           bounds, vars
  <1>9. ASSUME NEW h \in Handlers, Reload(h) PROVE RevokedForGood'
    BY <1>9
       DEF TypeOK, User, Request, Credentials, SaltsDrawn, RevokedForGood,
           Fingerprint, Reload, Goto, account, handler, history, bounds, vars
  <1>10. ASSUME NEW h \in Handlers, ReloadFails(h) PROVE RevokedForGood'
    BY <1>10
       DEF TypeOK, User, Request, Credentials, SaltsDrawn, RevokedForGood,
           Fingerprint, ReloadFails, Return, Goto, account, handler, history,
           bounds, vars
  <1>11. ASSUME NEW h \in Handlers, Issue(h) PROVE RevokedForGood'
    BY <1>11
       DEF TypeOK, User, Request, Credentials, SaltsDrawn, RevokedForGood,
           Fingerprint, Issue, Return, Goto, Fingerprint, account, handler, history,
           bounds, vars
  <1>12. ASSUME NEW b \in Browsers, Logout(b) PROVE RevokedForGood'
    BY <1>12
       DEF TypeOK, User, Request, Credentials, SaltsDrawn, RevokedForGood,
           Fingerprint, Logout, account, handler, history, bounds, vars
  <1>13. CASE UpdateFirstUser
    BY <1>13
       DEF TypeOK, User, Request, Credentials, SaltsDrawn, RevokedForGood,
           Fingerprint, UpdateFirstUser, Write, Hashed, Fingerprint, account,
           handler, history, bounds, vars
  <1>14. CASE UNCHANGED vars
    BY <1>14
       DEF TypeOK, User, Request, Credentials, SaltsDrawn, RevokedForGood,
           Fingerprint, account, handler, history, bounds, vars
  <1>15. QED
    BY <1>1, <1>2, <1>3, <1>4, <1>5, <1>6, <1>7, <1>8, <1>9, <1>10, <1>11, <1>12,
       <1>13, <1>14
       DEF Next

\* Handlers keep earning the cookie they are going to set.
LEMMA HandlersEarnStep ==
  ASSUME TypeOK, TypeOK', SaltsDrawn, HandlersEarn, [Next]_vars
  PROVE  HandlersEarn'
PROOF
  <1> USE BoundsAssumption, NothingAssumption, NoRequestAssumption
  <1>1. ASSUME NEW h \in Handlers, SubmitLogin(h) PROVE HandlersEarn'
    BY <1>1
       DEF TypeOK, User, Request, Credentials, SaltsDrawn, HandlersEarn, Earned,
           Creds, SubmitLogin, Begin, Goto, account, handler, history, bounds, vars
  <1>2. ASSUME NEW h \in Handlers, SubmitChange(h) PROVE HandlersEarn'
    BY <1>2
       DEF TypeOK, User, Request, Credentials, SaltsDrawn, HandlersEarn, Earned,
           Creds, SubmitChange, Begin, Goto, account, handler, history, bounds, vars
  <1>3. ASSUME NEW h \in Handlers, Resolve(h) PROVE HandlersEarn'
    BY <1>3
       DEF TypeOK, User, Request, Credentials, SaltsDrawn, HandlersEarn, Earned,
           Creds, Resolve, Goto, Return, Fingerprint, account, handler, history,
           bounds, vars
  <1>4. ASSUME NEW h \in Handlers, Lookup(h) PROVE HandlersEarn'
    BY <1>4
       DEF TypeOK, User, Request, Credentials, SaltsDrawn, HandlersEarn, Earned,
           Creds, Lookup, Goto, Return, Verifies, Cleartext, account, handler,
           history, bounds, vars
  <1>5. ASSUME NEW h \in Handlers, Rehash(h) PROVE HandlersEarn'
    BY <1>5
       DEF TypeOK, User, Request, Credentials, SaltsDrawn, HandlersEarn, Earned,
           Creds, Rehash, Write, Hashed, Goto, AfterCheck, Fingerprint, Cleartext,
           account, handler, history, bounds, vars
  <1>6. ASSUME NEW h \in Handlers, RehashFails(h) PROVE HandlersEarn'
    BY <1>6
       DEF TypeOK, User, Request, Credentials, SaltsDrawn, HandlersEarn, Earned,
           Creds, RehashFails, Goto, AfterCheck, account, handler, history, bounds,
           vars
  <1>7. ASSUME NEW h \in Handlers, UpdateUser(h) PROVE HandlersEarn'
    BY <1>7
       DEF TypeOK, User, Request, Credentials, SaltsDrawn, HandlersEarn, Earned,
           Creds, UpdateUser, Write, Hashed, Goto, Fingerprint, account, handler,
           history, bounds, vars
  <1>8. ASSUME NEW h \in Handlers, UpdateFails(h) PROVE HandlersEarn'
    BY <1>8
       DEF TypeOK, User, Request, Credentials, SaltsDrawn, HandlersEarn, Earned,
           Creds, UpdateFails, Return, Goto, account, handler, history, bounds, vars
  <1>9. ASSUME NEW h \in Handlers, Reload(h) PROVE HandlersEarn'
    BY <1>9
       DEF TypeOK, User, Request, Credentials, SaltsDrawn, HandlersEarn, Earned,
           Creds, Reload, Goto, account, handler, history, bounds, vars
  <1>10. ASSUME NEW h \in Handlers, ReloadFails(h) PROVE HandlersEarn'
    BY <1>10
       DEF TypeOK, User, Request, Credentials, SaltsDrawn, HandlersEarn, Earned,
           Creds, ReloadFails, Return, Goto, account, handler, history, bounds, vars
  <1>11. ASSUME NEW h \in Handlers, Issue(h) PROVE HandlersEarn'
    BY <1>11
       DEF TypeOK, User, Request, Credentials, SaltsDrawn, HandlersEarn, Earned,
           Creds, Issue, Return, Goto, Fingerprint, account, handler, history,
           bounds, vars
  <1>12. ASSUME NEW b \in Browsers, Logout(b) PROVE HandlersEarn'
    BY <1>12
       DEF TypeOK, User, Request, Credentials, SaltsDrawn, HandlersEarn, Earned,
           Creds, Logout, account, handler, history, bounds, vars
  <1>13. CASE UpdateFirstUser
    BY <1>13
       DEF TypeOK, User, Request, Credentials, SaltsDrawn, HandlersEarn, Earned,
           Creds, UpdateFirstUser, Write, Hashed, Fingerprint, account, handler,
           history, bounds, vars
  <1>14. CASE UNCHANGED vars
    BY <1>14
       DEF TypeOK, User, Request, Credentials, SaltsDrawn, HandlersEarn, Earned,
           Creds, account, handler, history, bounds, vars
  <1>15. QED
    BY <1>1, <1>2, <1>3, <1>4, <1>5, <1>6, <1>7, <1>8, <1>9, <1>10, <1>11, <1>12,
       <1>13, <1>14
       DEF Next

\* Cookies are set by handlers that have earned them.
LEMMA EarnedStep ==
  ASSUME TypeOK, TypeOK', SaltsDrawn, HandlersEarn, SessionsAreEarned, [Next]_vars
  PROVE  SessionsAreEarned'
PROOF
  <1> USE BoundsAssumption, NothingAssumption, NoRequestAssumption
  <1>1. ASSUME NEW h \in Handlers, SubmitLogin(h) PROVE SessionsAreEarned'
    BY <1>1
       DEF TypeOK, User, Request, Credentials, SaltsDrawn, HandlersEarn, Earned,
           Creds, SessionsAreEarned, Fingerprint, SubmitLogin, Begin, Goto, account,
           handler, history, bounds, vars
  <1>2. ASSUME NEW h \in Handlers, SubmitChange(h) PROVE SessionsAreEarned'
    BY <1>2
       DEF TypeOK, User, Request, Credentials, SaltsDrawn, HandlersEarn, Earned,
           Creds, SessionsAreEarned, Fingerprint, SubmitChange, Begin, Goto,
           account, handler, history, bounds, vars
  <1>3. ASSUME NEW h \in Handlers, Resolve(h) PROVE SessionsAreEarned'
    BY <1>3
       DEF TypeOK, User, Request, Credentials, SaltsDrawn, HandlersEarn, Earned,
           Creds, SessionsAreEarned, Fingerprint, Resolve, Goto, Return,
           Fingerprint, account, handler, history, bounds, vars
  <1>4. ASSUME NEW h \in Handlers, Lookup(h) PROVE SessionsAreEarned'
    <2>1. /\ UNCHANGED <<row, cookie, adopted>>
          /\ \A b \in Browsers : shown[b] \subseteq shown'[b]
      BY <1>4, RequestTyped DEF TypeOK, Lookup, account
    <2>2. QED
      BY <2>1 DEF SessionsAreEarned, Fingerprint
  <1>5. ASSUME NEW h \in Handlers, Rehash(h) PROVE SessionsAreEarned'
    BY <1>5
       DEF TypeOK, User, Request, Credentials, SaltsDrawn, HandlersEarn, Earned,
           Creds, SessionsAreEarned, Fingerprint, Rehash, Write, Hashed, Goto,
           AfterCheck, Fingerprint, Cleartext, account, handler, history, bounds,
           vars
  <1>6. ASSUME NEW h \in Handlers, RehashFails(h) PROVE SessionsAreEarned'
    BY <1>6
       DEF TypeOK, User, Request, Credentials, SaltsDrawn, HandlersEarn, Earned,
           Creds, SessionsAreEarned, Fingerprint, RehashFails, Goto, AfterCheck,
           account, handler, history, bounds, vars
  <1>7. ASSUME NEW h \in Handlers, UpdateUser(h) PROVE SessionsAreEarned'
    BY <1>7
       DEF TypeOK, User, Request, Credentials, SaltsDrawn, HandlersEarn, Earned,
           Creds, SessionsAreEarned, Fingerprint, UpdateUser, Write, Hashed, Goto,
           Fingerprint, account, handler, history, bounds, vars
  <1>8. ASSUME NEW h \in Handlers, UpdateFails(h) PROVE SessionsAreEarned'
    BY <1>8
       DEF TypeOK, User, Request, Credentials, SaltsDrawn, HandlersEarn, Earned,
           Creds, SessionsAreEarned, Fingerprint, UpdateFails, Return, Goto,
           account, handler, history, bounds, vars
  <1>9. ASSUME NEW h \in Handlers, Reload(h) PROVE SessionsAreEarned'
    BY <1>9
       DEF TypeOK, User, Request, Credentials, SaltsDrawn, HandlersEarn, Earned,
           Creds, SessionsAreEarned, Fingerprint, Reload, Goto, account, handler,
           history, bounds, vars
  <1>10. ASSUME NEW h \in Handlers, ReloadFails(h) PROVE SessionsAreEarned'
    BY <1>10
       DEF TypeOK, User, Request, Credentials, SaltsDrawn, HandlersEarn, Earned,
           Creds, SessionsAreEarned, Fingerprint, ReloadFails, Return, Goto,
           account, handler, history, bounds, vars
  <1>11. ASSUME NEW h \in Handlers, Issue(h) PROVE SessionsAreEarned'
    BY <1>11
       DEF TypeOK, User, Request, Credentials, SaltsDrawn, HandlersEarn, Earned,
           Creds, SessionsAreEarned, Fingerprint, Issue, Return, Goto, Fingerprint,
           account, handler, history, bounds, vars
  <1>12. ASSUME NEW b \in Browsers, Logout(b) PROVE SessionsAreEarned'
    BY <1>12
       DEF TypeOK, User, Request, Credentials, SaltsDrawn, HandlersEarn, Earned,
           Creds, SessionsAreEarned, Fingerprint, Logout, account, handler, history,
           bounds, vars
  <1>13. CASE UpdateFirstUser
    BY <1>13
       DEF TypeOK, User, Request, Credentials, SaltsDrawn, HandlersEarn, Earned,
           Creds, SessionsAreEarned, Fingerprint, UpdateFirstUser, Write, Hashed,
           Fingerprint, account, handler, history, bounds, vars
  <1>14. CASE UNCHANGED vars
    BY <1>14
       DEF TypeOK, User, Request, Credentials, SaltsDrawn, HandlersEarn, Earned,
           Creds, SessionsAreEarned, Fingerprint, account, handler, history, bounds,
           vars
  <1>15. QED
    BY <1>1, <1>2, <1>3, <1>4, <1>5, <1>6, <1>7, <1>8, <1>9, <1>10, <1>11, <1>12,
       <1>13, <1>14
       DEF Next

\* A row is not made cleartext again, and is hashed before it is changed or by its change.
LEMMA CleartextStep ==
  ASSUME TypeOK, TypeOK', HandlersEarn, CleartextIsOld, [Next]_vars
  PROVE  CleartextIsOld'
PROOF
  <1> USE BoundsAssumption, NothingAssumption, NoRequestAssumption
  <1>1. ASSUME NEW h \in Handlers, SubmitLogin(h) PROVE CleartextIsOld'
    BY <1>1
       DEF TypeOK, User, Request, Credentials, CleartextIsOld, HandlersEarn, Creds,
           Cleartext, SubmitLogin, Begin, Goto, account, handler, history, bounds,
           vars
  <1>2. ASSUME NEW h \in Handlers, SubmitChange(h) PROVE CleartextIsOld'
    BY <1>2
       DEF TypeOK, User, Request, Credentials, CleartextIsOld, HandlersEarn, Creds,
           Cleartext, SubmitChange, Begin, Goto, account, handler, history, bounds,
           vars
  <1>3. ASSUME NEW h \in Handlers, Resolve(h) PROVE CleartextIsOld'
    BY <1>3
       DEF TypeOK, User, Request, Credentials, CleartextIsOld, HandlersEarn, Creds,
           Cleartext, Resolve, Goto, Return, Fingerprint, account, handler, history,
           bounds, vars
  <1>4. ASSUME NEW h \in Handlers, Lookup(h) PROVE CleartextIsOld'
    BY <1>4
       DEF TypeOK, User, Request, Credentials, CleartextIsOld, HandlersEarn, Creds,
           Cleartext, Lookup, Goto, Return, Verifies, Cleartext, account, handler,
           history, bounds, vars
  <1>5. ASSUME NEW h \in Handlers, Rehash(h) PROVE CleartextIsOld'
    BY <1>5
       DEF TypeOK, User, Request, Credentials, CleartextIsOld, HandlersEarn, Creds,
           Cleartext, Rehash, Write, Hashed, Goto, AfterCheck, Fingerprint,
           Cleartext, account, handler, history, bounds, vars
  <1>6. ASSUME NEW h \in Handlers, RehashFails(h) PROVE CleartextIsOld'
    BY <1>6
       DEF TypeOK, User, Request, Credentials, CleartextIsOld, HandlersEarn, Creds,
           Cleartext, RehashFails, Goto, AfterCheck, account, handler, history,
           bounds, vars
  <1>7. ASSUME NEW h \in Handlers, UpdateUser(h) PROVE CleartextIsOld'
    BY <1>7
       DEF TypeOK, User, Request, Credentials, CleartextIsOld, HandlersEarn, Creds,
           Cleartext, UpdateUser, Write, Hashed, Goto, Fingerprint, account,
           handler, history, bounds, vars
  <1>8. ASSUME NEW h \in Handlers, UpdateFails(h) PROVE CleartextIsOld'
    BY <1>8
       DEF TypeOK, User, Request, Credentials, CleartextIsOld, HandlersEarn, Creds,
           Cleartext, UpdateFails, Return, Goto, account, handler, history, bounds,
           vars
  <1>9. ASSUME NEW h \in Handlers, Reload(h) PROVE CleartextIsOld'
    BY <1>9
       DEF TypeOK, User, Request, Credentials, CleartextIsOld, HandlersEarn, Creds,
           Cleartext, Reload, Goto, account, handler, history, bounds, vars
  <1>10. ASSUME NEW h \in Handlers, ReloadFails(h) PROVE CleartextIsOld'
    BY <1>10
       DEF TypeOK, User, Request, Credentials, CleartextIsOld, HandlersEarn, Creds,
           Cleartext, ReloadFails, Return, Goto, account, handler, history, bounds,
           vars
  <1>11. ASSUME NEW h \in Handlers, Issue(h) PROVE CleartextIsOld'
    BY <1>11
       DEF TypeOK, User, Request, Credentials, CleartextIsOld, HandlersEarn, Creds,
           Cleartext, Issue, Return, Goto, Fingerprint, account, handler, history,
           bounds, vars
  <1>12. ASSUME NEW b \in Browsers, Logout(b) PROVE CleartextIsOld'
    BY <1>12
       DEF TypeOK, User, Request, Credentials, CleartextIsOld, HandlersEarn, Creds,
           Cleartext, Logout, account, handler, history, bounds, vars
  <1>13. CASE UpdateFirstUser
    BY <1>13
       DEF TypeOK, User, Request, Credentials, CleartextIsOld, HandlersEarn, Creds,
           Cleartext, UpdateFirstUser, Write, Hashed, Fingerprint, account, handler,
           history, bounds, vars
  <1>14. CASE UNCHANGED vars
    BY <1>14
       DEF TypeOK, User, Request, Credentials, CleartextIsOld, HandlersEarn, Creds,
           Cleartext, account, handler, history, bounds, vars
  <1>15. QED
    BY <1>1, <1>2, <1>3, <1>4, <1>5, <1>6, <1>7, <1>8, <1>9, <1>10, <1>11, <1>12,
       <1>13, <1>14
       DEF Next

\* Who hashes a cleartext row stores the password of the last change.
LEMMA ChangeStep ==
  ASSUME TypeOK, TypeOK', CleartextIsOld, ChangeStands, [Next]_vars
  PROVE  ChangeStands'
PROOF
  <1> USE BoundsAssumption, NothingAssumption, NoRequestAssumption
  <1>1. ASSUME NEW h \in Handlers, SubmitLogin(h) PROVE ChangeStands'
    BY <1>1
       DEF TypeOK, User, Request, Credentials, CleartextIsOld, Creds, ChangeStands,
           Cleartext, SubmitLogin, Begin, Goto, account, handler, history, bounds,
           vars
  <1>2. ASSUME NEW h \in Handlers, SubmitChange(h) PROVE ChangeStands'
    BY <1>2
       DEF TypeOK, User, Request, Credentials, CleartextIsOld, Creds, ChangeStands,
           Cleartext, SubmitChange, Begin, Goto, account, handler, history, bounds,
           vars
  <1>3. ASSUME NEW h \in Handlers, Resolve(h) PROVE ChangeStands'
    BY <1>3
       DEF TypeOK, User, Request, Credentials, CleartextIsOld, Creds, ChangeStands,
           Cleartext, Resolve, Goto, Return, Fingerprint, account, handler, history,
           bounds, vars
  <1>4. ASSUME NEW h \in Handlers, Lookup(h) PROVE ChangeStands'
    BY <1>4
       DEF TypeOK, User, Request, Credentials, CleartextIsOld, Creds, ChangeStands,
           Cleartext, Lookup, Goto, Return, Verifies, Cleartext, account, handler,
           history, bounds, vars
  <1>5. ASSUME NEW h \in Handlers, Rehash(h) PROVE ChangeStands'
    <2>1. /\ pc[h] = "rehash" /\ req[h].old \in Credentials
          /\ row' = [Hashed(req[h].old) EXCEPT !.name = row.name]
          /\ raced' = (raced \/ (~Cleartext(row) /\ req[h].old.pw # intended.pw))
          /\ intended' = intended
      BY <1>5, RequestTyped DEF Rehash, Write
    <2>2. row'.name = row.name /\ row'.pw = req[h].old.pw
      BY <2>1 DEF Hashed, Credentials
    <2>3. CASE raced'
      BY <2>3, Zenon DEF ChangeStands
    <2>4. CASE ~raced'
      <3>0. /\ Creds(row) = intended
            /\ Cleartext(row) \/ req[h].old.pw = intended.pw
        BY <2>1, <2>4, Zenon DEF ChangeStands, Creds
      <3>1. row.name = intended.name
        BY <3>0 DEF Creds
      <3>2. req[h].old.pw = intended.pw
        BY <2>1, <3>0 DEF CleartextIsOld
      <3>3. intended = [name |-> intended.name, pw |-> intended.pw]
        BY DEF TypeOK, Credentials
      <3>4. QED
        BY <2>1, <2>2, <3>1, <3>2, <3>3 DEF ChangeStands
    <2>5. QED
      BY <2>3, <2>4
  <1>6. ASSUME NEW h \in Handlers, RehashFails(h) PROVE ChangeStands'
    BY <1>6
       DEF TypeOK, User, Request, Credentials, CleartextIsOld, Creds, ChangeStands,
           Cleartext, RehashFails, Goto, AfterCheck, account, handler, history,
           bounds, vars
  <1>7. ASSUME NEW h \in Handlers, UpdateUser(h) PROVE ChangeStands'
    BY <1>7
       DEF TypeOK, User, Request, Credentials, CleartextIsOld, Creds, ChangeStands,
           Cleartext, UpdateUser, Write, Hashed, Goto, Fingerprint, account,
           handler, history, bounds, vars
  <1>8. ASSUME NEW h \in Handlers, UpdateFails(h) PROVE ChangeStands'
    BY <1>8
       DEF TypeOK, User, Request, Credentials, CleartextIsOld, Creds, ChangeStands,
           Cleartext, UpdateFails, Return, Goto, account, handler, history, bounds,
           vars
  <1>9. ASSUME NEW h \in Handlers, Reload(h) PROVE ChangeStands'
    BY <1>9
       DEF TypeOK, User, Request, Credentials, CleartextIsOld, Creds, ChangeStands,
           Cleartext, Reload, Goto, account, handler, history, bounds, vars
  <1>10. ASSUME NEW h \in Handlers, ReloadFails(h) PROVE ChangeStands'
    BY <1>10
       DEF TypeOK, User, Request, Credentials, CleartextIsOld, Creds, ChangeStands,
           Cleartext, ReloadFails, Return, Goto, account, handler, history, bounds,
           vars
  <1>11. ASSUME NEW h \in Handlers, Issue(h) PROVE ChangeStands'
    BY <1>11
       DEF TypeOK, User, Request, Credentials, CleartextIsOld, Creds, ChangeStands,
           Cleartext, Issue, Return, Goto, Fingerprint, account, handler, history,
           bounds, vars
  <1>12. ASSUME NEW b \in Browsers, Logout(b) PROVE ChangeStands'
    BY <1>12
       DEF TypeOK, User, Request, Credentials, CleartextIsOld, Creds, ChangeStands,
           Cleartext, Logout, account, handler, history, bounds, vars
  <1>13. CASE UpdateFirstUser
    BY <1>13
       DEF TypeOK, User, Request, Credentials, CleartextIsOld, Creds, ChangeStands,
           Cleartext, UpdateFirstUser, Write, Hashed, Fingerprint, account, handler,
           history, bounds, vars
  <1>14. CASE UNCHANGED vars
    BY <1>14
       DEF TypeOK, User, Request, Credentials, CleartextIsOld, Creds, ChangeStands,
           Cleartext, account, handler, history, bounds, vars
  <1>15. QED
    BY <1>1, <1>2, <1>3, <1>4, <1>5, <1>6, <1>7, <1>8, <1>9, <1>10, <1>11, <1>12,
       <1>13, <1>14
       DEF Next

\* The inductive invariant holds of every reachable state.
LEMMA Inductive == Spec => []IInv
PROOF
  <1>1. ASSUME Init PROVE IInv
    <2>1. row \in User /\ row # Nothing /\ intended = Creds(row) /\ intended \in Credentials
      BY <1>1, NothingAssumption DEF Init, User, Credentials, Creds
    <2>2. TypeOK
      <3>1. salt \in Nat /\ row.salt <= salt
        BY <1>1 DEF Init
      <3>2. /\ cookie \in [Browsers -> User \cup {Nothing}]
            /\ req \in [Handlers -> Request \cup {Nothing}]
            /\ user \in [Handlers -> User \cup {Nothing}]
            /\ shown \in [Browsers -> SUBSET Credentials]
        BY <1>1 DEF Init
      <3>3. /\ pc \in [Handlers -> {"idle", "resolve", "lookup", "rehash", "update",
                                   "reload", "issue"}]
            /\ \A h \in Handlers : pc[h] = "idle" /\ req[h] = Nothing
        BY <1>1 DEF Init
      <3>4. ops \in 0..MaxOps /\ faults \in 0..MaxFaults
        BY <1>1, BoundsAssumption DEF Init
      <3>5. past \subseteq User /\ raced \in BOOLEAN /\ adopted \subseteq Browsers
        BY <1>1 DEF Init
      <3>6. QED
        BY <2>1, <3>1, <3>2, <3>3, <3>4, <3>5 DEF TypeOK
    <2>3. SaltsDrawn /\ HandlersEarn /\ CleartextIsOld
      BY <1>1, <2>1 DEF Init, SaltsDrawn, HandlersEarn, CleartextIsOld
    <2>4. SessionsAreEarned /\ RevokedForGood
      BY <1>1, <2>1 DEF Init, SessionsAreEarned, RevokedForGood, Fingerprint
    <2>5. ChangeStands
      BY <2>1, Zenon DEF ChangeStands, Creds
    <2>6. QED
      BY <2>2, <2>3, <2>4, <2>5 DEF IInv
  <1>2. IInv /\ [Next]_vars => IInv'
    BY TypeStep, SaltsStep, RevokedStep, HandlersEarnStep, EarnedStep, CleartextStep,
       ChangeStep DEF IInv
  <1>3. QED
    BY <1>1, <1>2, PTL DEF Spec

-----------------------------------------------------------------------------
(* The theorems *)

\* Every variable keeps its type, and handlers that go on hold the row they
\* go on with.
THEOREM TypeCorrect == Spec => []TypeOK
PROOF
  <1>1. IInv => TypeOK
    BY DEF IInv
  <1>2. QED
    BY <1>1, Inductive, PTL

\* A session that resolves belongs to a browser that knows the credentials, or
\* that was given the fingerprint of another's change.
THEOREM Earning == Spec => []SessionsAreEarned
PROOF
  <1>1. IInv => SessionsAreEarned
    BY DEF IInv
  <1>2. QED
    BY <1>1, Inductive, PTL

\* No change, nor a rehash, revives a session that has ended.
THEOREM Revocation == Spec => []RevokedForGood
PROOF
  <1>1. IInv => RevokedForGood
    BY DEF IInv
  <1>2. QED
    BY <1>1, Inductive, PTL

\* The row holds the last change, unless a rehash of a row read before has
\* overwritten it.
THEOREM LastChangeStands == Spec => []ChangeStands
PROOF
  <1>1. IInv => ChangeStands
    BY DEF IInv
  <1>2. QED
    BY <1>1, Inductive, PTL

-----------------------------------------------------------------------------
(* The account that the handlers implement *)

\* A handler holds a row only once it has checked a password, and who is about
\* to store a change has shown credentials.
Ready ==
    \A h \in Handlers :
       /\ pc[h] \in {"idle", "resolve", "lookup"} => user[h] = Nothing
       /\ pc[h] = "update" => shown[req[h].browser] # {}

\* Handlers hold what they need.
LEMMA ReadyStep ==
  ASSUME IInv, Ready, [Next]_vars
  PROVE  Ready'
PROOF
  <1> USE DEF Goto, Return, AfterCheck, account, handler, history, bounds
  <1>0. /\ pc \in [Handlers -> {"idle", "resolve", "lookup", "rehash", "update",
                                "reload", "issue"}]
        /\ req \in [Handlers -> Request \cup {Nothing}]
        /\ user \in [Handlers -> User \cup {Nothing}]
        /\ shown \in [Browsers -> SUBSET Credentials]
        /\ HandlersEarn
        /\ \A h \in Handlers : pc[h] # "idle" => req[h].browser \in Browsers
    BY RequestTyped DEF IInv, TypeOK
  <1>1. ASSUME NEW h \in Handlers, SubmitLogin(h) PROVE Ready'
    BY <1>0, <1>1 DEF Ready, HandlersEarn, SubmitLogin, Begin
  <1>2. ASSUME NEW h \in Handlers, SubmitChange(h) PROVE Ready'
    BY <1>0, <1>2 DEF Ready, HandlersEarn, SubmitChange, Begin
  <1>3. ASSUME NEW h \in Handlers, Resolve(h) PROVE Ready'
    BY <1>0, <1>3 DEF Ready, HandlersEarn, Resolve
  <1>4. ASSUME NEW h \in Handlers, Lookup(h) PROVE Ready'
    <2>1. CASE ~Verifies(row, req[h].old)
      BY <1>0, <1>4, <2>1 DEF Ready, Lookup
    <2>2. CASE Verifies(row, req[h].old)
      <3>1. /\ user' = [user EXCEPT ![h] = row] /\ req' = req
            /\ \E l \in {"rehash", "issue", "update"} : pc' = [pc EXCEPT ![h] = l]
            /\ shown' = [shown EXCEPT ![req[h].browser] = @ \cup {req[h].old}]
        BY <1>4, <2>2 DEF Lookup
      <3>2. req[h].browser \in Browsers
        BY <1>0, <1>4 DEF Lookup
      <3>3. /\ req[h].old \in shown'[req[h].browser]
            /\ \A b \in Browsers : shown[b] \subseteq shown'[b]
        BY <1>0, <3>1, <3>2
      <3>4. QED
        BY <1>0, <3>1, <3>3 DEF Ready
    <2>3. QED
      BY <2>1, <2>2
  <1>5. ASSUME NEW h \in Handlers, Rehash(h) PROVE Ready'
    BY <1>0, <1>5 DEF Ready, HandlersEarn, Rehash, Write, Hashed
  <1>6. ASSUME NEW h \in Handlers, RehashFails(h) PROVE Ready'
    BY <1>0, <1>6 DEF Ready, HandlersEarn, RehashFails
  <1>7. ASSUME NEW h \in Handlers, UpdateUser(h) PROVE Ready'
    BY <1>0, <1>7 DEF Ready, HandlersEarn, UpdateUser, Write, Hashed
  <1>8. ASSUME NEW h \in Handlers, UpdateFails(h) PROVE Ready'
    BY <1>0, <1>8 DEF Ready, HandlersEarn, UpdateFails
  <1>9. ASSUME NEW h \in Handlers, Reload(h) PROVE Ready'
    BY <1>0, <1>9 DEF Ready, HandlersEarn, Reload
  <1>10. ASSUME NEW h \in Handlers, ReloadFails(h) PROVE Ready'
    BY <1>0, <1>10 DEF Ready, HandlersEarn, ReloadFails
  <1>11. ASSUME NEW h \in Handlers, Issue(h) PROVE Ready'
    BY <1>0, <1>11 DEF Ready, HandlersEarn, Issue
  <1>12. CASE (\E b \in Browsers : Logout(b)) \/ UpdateFirstUser \/ UNCHANGED vars
    BY <1>12 DEF Ready, Logout, UpdateFirstUser, vars
  <1>13. QED
    BY <1>1, <1>2, <1>3, <1>4, <1>5, <1>6, <1>7, <1>8, <1>9, <1>10, <1>11, <1>12
       DEF Next

\* A handler whose row is current now is not on its way any more, if it drops
\* the row it held; the other handlers are where they were.
LEMMA Leaves ==
  ASSUME NEW h \in Handlers, NEW b \in Browsers,
         \A g \in Handlers \ {h} : user'[g] = user[g] /\ req'[g] = req[g],
         row' = row, ~Current(h)', Current(h) => req[h].browser = b
  PROVE  /\ Admitted' \in {Admitted, Admitted \ {b}}
         /\ ~Current(h) => Admitted' = Admitted
PROOF
  <1>1. ASSUME NEW g \in Handlers \ {h} PROVE Current(g)' <=> Current(g)
    BY DEF Current, Fingerprint
  <1>2. \A c \in Browsers \ {b} : c \in Admitted' <=> c \in Admitted
    BY <1>1 DEF Admitted
  <1>3. b \in Admitted' => b \in Admitted
    BY <1>1 DEF Admitted
  <1>4. ~Current(h) => (b \in Admitted => b \in Admitted')
    BY <1>1 DEF Admitted
  <1>5. Admitted \subseteq Browsers /\ Admitted' \subseteq Browsers
    BY DEF Admitted
  <1>6. QED
    BY <1>2, <1>3, <1>4, <1>5

\* A handler that holds the present row admits its browser.
LEMMA Enters ==
  ASSUME NEW h \in Handlers, NEW b \in Browsers,
         \A g \in Handlers \ {h} : user'[g] = user[g] /\ req'[g] = req[g],
         row' = row, Current(h)', req'[h].browser = b, Current(h) => req[h].browser = b
  PROVE  Admitted' = Admitted \cup {b}
PROOF
  <1>1. ASSUME NEW g \in Handlers \ {h} PROVE Current(g)' <=> Current(g)
    BY DEF Current, Fingerprint
  <1>2. \A c \in Browsers \ {b} : c \in Admitted' <=> c \in Admitted
    BY <1>1 DEF Admitted
  <1>3. b \in Admitted'
    BY DEF Admitted
  <1>4. Admitted \subseteq Browsers /\ Admitted' \subseteq Browsers
    BY DEF Admitted
  <1>5. QED
    BY <1>2, <1>3, <1>4

\* What one handler does changes only whether its own browser is changing.
LEMMA Answers ==
  ASSUME NEW h \in Handlers, NEW b \in Browsers,
         \A g \in Handlers \ {h} : pc'[g] = pc[g] /\ req'[g] = req[g],
         pc[h] = "reload" => req[h].browser = b, pc'[h] # "reload"
  PROVE  /\ Changing' \in {Changing, Changing \ {b}}
         /\ pc[h] # "reload" => Changing' = Changing
PROOF
  <1>1. \A c \in Browsers \ {b} : c \in Changing' <=> c \in Changing
    BY DEF Changing
  <1>2. b \in Changing' => b \in Changing
    BY DEF Changing
  <1>3. pc[h] # "reload" => (b \in Changing => b \in Changing')
    BY DEF Changing
  <1>4. Changing \subseteq Browsers /\ Changing' \subseteq Browsers
    BY DEF Changing
  <1>5. QED
    BY <1>1, <1>2, <1>3, <1>4

\* The requests and the handlers' statements that store nothing.
LEMMA PassingSteps ==
  ASSUME IInv, Ready, NEW h \in Handlers,
         \/ SubmitLogin(h) \/ SubmitChange(h) \/ Resolve(h)
         \/ Lookup(h) \/ RehashFails(h) \/ UpdateFails(h)
  PROVE  [Promise!Next]_(Promise!vars)
PROOF
  <1> USE DEF Goto, Return, AfterCheck, account, handler, history, bounds
  <1> USE NothingAssumption
  <1>0. /\ pc \in [Handlers -> {"idle", "resolve", "lookup", "rehash", "update",
                                "reload", "issue"}]
        /\ req \in [Handlers -> Request \cup {Nothing}]
        /\ user \in [Handlers -> User \cup {Nothing}] /\ row \in User
        /\ \A g \in Handlers : pc[g] # "idle" => req[g].browser \in Browsers
    BY RequestTyped DEF IInv, TypeOK
  <1> DEFINE b == req[h].browser
  <1>1. CASE SubmitLogin(h) \/ SubmitChange(h)
    <2>1. /\ UNCHANGED <<row, cookie, user, shown>>
          /\ \A g \in Handlers \ {h} : pc'[g] = pc[g] /\ req'[g] = req[g]
          /\ pc[h] = "idle" /\ pc'[h] # "reload" /\ user[h] = Nothing
      BY <1>0, <1>1 DEF SubmitLogin, SubmitChange, Begin, Ready
    <2>2. Admitted' = Admitted
      BY <2>1 DEF Admitted, Current, Fingerprint
    <2>3. Changing' = Changing
      BY <2>1 DEF Changing
    <2>4. QED
      BY <2>1, <2>2, <2>3 DEF Promise!vars, SignedIn
  <1>2. CASE pc[h] # "idle" /\ pc'[h] # "reload" /\ user[h] = Nothing /\ user' = user
             /\ pc[h] # "reload" /\ UNCHANGED <<row, cookie, shown>>
             /\ \A g \in Handlers \ {h} : pc'[g] = pc[g] /\ req'[g] = req[g]
    <2>1. Admitted' = Admitted
      BY <1>2 DEF Admitted, Current, Fingerprint
    <2>2. Changing' = Changing
      BY <1>2 DEF Changing
    <2>3. QED
      BY <1>2, <2>1, <2>2 DEF Promise!vars, SignedIn
  <1>3. CASE Resolve(h)
    BY <1>0, <1>2, <1>3 DEF Resolve, Ready
  <1>4. CASE Lookup(h) /\ ~Verifies(row, req[h].old)
    BY <1>0, <1>2, <1>4 DEF Lookup, Ready
  <1>5. CASE Lookup(h) /\ Verifies(row, req[h].old)
    <2>1. /\ user' = [user EXCEPT ![h] = row] /\ pc[h] = "lookup"
          /\ \E l \in {"rehash", "issue", "update"} : pc' = [pc EXCEPT ![h] = l]
          /\ shown' = [shown EXCEPT ![b] = @ \cup {req[h].old}]
          /\ UNCHANGED <<row, cookie, req>>
      BY <1>5 DEF Lookup
    <2>2. /\ b \in Browsers /\ req[h].old = [name |-> row.name, pw |-> row.pw]
          /\ user[h] = Nothing
      BY <1>0, <1>5, <2>1, RequestTyped DEF IInv, Verifies, Credentials, Ready
    <2>3. Admitted' = Admitted \cup {b}
      BY <1>0, <2>1, <2>2, Enters DEF Current, Fingerprint
    <2>4. Changing' = Changing
      BY <1>0, <2>1, <2>2, Answers
    <2>5. Promise!Admit(b)
      BY <2>1, <2>2, <2>3, <2>4 DEF Promise!Admit, SignedIn
    <2>6. QED
      BY <2>2, <2>5 DEF Promise!Next
  <1>6. CASE RehashFails(h)
    <2>1. /\ UNCHANGED <<row, cookie, req, user, shown>>
          /\ pc[h] = "rehash" /\ pc'[h] # "reload" /\ b \in Browsers
          /\ \A g \in Handlers \ {h} : pc'[g] = pc[g]
      BY <1>0, <1>6 DEF RehashFails
    <2>2. Admitted' = Admitted
      BY <2>1 DEF Admitted, Current, Fingerprint
    <2>3. Changing' = Changing
      BY <2>1, Answers
    <2>4. QED
      BY <2>1, <2>2, <2>3 DEF Promise!vars, SignedIn
  <1>7. CASE UpdateFails(h)
    <2>1. /\ UNCHANGED <<row, cookie, shown>> /\ user'[h] = Nothing
          /\ pc[h] = "update" /\ pc'[h] = "idle" /\ b \in Browsers
          /\ \A g \in Handlers \ {h} :
                pc'[g] = pc[g] /\ req'[g] = req[g] /\ user'[g] = user[g]
      BY <1>0, <1>7 DEF UpdateFails
    <2>2. Admitted' \in {Admitted, Admitted \ {b}}
      BY <2>1, Leaves DEF Current
    <2>3. Changing' = Changing
      BY <2>1, Answers
    <2>4. Promise!Leave(b)
      BY <2>1, <2>2, <2>3 DEF Promise!Leave, SignedIn
    <2>5. QED
      BY <2>1, <2>4 DEF Promise!Next
  <1>8. QED
    BY <1>1, <1>3, <1>4, <1>5, <1>6, <1>7

\* A new hash is nobody's: no cookie resolves to it, and no handler but the one
\* that stores it holds it.
LEMMA NewHashIsNobodys ==
  ASSUME IInv, cookie' = cookie, row' \in User, row'.salt = salt + 1
  PROVE  /\ SignedIn' = {}
         /\ \A g \in Handlers : user'[g] = user[g] => ~Current(g)'
PROOF
  <1>1. row' # Nothing /\ salt \in Nat
    BY NothingAssumption DEF IInv, TypeOK
  <1>2. ASSUME NEW u \in User \cup {Nothing}, u # Nothing => u.salt <= salt
        PROVE  u # row'
    <2>1. CASE u = Nothing
      BY <1>1, <2>1
    <2>2. CASE u # Nothing
      <3>1. u.salt \in Nat /\ u.salt <= salt
        BY <1>2, <2>2 DEF User
      <3>2. QED
        BY <1>1, <3>1
    <2>3. QED
      BY <2>1, <2>2
  <1>3. \A b \in Browsers : cookie[b] # row'
    BY <1>2 DEF IInv, TypeOK, SaltsDrawn
  <1>4. \A g \in Handlers : user[g] # row'
    BY <1>2 DEF IInv, TypeOK, SaltsDrawn
  <1>5. QED
    BY <1>3, <1>4 DEF SignedIn, Current, Fingerprint

\* The statements that store credentials.
LEMMA StoringSteps ==
  ASSUME IInv, Ready
  PROVE  /\ \A h \in Handlers : Rehash(h) \/ UpdateUser(h) => Promise!Next
         /\ UpdateFirstUser => Promise!Next
PROOF
  <1> USE DEF Goto, Return, AfterCheck, account, handler, history, bounds
  <1>0. /\ pc \in [Handlers -> {"idle", "resolve", "lookup", "rehash", "update",
                                "reload", "issue"}]
        /\ req \in [Handlers -> Request \cup {Nothing}]
        /\ user \in [Handlers -> User \cup {Nothing}] /\ row \in User
        /\ shown \in [Browsers -> SUBSET Credentials]
    BY DEF IInv, TypeOK
  <1>1. ASSUME NEW h \in Handlers, Rehash(h) PROVE Promise!Next
    <2> DEFINE b == req[h].browser
               c == req[h].old
    <2>1. /\ pc[h] = "rehash" /\ c \in Credentials /\ b \in Browsers /\ c \in shown[b]
      BY <1>1, RequestTyped DEF Rehash, IInv, HandlersEarn
    <2>2. /\ row' = [name |-> row.name, pw |-> c.pw, salt |-> salt + 1]
          /\ user' = [user EXCEPT ![h] = Hashed(c)]
          /\ UNCHANGED <<cookie, req, shown>>
          /\ \A g \in Handlers \ {h} : pc'[g] = pc[g]
          /\ pc'[h] # "reload"
      BY <1>0, <1>1 DEF Rehash, Write, Hashed
    <2>3. row' \in User /\ row'.salt = salt + 1
      BY <1>0, <2>1, <2>2 DEF IInv, TypeOK, User, Credentials
    <2>4. SignedIn' = {} /\ \A g \in Handlers \ {h} : ~Current(g)'
      BY <1>0, <2>2, <2>3, NewHashIsNobodys
    <2>5. Admitted' \in {{}, {b}}
      BY <2>1, <2>2, <2>4 DEF Admitted
    <2>6. Changing' = Changing
      BY <2>1, <2>2, Answers
    <2>7. [name |-> row'.name, pw |-> row'.pw]
             = [[name |-> row.name, pw |-> row.pw] EXCEPT !.pw = c.pw]
      BY <2>2
    <2>8. Promise!Upgrade(b)
      BY <2>1, <2>2, <2>4, <2>5, <2>6, <2>7 DEF Promise!Upgrade
    <2>9. QED
      BY <2>1, <2>8 DEF Promise!Next
  <1>2. ASSUME NEW h \in Handlers, UpdateUser(h) PROVE Promise!Next
    <2> DEFINE b == req[h].browser
               c == req[h].new
    <2>1. /\ pc[h] = "update" /\ c \in Credentials /\ b \in Browsers /\ shown[b] # {}
      BY <1>2, RequestTyped DEF UpdateUser, IInv, Ready
    <2>2. /\ row' = Hashed(c) /\ user' = [user EXCEPT ![h] = Hashed(c)]
          /\ shown' = [shown EXCEPT ![b] = @ \cup {c}]
          /\ pc' = [pc EXCEPT ![h] = "reload"]
          /\ UNCHANGED <<cookie, req>>
      BY <1>2 DEF UpdateUser, Write
    <2>3. /\ row' \in User /\ row'.salt = salt + 1 /\ row' # Nothing
          /\ c = [name |-> row'.name, pw |-> row'.pw]
      BY <2>1, <2>2, HashedTyped, NothingAssumption DEF IInv, Credentials
    <2>4. SignedIn' = {} /\ \A g \in Handlers \ {h} : ~Current(g)'
      BY <1>0, <2>2, <2>3, NewHashIsNobodys
    <2>5. Current(h)' /\ req'[h].browser = b
      BY <1>0, <2>2, <2>3 DEF Current
    <2>6. Admitted' = {b}
      BY <2>1, <2>2, <2>4, <2>5 DEF Admitted
    <2>7. Changing' = Changing \cup {b}
      BY <1>0, <2>1, <2>2 DEF Changing
    <2>8. Promise!Change(b, c)
      BY <2>1, <2>2, <2>3, <2>4, <2>6, <2>7 DEF Promise!Change
    <2>9. QED
      BY <2>1, <2>8 DEF Promise!Next, Promise!Credentials, Credentials
  <1>3. ASSUME UpdateFirstUser PROVE Promise!Next
    <2>1. PICK c \in Credentials : row' = Hashed(c)
      BY <1>3 DEF UpdateFirstUser, Write
    <2>2. UNCHANGED <<cookie, pc, req, user, shown>>
      BY <1>3 DEF UpdateFirstUser
    <2>3. /\ row' \in User /\ row'.salt = salt + 1
          /\ c = [name |-> row'.name, pw |-> row'.pw]
      BY <2>1, HashedTyped DEF IInv, Credentials
    <2>4. SignedIn' = {} /\ \A g \in Handlers : ~Current(g)'
      BY <2>2, <2>3, NewHashIsNobodys
    <2>5. Admitted' = {} /\ Changing' = Changing
      BY <2>2, <2>4 DEF Admitted, Changing
    <2>6. Promise!Replace(c)
      BY <2>2, <2>3, <2>4, <2>5 DEF Promise!Replace
    <2>7. QED
      BY <2>6 DEF Promise!Next, Promise!Credentials, Credentials
  <1>4. QED
    BY <1>1, <1>2, <1>3

\* The answers, and the logout.
LEMMA AnsweringSteps ==
  ASSUME IInv, Ready
  PROVE  /\ \A h \in Handlers : Reload(h) \/ ReloadFails(h) \/ Issue(h) => Promise!Next
         /\ \A b \in Browsers : Logout(b) => Promise!Next
PROOF
  <1> USE DEF Goto, Return, AfterCheck, account, handler, history, bounds
  <1> USE NothingAssumption
  <1>0. /\ pc \in [Handlers -> {"idle", "resolve", "lookup", "rehash", "update",
                                "reload", "issue"}]
        /\ req \in [Handlers -> Request \cup {Nothing}]
        /\ user \in [Handlers -> User \cup {Nothing}] /\ row \in User
        /\ cookie \in [Browsers -> User \cup {Nothing}]
    BY DEF IInv, TypeOK
  <1>1. ASSUME NEW h \in Handlers, Reload(h) PROVE Promise!Next
    <2> DEFINE b == req[h].browser
    <2>1. pc[h] = "reload" /\ b \in Browsers
      BY <1>1, RequestTyped DEF Reload, IInv
    <2>2. /\ user' = [user EXCEPT ![h] = row] /\ pc' = [pc EXCEPT ![h] = "issue"]
          /\ UNCHANGED <<row, cookie, req, shown>>
      BY <1>1 DEF Reload
    <2>3. Admitted' = Admitted \cup {b}
      BY <1>0, <2>1, <2>2, Enters DEF Current, Fingerprint
    <2>4. Changing' \in {Changing, Changing \ {b}} /\ b \in Changing
      <3>1. pc'[h] # "reload" /\ \A g \in Handlers \ {h} : pc'[g] = pc[g]
        BY <1>0, <2>2
      <3>2. b \in Changing
        BY <2>1 DEF Changing
      <3>3. QED
        BY <2>1, <2>2, <3>1, <3>2, Answers
    <2>5. Promise!Reload(b)
      BY <2>1, <2>2, <2>3, <2>4 DEF Promise!Reload, SignedIn
    <2>6. QED
      BY <2>1, <2>5 DEF Promise!Next
  <1>2. ASSUME NEW h \in Handlers, ReloadFails(h) PROVE Promise!Next
    <2> DEFINE b == req[h].browser
    <2>1. pc[h] = "reload" /\ b \in Browsers
      BY <1>2, RequestTyped DEF ReloadFails, IInv
    <2>2. /\ UNCHANGED <<row, cookie, shown>> /\ user'[h] = Nothing /\ pc'[h] = "idle"
          /\ \A g \in Handlers \ {h} :
                pc'[g] = pc[g] /\ req'[g] = req[g] /\ user'[g] = user[g]
      BY <1>0, <1>2 DEF ReloadFails
    <2>3. Admitted' \in {Admitted, Admitted \ {b}}
      BY <2>1, <2>2, Leaves DEF Current
    <2>4. Changing' \in {Changing, Changing \ {b}}
      BY <2>1, <2>2, Answers
    <2>5. Promise!Leave(b)
      BY <2>1, <2>2, <2>3, <2>4 DEF Promise!Leave, SignedIn
    <2>6. QED
      BY <2>1, <2>5 DEF Promise!Next
  <1>3. ASSUME NEW h \in Handlers, Issue(h) PROVE Promise!Next
    <2> DEFINE b == req[h].browser
    <2>1. pc[h] = "issue" /\ b \in Browsers /\ user[h] # Nothing
      BY <1>3, RequestTyped DEF Issue, IInv, TypeOK
    <2>2. /\ UNCHANGED <<row, shown>> /\ cookie' = [cookie EXCEPT ![b] = user[h]]
          /\ user'[h] = Nothing /\ pc'[h] = "idle"
          /\ \A g \in Handlers \ {h} :
                pc'[g] = pc[g] /\ req'[g] = req[g] /\ user'[g] = user[g]
      BY <1>0, <1>3 DEF Issue, Fingerprint
    <2>3. /\ Admitted' \in {Admitted, Admitted \ {b}}
          /\ ~Current(h) => Admitted' = Admitted
      BY <2>1, <2>2, Leaves DEF Current
    <2>4. Changing' = Changing
      BY <2>1, <2>2, Answers
    <2>5. CASE user[h] = row
      <3>1. b \in Admitted
        BY <2>1, <2>5 DEF Admitted, Current
      <3>2. SignedIn' = SignedIn \cup {b}
        BY <1>0, <2>1, <2>2, <2>5 DEF SignedIn, Fingerprint
      <3>3. Promise!SignIn(b)
        BY <2>2, <2>3, <2>4, <3>1, <3>2 DEF Promise!SignIn
      <3>4. QED
        BY <2>1, <3>3 DEF Promise!Next
    <2>6. CASE user[h] # row
      <3>1. Admitted' = Admitted
        BY <2>3, <2>6 DEF Current, Fingerprint
      <3>2. SignedIn' = SignedIn \ {b}
        BY <1>0, <2>1, <2>2, <2>6 DEF SignedIn, Fingerprint
      <3>3. Promise!SignOut(b)
        BY <2>2, <2>4, <3>1, <3>2 DEF Promise!SignOut
      <3>4. QED
        BY <2>1, <3>3 DEF Promise!Next
    <2>7. QED
      BY <2>5, <2>6
  <1>4. ASSUME NEW b \in Browsers, Logout(b) PROVE Promise!Next
    <2>1. /\ UNCHANGED <<row, pc, req, user, shown>>
          /\ cookie' = [cookie EXCEPT ![b] = Nothing]
      BY <1>4 DEF Logout
    <2>2. SignedIn' = SignedIn \ {b}
      BY <1>0, <2>1 DEF SignedIn, Fingerprint
    <2>3. Admitted' = Admitted /\ Changing' = Changing
      BY <2>1 DEF Admitted, Changing, Current, Fingerprint
    <2>4. Promise!SignOut(b)
      BY <2>1, <2>2, <2>3 DEF Promise!SignOut
    <2>5. QED
      BY <2>4 DEF Promise!Next
  <1>5. QED
    BY <1>1, <1>2, <1>3, <1>4

\* The handlers implement the account: whichever requests overlap, a change ends
\* all sessions and admissions in one step, and a browser is signed in only by a
\* check of the credentials that hold, or by the answer to its own change.
THEOREM SessionsImplementAccount == Spec => KeepsPromise
PROOF
  <1>1. Init => Ready
    BY DEF Init, Ready
  <1>2. Init => Promise!Init
    <2> SUFFICES ASSUME Init PROVE Promise!Init
      OBVIOUS
    <2>1. row \in User /\ row # Nothing
      BY NothingAssumption DEF Init, User
    <2>2. SignedIn = {} /\ Admitted = {} /\ Changing = {}
      BY <2>1 DEF Init, SignedIn, Admitted, Changing, Current, Fingerprint
    <2>3. [name |-> row.name, pw |-> row.pw] \in Promise!Credentials
      BY <2>1 DEF User, Promise!Credentials
    <2>4. QED
      BY <2>2, <2>3 DEF Init, Promise!Init
  <1>3. IInv /\ Ready /\ [Next]_vars => Ready'
    BY ReadyStep
  <1>4. IInv /\ Ready /\ [Next]_vars => [Promise!Next]_(Promise!vars)
    <2> SUFFICES ASSUME IInv, Ready, [Next]_vars
                 PROVE  [Promise!Next]_(Promise!vars)
      OBVIOUS
    <2>1. CASE UNCHANGED vars
      BY <2>1 DEF vars, account, handler, history, bounds, Promise!vars, SignedIn,
                  Admitted, Changing, Current, Fingerprint
    <2>2. CASE Next
      BY <2>2, PassingSteps, StoringSteps, AnsweringSteps DEF Next
    <2>3. QED
      BY <2>1, <2>2
  <1>5. QED
    BY <1>1, <1>2, <1>3, <1>4, Inductive, PTL DEF Spec, KeepsPromise, Promise!Spec

=============================================================================
