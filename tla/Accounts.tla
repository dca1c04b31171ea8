------------------------------ MODULE Accounts ------------------------------
(***************************************************************************)
(* Users, cookie sessions and setup links (backend/internal/auth).  A      *)
(* handler is a request whose SQL statements are separate steps: between   *)
(* any two of them other requests run, and the request may be lost (the    *)
(* client hangs up, which cancels its context, or the server stops).       *)
(*                                                                         *)
(* Passwords are abstracted to whether one has replaced the one a session  *)
(* was opened with.  The failed-login counters, which are not in the       *)
(* database, are the module Lockout: a login they refuse is no step here.    *)
(***************************************************************************)
EXTENDS Naturals, FiniteSets

CONSTANTS
  User,      \* user ids; AUTOINCREMENT never hands one out twice
  Root,      \* the account SeedAdmin creates
  Session,   \* session rows
  Invite,    \* invite rows
  Request    \* slots for handlers running at the same time

ASSUME RootIsUser == Root \in User

VARIABLES user, sess, inv, req

vars == <<user, sess, inv, req>>

\* `lapsed': a timed lock of an older version whose time is over, not yet cleared.
Lock == {"none", "lapsed", "admin"}
Account == [row: {"never", "yes", "deleted"}, admin: BOOLEAN, usable: BOOLEAN, lock: Lock]

\* History in `age': `old' once the password has been replaced or the account
\* locked since the login; `excused' when a login overtaken by such a change
\* created it, or when the request that had to revoke it was lost.
Age == {"none", "current", "old", "excused", "expired"}

\* History in an invite: `crossed' when another link for the user was made
\* between this one's purge and its insertion; `spent' when it has set a
\* password; `lost' when, on top, the request that had to delete it was lost.
LinkState == {"unused", "live", "crossed", "spent", "lost", "expired", "gone"}
Usable == {"live", "crossed", "spent", "lost"}

Step == {"idle", "user", "heal", "admitted", "clear", "session", "pwSet", "resetUnlock",
         "revoke", "purge", "insert", "undo", "setupSet", "setupUnlock", "consume"}

\* The locals of a handler.  `overtaken' is history: for a login, the password
\* or lock has changed since it read the row; for a request an administrator
\* was let in with, the account has been locked or deleted since; for a new
\* link, see `crossed'.
Handler == [at: Step, user: User, sess: Session \cup {"none"}, inv: Invite \cup {"none"},
            admin: BOOLEAN, right: BOOLEAN, fresh: BOOLEAN, seen: Lock, overtaken: BOOLEAN]

NoSession == [user |-> Root, age |-> "none"]
NoHandler == [at |-> "idle", user |-> Root, sess |-> "none", inv |-> "none", admin |-> FALSE,
              right |-> FALSE, fresh |-> FALSE, seen |-> "none", overtaken |-> FALSE]

TypeOK ==
  /\ user \in [User -> Account]
  /\ sess \in [Session -> [user: User, age: Age]]
  /\ inv \in [Invite -> [user: User, state: LinkState]]
  /\ req \in [Request -> Handler]
  /\ \A s \in Session : sess[s].age # "none" => user[sess[s].user].row = "yes"
  /\ \A i \in Invite : inv[i].state \in Usable \cup {"expired"} => user[inv[i].user].row = "yes"

NewUser(adm, usable) == [row |-> "yes", admin |-> adm, usable |-> usable, lock |-> "none"]
Absent(row) == [row |-> row, admin |-> FALSE, usable |-> FALSE, lock |-> "none"]

\* The server has started: SeedAdmin has made the first account.  Accounts of
\* an older version may carry a lock whose time is over.
Init ==
  /\ user \in [User -> Account]
  /\ user[Root] \in {NewUser(TRUE, TRUE), [NewUser(TRUE, TRUE) EXCEPT !.lock = "lapsed"]}
  /\ \A u \in User \ {Root} :
       user[u] \in {Absent("never")}
                   \cup {[NewUser(adm, TRUE) EXCEPT !.lock = "lapsed"] : adm \in BOOLEAN}
  /\ sess = [s \in Session |-> NoSession]
  /\ inv = [i \in Invite |-> [user |-> Root, state |-> "unused"]]
  /\ req = [r \in Request |-> NoHandler]

-----------------------------------------------------------------------------
(* The statements of repository.go.                                        *)

HasRow(u) == user[u].row = "yes"

InsertUser(u, adm, usable) == user' = [user EXCEPT ![u] = NewUser(adm, usable)]

\* Faulty variant: the links of a deleted user stay.
DeleteUserRow_NoCascade(u) ==
  /\ user' = [user EXCEPT ![u] = IF HasRow(u) THEN Absent("deleted") ELSE @]
  /\ sess' = [s \in Session |-> IF sess[s].user = u THEN NoSession ELSE sess[s]]
  /\ inv' = inv

\* Sessions and invites go with the user (ON DELETE CASCADE).
DeleteUserRow(u) ==
  /\ user' = [user EXCEPT ![u] = IF HasRow(u) THEN Absent("deleted") ELSE @]
  /\ sess' = [s \in Session |-> IF sess[s].user = u THEN NoSession ELSE sess[s]]
  /\ inv' = [i \in Invite |-> IF inv[i].user = u /\ inv[i].state # "unused"
                                THEN [user |-> Root, state |-> "gone"] ELSE inv[i]]

SetPassword(u) == user' = [user EXCEPT ![u].usable = TRUE]
LockRow(u)     == user' = [user EXCEPT ![u].lock = "admin"]
Unlock(u)      == user' = [user EXCEPT ![u].lock = "none"]

\* The row the token hash finds, and its lapse.
FindInvite(i)   == inv[i].state \in Usable \cup {"expired"}
DeleteInvite(i) == inv' = [inv EXCEPT ![i] = [user |-> Root, state |-> "gone"]]

DeleteInvitesOf(u) ==
  inv' = [i \in Invite |-> IF inv[i].user = u /\ FindInvite(i)
                             THEN [user |-> Root, state |-> "gone"] ELSE inv[i]]

InsertInvite(i, u, overtaken) ==
  inv' = [inv EXCEPT ![i] = [user |-> u, state |-> IF overtaken THEN "crossed" ELSE "live"]]

InsertSession(s, u, overtaken) ==
  sess' = [sess EXCEPT ![s] = [user |-> u, age |-> IF overtaken THEN "excused" ELSE "current"]]

DeleteSession(s) == sess' = [sess EXCEPT ![s] = NoSession]

\* RevokeUserSessions.
RevokeSessionsOf(u) ==
  sess' = [s \in Session |-> IF sess[s].user = u THEN NoSession ELSE sess[s]]

-----------------------------------------------------------------------------
(* Requests.                                                               *)

At(r, a) == req[r].at = a
Go(r, a) == [req EXCEPT ![r].at = a]
Ended(r) == [req EXCEPT ![r] = NoHandler]
Finish(r) == req' = Ended(r)
Begin(r, h) == At(r, "idle") /\ req' = [req EXCEPT ![r] = h]

\* A handler of u that still has its sessions to revoke.
Owes(r, u) == req[r].user = u /\ req[r].at \in {"resetUnlock", "setupUnlock", "consume", "revoke"}

\* History: the credential or the lock of u changes while `next' are the
\* requests: its sessions are old from here, its logins on the way overtaken.
Cut(u, next) ==
  /\ sess' = [s \in Session |->
       IF sess[s].user = u /\ sess[s].age = "current" THEN [sess[s] EXCEPT !.age = "old"]
                                                      ELSE sess[s]]
  /\ req' = [q \in Request |->
       IF next[q].user = u /\ next[q].at \in {"clear", "session"}
         THEN [next[q] EXCEPT !.overtaken = TRUE] ELSE next[q]]

\* History: what u was let in for as an administrator is overtaken from here.
Withdrawn(u, next) ==
  [q \in Request |->
     IF next[q].user = u /\ next[q].at = "admitted" /\ next[q].admin
       THEN [next[q] EXCEPT !.overtaken = TRUE] ELSE next[q]]

-----------------------------------------------------------------------------
(* Login: the row, the lapsed lock, the session.                           *)

\* Faulty variant: any lock the row carries is taken for a lapsed one.
LoginFind_AnyLock(r, u, right) ==
  /\ HasRow(u)
  /\ right => user[u].usable
  /\ user[u].lock # "none" \/ right
  /\ Begin(r, [NoHandler EXCEPT !.at = IF user[u].lock = "none" THEN "session" ELSE "clear",
                                !.user = u, !.right = right, !.seen = user[u].lock])
  /\ UNCHANGED <<user, sess, inv>>

\* FindByUsername and, on the row it read, the password.  A wrong password or a
\* lock in force is answered here and changes nothing.
LoginFind(r, u, right) ==
  /\ HasRow(u)
  /\ right => user[u].usable
  /\ user[u].lock = "lapsed" \/ (user[u].lock = "none" /\ right)
  /\ Begin(r, [NoHandler EXCEPT !.at = IF user[u].lock = "none" THEN "session" ELSE "clear",
                                !.user = u, !.right = right, !.seen = user[u].lock])
  /\ UNCHANGED <<user, sess, inv>>

\* The lapsed lock it read is cleared, whatever the row holds by now.
LoginClear(r) ==
  /\ At(r, "clear")
  /\ IF HasRow(req[r].user)
       THEN Unlock(req[r].user) /\ IF req[r].right THEN req' = Go(r, "session") ELSE Finish(r)
       ELSE Finish(r) /\ UNCHANGED user
  /\ UNCHANGED <<sess, inv>>

\* A session id is random: it is no id an open request still holds.
FreeSession(s) == sess[s].age = "none" /\ \A r \in Request : req[r].sess # s

LoginSession(r, s) ==
  /\ At(r, "session")
  /\ IF HasRow(req[r].user)
       THEN FreeSession(s) /\ InsertSession(s, req[r].user, req[r].overtaken)
       ELSE UNCHANGED sess
  /\ Finish(r)
  /\ UNCHANGED <<user, inv>>

-----------------------------------------------------------------------------
(* RequireAuth with a cookie: the session, then its user.                  *)

ValidateSession(r, s) ==
  /\ sess[s].age # "none"
  /\ IF sess[s].age = "expired"
       THEN At(r, "idle") /\ DeleteSession(s) /\ UNCHANGED req
       ELSE /\ Begin(r, [NoHandler EXCEPT !.at = "user", !.user = sess[s].user, !.sess = s])
            /\ UNCHANGED sess
  /\ UNCHANGED <<user, inv>>

\* Faulty variant: the lock of the row is not looked at.
ValidateUser_Locked(r) ==
  /\ At(r, "user")
  /\ LET u == req[r].user IN
     IF ~HasRow(u) THEN Finish(r)
     ELSE req' = [req EXCEPT ![r].at = "admitted", ![r].admin = user[u].admin]
  /\ UNCHANGED <<user, sess, inv>>

\* The user as read here is the one the handler works with to its end.
ValidateUser(r) ==
  /\ At(r, "user")
  /\ LET u == req[r].user IN
     IF ~HasRow(u) THEN Finish(r)
     ELSE req' = [req EXCEPT ![r].at = IF user[u].lock = "admin" THEN "heal" ELSE "admitted",
                             ![r].admin = user[u].admin]
  /\ UNCHANGED <<user, sess, inv>>

ValidateHeal(r) ==
  /\ At(r, "heal")
  /\ DeleteSession(req[r].sess)
  /\ Finish(r)
  /\ UNCHANGED <<user, inv>>

Logout(r) ==
  /\ At(r, "admitted")
  /\ DeleteSession(req[r].sess)
  /\ Finish(r)
  /\ UNCHANGED <<user, inv>>

\* ChangePassword: FindByID, SetPassword, RevokeUserSessions.
ChangePassword(r) ==
  /\ At(r, "admitted")
  /\ req' = IF HasRow(req[r].user)
               THEN [req EXCEPT ![r] = [NoHandler EXCEPT !.at = "pwSet", !.user = req[r].user]]
               ELSE Ended(r)
  /\ UNCHANGED <<user, sess, inv>>

ChangePasswordSet(r) ==
  /\ At(r, "pwSet")
  /\ IF HasRow(req[r].user)
       THEN SetPassword(req[r].user) /\ Cut(req[r].user, Go(r, "revoke"))
       ELSE Finish(r) /\ UNCHANGED <<user, sess>>
  /\ UNCHANGED inv

\* The last statement of every change of credential or lock.
RevokeUserSessions(r) ==
  /\ At(r, "revoke")
  /\ RevokeSessionsOf(req[r].user)
  /\ Finish(r)
  /\ UNCHANGED <<user, inv>>

-----------------------------------------------------------------------------
(* The administrator's handlers.                                           *)

\* RequireAdmin looks at the user RequireAuth read.
Admin(r) == At(r, "admitted") /\ req[r].admin

CreateUser(r, u, adm) ==
  /\ Admin(r)
  /\ user[u].row = "never"
  /\ InsertUser(u, adm, TRUE)
  /\ Finish(r)
  /\ UNCHANGED <<sess, inv>>

\* The row with an unusable password, then CreateInvite.
InviteUser(r, u, adm) ==
  /\ Admin(r)
  /\ user[u].row = "never"
  /\ InsertUser(u, adm, FALSE)
  /\ req' = [req EXCEPT ![r] = [NoHandler EXCEPT !.at = "purge", !.user = u, !.fresh = TRUE]]
  /\ UNCHANGED <<sess, inv>>

RegenerateInvite(r, u) ==
  /\ Admin(r)
  /\ HasRow(u)
  /\ req' = [req EXCEPT ![r] = [NoHandler EXCEPT !.at = "purge", !.user = u]]
  /\ UNCHANGED <<user, sess, inv>>

\* Faulty variant: the old links stay.
CreateInvite_NoPurge(r) ==
  /\ At(r, "purge")
  /\ req' = Go(r, "insert")
  /\ UNCHANGED <<user, sess, inv>>

\* CreateInvite: the old links go, the new one comes.
CreateInvite(r) ==
  /\ At(r, "purge")
  /\ DeleteInvitesOf(req[r].user)
  /\ req' = Go(r, "insert")
  /\ UNCHANGED <<user, sess>>

CreateInviteInsert(r, i) ==
  LET u == req[r].user IN
  /\ At(r, "insert")
  /\ HasRow(u)
  /\ inv[i].state = "unused"
  /\ InsertInvite(i, u, req[r].overtaken)
  /\ req' = [q \in Request |->
       IF q = r THEN NoHandler
       ELSE IF At(q, "insert") /\ req[q].user = u THEN [req[q] EXCEPT !.overtaken = TRUE]
       ELSE req[q]]
  /\ UNCHANGED <<user, sess>>

\* The insertion fails: always without the user's row, or on a database error.
\* InviteUser then takes back the user it made.
CreateInviteFails(r) ==
  /\ At(r, "insert")
  /\ req' = IF req[r].fresh THEN Go(r, "undo") ELSE Ended(r)
  /\ UNCHANGED <<user, sess, inv>>

InviteUndo(r) ==
  /\ At(r, "undo")
  /\ DeleteUserRow(req[r].user)
  /\ req' = Withdrawn(req[r].user, Ended(r))

\* Faulty variant: the locked user stays signed in.
LockUser_Keep(r, u) ==
  /\ Admin(r)
  /\ u # req[r].user
  /\ HasRow(u)
  /\ LockRow(u)
  /\ Cut(u, Withdrawn(u, Ended(r)))
  /\ UNCHANGED inv

LockUser(r, u) ==
  /\ Admin(r)
  /\ u # req[r].user
  /\ HasRow(u)
  /\ LockRow(u)
  /\ Cut(u, Withdrawn(u, [req EXCEPT ![r] = [NoHandler EXCEPT !.at = "revoke", !.user = u]]))
  /\ UNCHANGED inv

UnlockUser(r, u) ==
  /\ Admin(r)
  /\ HasRow(u)
  /\ Unlock(u)
  /\ Finish(r)
  /\ UNCHANGED <<sess, inv>>

DeleteUser(r, u) ==
  /\ Admin(r)
  /\ u # req[r].user
  /\ DeleteUserRow(u)
  /\ req' = Withdrawn(u, Ended(r))

\* SetPassword, Unlock, RevokeUserSessions.
SetUserPassword(r, u) ==
  /\ Admin(r)
  /\ HasRow(u)
  /\ SetPassword(u)
  /\ Cut(u, [req EXCEPT ![r] = [NoHandler EXCEPT !.at = "resetUnlock", !.user = u]])
  /\ UNCHANGED inv

SetUserPasswordUnlock(r) ==
  /\ At(r, "resetUnlock")
  /\ IF HasRow(req[r].user) THEN Unlock(req[r].user) ELSE UNCHANGED user
  /\ req' = Go(r, "revoke")
  /\ UNCHANGED <<sess, inv>>

-----------------------------------------------------------------------------
(* CompleteSetup: the invite, SetPassword, Unlock, the invite's deletion,  *)
(* RevokeUserSessions.                                                     *)

SetupFind(r, i) ==
  /\ FindInvite(i)
  /\ IF inv[i].state = "expired"
       THEN At(r, "idle") /\ DeleteInvite(i) /\ UNCHANGED req
       ELSE /\ Begin(r, [NoHandler EXCEPT !.at = "setupSet", !.user = inv[i].user, !.inv = i])
            /\ UNCHANGED inv
  /\ UNCHANGED <<user, sess>>

SetupSet(r) ==
  LET u == req[r].user  i == req[r].inv IN
  /\ At(r, "setupSet")
  /\ IF HasRow(u)
       THEN /\ SetPassword(u)
            /\ Cut(u, Go(r, "setupUnlock"))
            /\ inv' = IF inv[i].state \in Usable THEN [inv EXCEPT ![i].state = "spent"] ELSE inv
       ELSE Finish(r) /\ UNCHANGED <<user, sess, inv>>

SetupUnlock(r) ==
  /\ At(r, "setupUnlock")
  /\ IF HasRow(req[r].user) THEN Unlock(req[r].user) ELSE UNCHANGED user
  /\ req' = Go(r, "consume")
  /\ UNCHANGED <<sess, inv>>

\* Faulty variant: the link is consumed only if nobody replaced it meanwhile.
SetupConsume_Skip(r) ==
  /\ At(r, "consume")
  /\ req' = [req EXCEPT ![r].at = "revoke", ![r].inv = "none"]
  /\ UNCHANGED <<user, sess, inv>>

SetupConsume(r) ==
  /\ At(r, "consume")
  /\ DeleteInvite(req[r].inv)
  /\ req' = [req EXCEPT ![r].at = "revoke", ![r].inv = "none"]
  /\ UNCHANGED <<user, sess>>

-----------------------------------------------------------------------------
(* Time, the daily job, and the loss of a request.                         *)

SessionExpires(s) ==
  /\ sess[s].age \notin {"none", "expired"}
  /\ sess' = [sess EXCEPT ![s].age = "expired"]
  /\ UNCHANGED <<user, inv, req>>

InviteExpires(i) ==
  /\ inv[i].state \in Usable
  /\ inv' = [inv EXCEPT ![i].state = "expired"]
  /\ UNCHANGED <<user, sess, req>>

DeleteExpired ==
  /\ \E s \in Session : sess[s].age = "expired"
  /\ sess' = [s \in Session |-> IF sess[s].age = "expired" THEN NoSession ELSE sess[s]]
  /\ UNCHANGED <<user, inv, req>>

\* The statements the request still had to run do not run.
RequestLost(r) ==
  /\ ~At(r, "idle")
  /\ Finish(r)
  /\ sess' = [s \in Session |->
       IF sess[s].age = "old" /\ ~\E q \in Request \ {r} : Owes(q, sess[s].user)
         THEN [sess[s] EXCEPT !.age = "excused"] ELSE sess[s]]
  /\ inv' = [i \in Invite |->
       IF inv[i].state = "spent" /\ ~\E q \in Request \ {r} :
            req[q].inv = i /\ req[q].at \in {"setupUnlock", "consume"}
         THEN [inv[i] EXCEPT !.state = "lost"] ELSE inv[i]]
  /\ UNCHANGED user

-----------------------------------------------------------------------------

AuthNext(r) ==
  \/ \E u \in User, right \in BOOLEAN : LoginFind(r, u, right)
  \/ LoginClear(r)
  \/ \E s \in Session : LoginSession(r, s) \/ ValidateSession(r, s)
  \/ ValidateUser(r) \/ ValidateHeal(r) \/ Logout(r)
  \/ ChangePassword(r) \/ ChangePasswordSet(r) \/ RevokeUserSessions(r)

AdminNext(r) ==
  \/ \E u \in User :
       \/ \E adm \in BOOLEAN : CreateUser(r, u, adm) \/ InviteUser(r, u, adm)
       \/ RegenerateInvite(r, u)
       \/ LockUser(r, u) \/ UnlockUser(r, u) \/ DeleteUser(r, u) \/ SetUserPassword(r, u)
  \/ SetUserPasswordUnlock(r)
  \/ CreateInvite(r) \/ CreateInviteFails(r) \/ InviteUndo(r)
  \/ \E i \in Invite : CreateInviteInsert(r, i)

SetupNext(r) ==
  \/ \E i \in Invite : SetupFind(r, i)
  \/ SetupSet(r) \/ SetupUnlock(r) \/ SetupConsume(r)

Next ==
  \/ \E r \in Request : AuthNext(r) \/ AdminNext(r) \/ SetupNext(r) \/ RequestLost(r)
  \/ \E s \in Session : SessionExpires(s)
  \/ \E i \in Invite : InviteExpires(i)
  \/ DeleteExpired

Spec == Init /\ [][Next]_vars

-----------------------------------------------------------------------------
(* Properties.                                                             *)

\* A session opened before its owner's password was replaced, or before the
\* account was locked, exists only while the request that did it still has to
\* revoke it (service.go:432, admin_handler.go:377, :424), unless that request
\* was lost or the login that opened it was itself overtaken by the change.
OldSessionsAreRevoked ==
  \A s \in Session : sess[s].age = "old" => \E r \in Request : Owes(r, sess[s].user)

\* Of several links for one user at most one was made undisturbed: a second
\* valid link means two regenerations crossed (service.go:311-320).
OneLiveLink ==
  \A i, j \in Invite :
    inv[i].state = "live" /\ inv[j].state = "live" /\ inv[i].user = inv[j].user => i = j

\* A link that has set a password is valid only while the request it served
\* still has to delete it, unless that request was lost (service.go:353-361).
SpentLinksAreConsumed ==
  \A i \in Invite : inv[i].state = "spent" =>
    \E r \in Request : req[r].inv = i /\ req[r].at \in {"setupUnlock", "consume"}

\* An administrator's lock leaves an account only by an administrator's unlock
\* or reset or a setup link, or by a login that read, before the lock, an older
\* one that had lapsed (service.go:230-235); no other login lifts it.
AdminLockHolds ==
  [][\A u \in User :
       user[u].lock = "admin" /\ user'[u].lock = "none" /\ user'[u].row = "yes" =>
         \E r \in Request :
           \/ Admin(r)
           \/ req[r].user = u /\ At(r, "clear") /\ req[r].seen = "lapsed"
           \/ req[r].user = u /\ req[r].at \in {"resetUnlock", "setupUnlock"}]_vars

\* An account that can administer the others: what RequireAdmin asks for.
CanAdminister(u) == user[u].row = "yes" /\ user[u].admin /\ user[u].lock # "admin"

\* The last account that can administer is lost only to a request whose own
\* caller was locked or deleted after it was let in: two administrators can
\* remove each other at the same time, but neither alone
\* (admin_handler.go:408, :548), nor one of them by a session that has outlived
\* the lock (service.go:284).  The other way is an invitation taken back
\* (:175) after its user was given a password and locked everybody else.
LastAdminStays ==
  [][(\E u \in User : CanAdminister(u)) /\ ~(\E u \in User : CanAdminister(u)') =>
       \E r \in Request :
         \/ Admin(r) /\ req[r].overtaken /\ ~CanAdminister(req[r].user)
         \/ At(r, "undo")]_vars
=============================================================================
