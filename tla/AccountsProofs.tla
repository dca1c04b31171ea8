--------------------------- MODULE AccountsProofs ---------------------------
(***************************************************************************)
(* Theorems about Accounts for every set of users, sessions, links and     *)
(* requests.  The invariants of the module are inductive once two things   *)
(* are said of the requests on their way: one that is about to insert a    *)
(* link, undisturbed, has left its user none, and one that is about to     *)
(* clear a lock has read a lapsed one.                                     *)
(* That administration is only lost by administrators at work together     *)
(* takes a second invariant, of the requests that were let in for them.    *)
(***************************************************************************)
EXTENDS Accounts, TLAPS

SessionRow == [user: User, age: Age]
InviteRow  == [user: User, state: LinkState]
GoneLink   == [user |-> Root, state |-> "gone"]

\* The steps after which a request still has sessions to revoke, or its link to
\* delete.
Owing     == {"resetUnlock", "setupUnlock", "consume", "revoke"}
Consuming == {"setupUnlock", "consume"}
Consumes(r, i) == req[r].inv = i /\ req[r].at \in Consuming

NoLiveLink(u, links) ==
  \A i \in Invite : ~(links[i].state = "live" /\ links[i].user = u)

\* Two records of a request that differ in history at most, and not in that of a
\* link about to be inserted.
Alike(g, f) == /\ g.at = f.at /\ g.user = f.user /\ g.inv = f.inv /\ g.seen = f.seen
               /\ f.at = "insert" => g = f

LinkInv == \A r \in Request :
  req[r].at = "insert" /\ ~req[r].overtaken => NoLiveLink(req[r].user, inv)
LapsedInv == \A r \in Request : req[r].at = "clear" => req[r].seen = "lapsed"

IInv == /\ TypeOK /\ OldSessionsAreRevoked /\ OneLiveLink /\ SpentLinksAreConsumed
        /\ LinkInv /\ LapsedInv

-----------------------------------------------------------------------------
LEMMA NoHandlerIsHandler == NoHandler \in Handler /\ NoHandler.at = "idle"
  BY RootIsUser DEF NoHandler, Handler, Step, Lock

LEMMA NoSessionIsRow == NoSession \in SessionRow /\ NoSession.age = "none"
  BY RootIsUser DEF NoSession, SessionRow, Age

LEMMA GoneLinkIsRow == GoneLink \in InviteRow /\ GoneLink.state = "gone"
  BY RootIsUser DEF GoneLink, InviteRow, LinkState, Usable

LEMMA NewUserIsAccount ==
  ASSUME NEW a \in BOOLEAN, NEW b \in BOOLEAN
  PROVE  NewUser(a, b) \in Account /\ NewUser(a, b).row = "yes" /\ NewUser(a, b).lock = "none"
  BY DEF NewUser, Account, Lock

LEMMA AbsentIsAccount ==
  ASSUME NEW w \in {"never", "deleted"}
  PROVE  Absent(w) \in Account /\ Absent(w).row = w
  BY DEF Absent, Account, Lock

LEMMA InitIInv == Init => IInv
<1> SUFFICES ASSUME Init PROVE IInv
  OBVIOUS
<1>1. /\ user \in [User -> Account] /\ sess = [s \in Session |-> NoSession]
      /\ inv = [i \in Invite |-> [user |-> Root, state |-> "unused"]]
      /\ req = [r \in Request |-> NoHandler]
  BY DEF Init
<1>2. [user |-> Root, state |-> "unused"] \in [user: User, state: LinkState]
  BY RootIsUser DEF LinkState
<1>3. TypeOK
  BY <1>1, <1>2, NoSessionIsRow, NoHandlerIsHandler DEF TypeOK, SessionRow, Usable
<1> QED
  BY <1>1, <1>3, NoSessionIsRow, NoHandlerIsHandler
  DEF IInv, OldSessionsAreRevoked, OneLiveLink, SpentLinksAreConsumed, LinkInv, LapsedInv

\* A request's next step: its own record changes, users change without losing
\* the row that a session or link needs, and no session becomes old, no link
\* spent or live.  What the request owes it passes on, if no other owes it.  Of
\* the history of the other requests nothing is said.
LEMMA KeepAlike ==
  ASSUME IInv, NEW r \in Request, NEW h \in Handler, req' \in [Request -> Handler],
         Alike(req'[r], h), \A q \in Request \ {r} : Alike(req'[q], req[q]),
         user' \in [User -> Account], sess' \in [Session -> SessionRow],
         inv' \in [Invite -> InviteRow],
         \A s \in Session : sess'[s].age = "old" => sess'[s] = sess[s],
         \A i \in Invite : inv'[i].state \in {"live", "spent"} => inv'[i] = inv[i],
         \A s \in Session : sess'[s].age # "none" => user'[sess'[s].user].row = "yes",
         \A i \in Invite : inv'[i].state \in Usable \cup {"expired"}
                             => user'[inv'[i].user].row = "yes",
         \A s \in Session : sess'[s].age = "old" /\ Owes(r, sess[s].user) =>
            \/ h.at \in Owing /\ h.user = req[r].user
            \/ \E q \in Request \ {r} : Owes(q, sess[s].user),
         \A i \in Invite : inv'[i].state = "spent" /\ Consumes(r, i) =>
            \/ h.at \in Consuming /\ h.inv = req[r].inv
            \/ \E q \in Request \ {r} : Consumes(q, i),
         h.at = "insert" /\ ~h.overtaken => NoLiveLink(h.user, inv'),
         h.at = "clear" => h.seen = "lapsed"
  PROVE  IInv'
<1>1. req'[r].at = h.at /\ req'[r].user = h.user /\ req'[r].inv = h.inv
  BY DEF Alike
<1>2. \A q \in Request \ {r} : Alike(req'[q], req[q])
  OBVIOUS
<1>3. TypeOK'
  BY DEF TypeOK, SessionRow, InviteRow
<1>4. OldSessionsAreRevoked'
  <2> SUFFICES ASSUME NEW s \in Session, sess'[s].age = "old"
               PROVE  \E q \in Request : req'[q].user = sess'[s].user /\ req'[q].at \in Owing
    BY DEF OldSessionsAreRevoked, Owes, Owing
  <2>1. PICK q \in Request : Owes(q, sess[s].user)
    BY DEF IInv, OldSessionsAreRevoked
  <2>2. CASE q = r /\ h.at \in Owing /\ h.user = req[r].user
    BY <1>1, <2>1, <2>2 DEF Owes, Owing
  <2>3. CASE \E p \in Request \ {r} : Owes(p, sess[s].user)
    BY <1>2, <2>3 DEF Owes, Owing, Alike
  <2> QED
    BY <2>1, <2>2, <2>3
<1>5. SpentLinksAreConsumed'
  <2> SUFFICES ASSUME NEW i \in Invite, inv'[i].state = "spent"
               PROVE  \E q \in Request : req'[q].inv = i /\ req'[q].at \in Consuming
    BY DEF SpentLinksAreConsumed, Consuming
  <2>1. PICK q \in Request : Consumes(q, i)
    BY DEF IInv, SpentLinksAreConsumed, Consumes, Consuming
  <2>2. CASE q = r /\ h.at \in Consuming /\ h.inv = req[r].inv
    BY <1>1, <2>1, <2>2 DEF Consumes
  <2>3. CASE \E p \in Request \ {r} : Consumes(p, i)
    BY <1>2, <2>3 DEF Consumes, Alike
  <2> QED
    BY <2>1, <2>2, <2>3
<1>6. OneLiveLink' /\ LinkInv' /\ LapsedInv'
  <2>1. OneLiveLink'
    BY DEF IInv, OneLiveLink
  <2>2. LinkInv'
    BY DEF IInv, LinkInv, NoLiveLink, Alike
  <2>3. LapsedInv'
    BY DEF IInv, LapsedInv, Alike
  <2> QED
    BY <2>1, <2>2, <2>3
<1> QED
  BY <1>3, <1>4, <1>5, <1>6 DEF IInv

LEMMA KeepRequest ==
  ASSUME IInv, NEW r \in Request, NEW h \in Handler, req' = [req EXCEPT ![r] = h],
         user' \in [User -> Account], sess' \in [Session -> SessionRow],
         inv' \in [Invite -> InviteRow],
         \A s \in Session : sess'[s].age = "old" => sess'[s] = sess[s],
         \A i \in Invite : inv'[i].state \in {"live", "spent"} => inv'[i] = inv[i],
         \A s \in Session : sess'[s].age # "none" => user'[sess'[s].user].row = "yes",
         \A i \in Invite : inv'[i].state \in Usable \cup {"expired"}
                             => user'[inv'[i].user].row = "yes",
         \A s \in Session : sess'[s].age = "old" /\ Owes(r, sess[s].user) =>
            \/ h.at \in Owing /\ h.user = req[r].user
            \/ \E q \in Request \ {r} : Owes(q, sess[s].user),
         \A i \in Invite : inv'[i].state = "spent" /\ Consumes(r, i) =>
            \/ h.at \in Consuming /\ h.inv = req[r].inv
            \/ \E q \in Request \ {r} : Consumes(q, i),
         h.at = "insert" /\ ~h.overtaken => NoLiveLink(h.user, inv'),
         h.at = "clear" => h.seen = "lapsed"
  PROVE  IInv'
<1>1. req' \in [Request -> Handler] /\ \A q \in Request : req'[q] = IF q = r THEN h ELSE req[q]
  BY DEF IInv, TypeOK
<1>2. Alike(req'[r], h) /\ \A q \in Request \ {r} : Alike(req'[q], req[q])
  BY <1>1 DEF Alike
<1> QED
  BY <1>1, <1>2, KeepAlike

\* A step that no request takes.
LEMMA KeepTables ==
  ASSUME IInv, UNCHANGED <<user, req>>, sess' \in [Session -> SessionRow],
         inv' \in [Invite -> InviteRow],
         \A s \in Session : sess'[s].age = "old" => sess'[s] = sess[s],
         \A i \in Invite : inv'[i].state \in {"live", "spent"} => inv'[i] = inv[i],
         \A s \in Session : sess'[s].age # "none" => user[sess'[s].user].row = "yes",
         \A i \in Invite : inv'[i].state \in Usable \cup {"expired"}
                             => user[inv'[i].user].row = "yes"
  PROVE  IInv'
<1>1. TypeOK'
  BY DEF IInv, TypeOK, SessionRow, InviteRow
<1>2. OldSessionsAreRevoked' /\ SpentLinksAreConsumed'
  BY DEF IInv, OldSessionsAreRevoked, SpentLinksAreConsumed, Owes
<1>3. OneLiveLink' /\ LinkInv' /\ LapsedInv'
  BY DEF IInv, OneLiveLink, LinkInv, LapsedInv, NoLiveLink
<1> QED
  BY <1>1, <1>2, <1>3 DEF IInv

\* The same for a request that owes nothing, changes no table but its own record
\* and goes on to anything but an insertion.
LEMMA KeepReading ==
  ASSUME IInv, UNCHANGED <<user, sess, inv>>, NEW r \in Request, NEW h \in Handler,
         req' = [req EXCEPT ![r] = h], req[r].at \notin Owing,
         h.at # "insert", h.at = "clear" => h.seen = "lapsed"
  PROVE  IInv'
<1>1. (\A u : ~Owes(r, u)) /\ (\A i : ~Consumes(r, i))
  BY DEF Owes, Owing, Consumes, Consuming
<1> QED
  BY <1>1, KeepRequest DEF IInv, TypeOK, SessionRow, InviteRow

\* A request whose next step is called a.
LEMMA GoesOn ==
  ASSUME IInv, NEW r \in Request, NEW a \in Step
  PROVE  LET h == [req[r] EXCEPT !.at = a] IN
         /\ h \in Handler /\ Go(r, a) = [req EXCEPT ![r] = h]
         /\ h.at = a /\ h.user = req[r].user /\ h.inv = req[r].inv
         /\ h.overtaken = req[r].overtaken /\ h.seen = req[r].seen
<1>1. req[r] \in Handler
  BY DEF IInv, TypeOK
<1> QED
  BY <1>1 DEF Handler, Go

\* A new request, or an administrator's one that works on another user from now on.
LEMMA NewHandler ==
  ASSUME NEW a \in Step, NEW u \in User
  PROVE  LET h == [NoHandler EXCEPT !.at = a, !.user = u] IN
         h \in Handler /\ h.at = a /\ h.user = u /\ ~h.overtaken
  BY NoHandlerIsHandler DEF Handler, NoHandler

\* Users keep their rows.
LEMMA RowsAreKept ==
  ASSUME IInv, user' \in [User -> Account],
         \A u \in User : user[u].row = "yes" => user'[u].row = "yes"
  PROVE  /\ \A s \in Session : sess[s].age # "none" => user'[sess[s].user].row = "yes"
         /\ \A i \in Invite : inv[i].state \in Usable \cup {"expired"}
                                => user'[inv[i].user].row = "yes"
  BY DEF IInv, TypeOK

\* SetPassword, Unlock and LockRow on the row of u.
LEMMA UserWith ==
  ASSUME IInv, NEW u \in User, SetPassword(u) \/ Unlock(u) \/ LockRow(u)
  PROVE  /\ user' \in [User -> Account]
         /\ \A w \in User : user'[w].row = user[w].row /\ user'[w].admin = user[w].admin
         /\ \A w \in User \ {u} : user'[w] = user[w]
<1>1. user[u] \in Account /\ user \in [User -> Account]
  BY DEF IInv, TypeOK
<1>2. CASE SetPassword(u)
  <2> DEFINE a == [user[u] EXCEPT !.usable = TRUE]
  <2>1. a \in Account /\ a.row = user[u].row /\ a.admin = user[u].admin
    BY <1>1 DEF Account
  <2>2. user' = [user EXCEPT ![u] = a]
    BY <1>2 DEF SetPassword
  <2> HIDE DEF a
  <2> QED
    BY <1>1, <2>1, <2>2
<1>3. CASE Unlock(u)
  <2> DEFINE a == [user[u] EXCEPT !.lock = "none"]
  <2>1. a \in Account /\ a.row = user[u].row /\ a.admin = user[u].admin
    BY <1>1 DEF Account, Lock
  <2>2. user' = [user EXCEPT ![u] = a]
    BY <1>3 DEF Unlock
  <2> HIDE DEF a
  <2> QED
    BY <1>1, <2>1, <2>2
<1>4. CASE LockRow(u)
  <2> DEFINE a == [user[u] EXCEPT !.lock = "admin"]
  <2>1. a \in Account /\ a.row = user[u].row /\ a.admin = user[u].admin
    BY <1>1 DEF Account, Lock
  <2>2. user' = [user EXCEPT ![u] = a]
    BY <1>4 DEF LockRow
  <2> HIDE DEF a
  <2> QED
    BY <1>1, <2>1, <2>2
<1> QED
  BY <1>2, <1>3, <1>4

-----------------------------------------------------------------------------
(* Statements that revoke or delete.                                       *)

\* The owner of a user's row takes sessions and links along when it goes.
LEMMA RowsGoTogether ==
  ASSUME IInv, NEW u \in User, DeleteUserRow(u)
  PROVE  /\ user' \in [User -> Account] /\ sess' \in [Session -> SessionRow]
         /\ inv' \in [Invite -> InviteRow]
         /\ \A s \in Session : sess'[s] \in {sess[s], NoSession}
         /\ \A i \in Invite : inv'[i] \in {inv[i], GoneLink}
         /\ \A w \in User \ {u} : user'[w] = user[w]
         /\ \A s \in Session : sess'[s].age # "none" => user'[sess'[s].user].row = "yes"
         /\ \A i \in Invite : inv'[i].state \in Usable \cup {"expired"}
                                => user'[inv'[i].user].row = "yes"
<1> DEFINE a == IF HasRow(u) THEN Absent("deleted") ELSE user[u]
<1>1. user \in [User -> Account] /\ sess \in [Session -> SessionRow] /\ inv \in [Invite -> InviteRow]
  BY DEF IInv, TypeOK, SessionRow, InviteRow
<1>2. a \in Account
  BY <1>1, AbsentIsAccount
<1>3. /\ user' = [user EXCEPT ![u] = a]
      /\ sess' = [s \in Session |-> IF sess[s].user = u THEN NoSession ELSE sess[s]]
      /\ inv' = [i \in Invite |-> IF inv[i].user = u /\ inv[i].state # "unused"
                                    THEN GoneLink ELSE inv[i]]
  BY DEF DeleteUserRow, GoneLink
<1> HIDE DEF a
<1>4. /\ user' \in [User -> Account] /\ sess' \in [Session -> SessionRow]
      /\ inv' \in [Invite -> InviteRow]
      /\ \A s \in Session : sess'[s] \in {sess[s], NoSession}
      /\ \A i \in Invite : inv'[i] \in {inv[i], GoneLink}
      /\ \A w \in User \ {u} : user'[w] = user[w]
  BY <1>1, <1>2, <1>3, NoSessionIsRow, GoneLinkIsRow
<1>5. \A s \in Session : sess'[s].age # "none" => user'[sess'[s].user].row = "yes"
  BY <1>1, <1>3, <1>4, NoSessionIsRow DEF IInv, TypeOK, SessionRow
<1>6. \A i \in Invite : inv'[i].state \in Usable \cup {"expired"}
                          => user'[inv'[i].user].row = "yes"
  BY <1>1, <1>3, <1>4, GoneLinkIsRow DEF IInv, TypeOK, InviteRow, Usable
<1> QED
  BY <1>4, <1>5, <1>6

\* A step of a request that owes nothing, in which sessions and links go away and
\* users keep what these need.
LEMMA KeepRemoving ==
  ASSUME IInv, NEW r \in Request, NEW h \in Handler, req' = [req EXCEPT ![r] = h],
         req[r].at \notin Owing, h.at \notin {"insert", "clear"},
         user' \in [User -> Account], sess' \in [Session -> SessionRow],
         inv' \in [Invite -> InviteRow],
         \A s \in Session : sess'[s] \in {sess[s], NoSession},
         \A i \in Invite : inv'[i] \in {inv[i], GoneLink},
         \A s \in Session : sess'[s].age # "none" => user'[sess'[s].user].row = "yes",
         \A i \in Invite : inv'[i].state \in Usable \cup {"expired"}
                             => user'[inv'[i].user].row = "yes"
  PROVE  IInv'
<1>1. (\A u : ~Owes(r, u)) /\ (\A i : ~Consumes(r, i))
  BY DEF Owes, Owing, Consumes, Consuming
<1>2. /\ \A s \in Session : sess'[s].age = "old" => sess'[s] = sess[s]
      /\ \A i \in Invite : inv'[i].state \in {"live", "spent"} => inv'[i] = inv[i]
  BY NoSessionIsRow, GoneLinkIsRow
<1> QED
  BY <1>1, <1>2, KeepRequest

\* The same when users keep their rows and nothing goes away.
LEMMA KeepUsers ==
  ASSUME IInv, NEW r \in Request, NEW h \in Handler, req' = [req EXCEPT ![r] = h],
         req[r].at \notin Owing, h.at \notin {"insert", "clear"},
         user' \in [User -> Account],
         \A u \in User : user[u].row = "yes" => user'[u].row = "yes",
         UNCHANGED <<sess, inv>>
  PROVE  IInv'
  BY KeepRemoving, RowsAreKept DEF IInv, TypeOK, SessionRow, InviteRow

-----------------------------------------------------------------------------
(* Login and the check of a session.                                       *)

LEMMA KeepLoginFind ==
  ASSUME IInv, NEW r \in Request, NEW u \in User, NEW right \in BOOLEAN, LoginFind(r, u, right)
  PROVE  IInv'
<1> DEFINE h == [NoHandler EXCEPT !.at = IF user[u].lock = "none" THEN "session" ELSE "clear",
                                  !.user = u, !.right = right, !.seen = user[u].lock]
<1>1. user[u].lock \in Lock
  BY DEF IInv, TypeOK, Account
<1>2. h \in Handler /\ h.at \in {"session", "clear"} /\ h.seen = user[u].lock
      /\ h.at = IF user[u].lock = "none" THEN "session" ELSE "clear"
  BY <1>1, NoHandlerIsHandler DEF Handler, Step, NoHandler
<1>3. /\ req' = [req EXCEPT ![r] = h] /\ req[r].at = "idle" /\ UNCHANGED <<user, sess, inv>>
      /\ user[u].lock \in {"lapsed", "none"}
  BY DEF LoginFind, Begin, At
<1> HIDE DEF h
<1>4. h.at = "clear" => h.seen = "lapsed"
  BY <1>2, <1>3
<1> QED
  BY <1>2, <1>3, <1>4, KeepReading DEF Owing

LEMMA KeepLoginClear == ASSUME IInv, NEW r \in Request, LoginClear(r) PROVE IInv'
<1> DEFINE h == [req[r] EXCEPT !.at = "session"]
<1>1. h \in Handler /\ h.at = "session" /\ Go(r, "session") = [req EXCEPT ![r] = h]
  BY GoesOn, ZenonT(30) DEF Step
<1> HIDE DEF h
<1>2. \E g \in {h, NoHandler} : req' = [req EXCEPT ![r] = g]
  BY <1>1 DEF LoginClear, Finish, Ended
<1>3. req[r].at = "clear" /\ UNCHANGED <<sess, inv>> /\ req[r].user \in User
      /\ (UNCHANGED user \/ Unlock(req[r].user))
  BY DEF LoginClear, At, IInv, TypeOK, Handler
<1>4. user' \in [User -> Account] /\ \A u \in User : user'[u].row = user[u].row
  BY <1>3, UserWith DEF IInv, TypeOK
<1> QED
  BY <1>1, <1>2, <1>3, <1>4, KeepUsers, NoHandlerIsHandler, ZenonT(60) DEF Owing

LEMMA KeepLoginSession ==
  ASSUME IInv, NEW r \in Request, NEW s \in Session, LoginSession(r, s) PROVE IInv'
<1> DEFINE u == req[r].user
           n == [user |-> u, age |-> IF req[r].overtaken THEN "excused" ELSE "current"]
<1>1. req[r].at = "session" /\ UNCHANGED <<user, inv>> /\ req' = [req EXCEPT ![r] = NoHandler]
      /\ u \in User
  BY DEF LoginSession, At, Finish, Ended, IInv, TypeOK, Handler
<1>2. n \in SessionRow /\ n.age # "old" /\ n.user = u
  BY <1>1 DEF SessionRow, Age
<1>3. \/ UNCHANGED sess
      \/ user[u].row = "yes" /\ sess' = [sess EXCEPT ![s] = n]
  BY DEF LoginSession, HasRow, InsertSession
<1> HIDE DEF n, u
<1>4. /\ sess' \in [Session -> SessionRow]
      /\ \A x \in Session : sess'[x].age = "old" => sess'[x] = sess[x]
      /\ \A x \in Session : sess'[x].age # "none" => user[sess'[x].user].row = "yes"
  BY <1>2, <1>3 DEF IInv, TypeOK, SessionRow
<1>5. (\A w : ~Owes(r, w)) /\ (\A i : ~Consumes(r, i))
  BY <1>1 DEF Owes, Consumes, Consuming
<1> QED
  BY <1>1, <1>4, <1>5, KeepRequest, NoHandlerIsHandler DEF IInv, TypeOK, InviteRow

LEMMA KeepValidateSession ==
  ASSUME IInv, NEW r \in Request, NEW s \in Session, ValidateSession(r, s) PROVE IInv'
<1>1. req[r].at = "idle" /\ UNCHANGED <<user, inv>>
  BY DEF ValidateSession, Begin, At
<1>2. CASE UNCHANGED req /\ sess' = [sess EXCEPT ![s] = NoSession]
  BY <1>1, <1>2, KeepTables, NoSessionIsRow DEF IInv, TypeOK, SessionRow, InviteRow
<1>3. CASE UNCHANGED sess /\ req' = [req EXCEPT ![r] =
             [NoHandler EXCEPT !.at = "user", !.user = sess[s].user, !.sess = s]]
  <2> DEFINE h == [NoHandler EXCEPT !.at = "user", !.user = sess[s].user, !.sess = s]
  <2>1. sess[s].user \in User
    BY DEF IInv, TypeOK
  <2>2. h \in Handler /\ h.at = "user"
    BY <2>1, NoHandlerIsHandler DEF Handler, Step
  <2> QED
    BY <1>1, <1>3, <2>2, KeepReading DEF Owing
<1> QED
  BY <1>2, <1>3 DEF ValidateSession, DeleteSession, Begin

LEMMA KeepValidateUser == ASSUME IInv, NEW r \in Request, ValidateUser(r) PROVE IInv'
<1> DEFINE u == req[r].user
           h == [req[r] EXCEPT !.at = IF user[u].lock = "admin" THEN "heal" ELSE "admitted",
                               !.admin = user[u].admin]
<1>1. req[r] \in Handler /\ user[u].admin \in BOOLEAN
  BY DEF IInv, TypeOK, Handler, Account
<1>2. h \in Handler /\ h.at \in {"heal", "admitted"}
  BY <1>1 DEF Handler, Step
<1>3. req[r].at = "user" /\ UNCHANGED <<user, sess, inv>>
      /\ \E g \in {h, NoHandler} : req' = [req EXCEPT ![r] = g]
  BY DEF ValidateUser, At, Finish, Ended, IInv, TypeOK
<1> QED
  BY <1>2, <1>3, KeepReading, NoHandlerIsHandler DEF Owing

LEMMA KeepSignedOut ==
  ASSUME IInv, NEW r \in Request, ValidateHeal(r) \/ Logout(r) PROVE IInv'
<1>1. req[r].at \notin Owing /\ UNCHANGED <<user, inv>> /\ req' = [req EXCEPT ![r] = NoHandler]
      /\ sess' = [sess EXCEPT ![req[r].sess] = NoSession]
  BY DEF ValidateHeal, Logout, At, Finish, Ended, Owing, DeleteSession
<1>2. /\ sess' \in [Session -> SessionRow]
      /\ \A s \in Session : sess'[s] \in {sess[s], NoSession}
  BY <1>1, NoSessionIsRow DEF IInv, TypeOK, SessionRow
<1> QED
  BY <1>1, <1>2, KeepRemoving, NoHandlerIsHandler, NoSessionIsRow
  DEF IInv, TypeOK, SessionRow, InviteRow

LEMMA KeepChangePassword == ASSUME IInv, NEW r \in Request, ChangePassword(r) PROVE IInv'
<1> DEFINE h == [NoHandler EXCEPT !.at = "pwSet", !.user = req[r].user]
<1>1. h \in Handler /\ h.at = "pwSet"
  <2>1. req[r].user \in User /\ "pwSet" \in Step
    BY DEF Step, IInv, TypeOK, Handler
  <2> QED
    BY <2>1, NewHandler
<1> HIDE DEF h
<1>2. req[r].at = "admitted" /\ UNCHANGED <<user, sess, inv>>
      /\ \E g \in {h, NoHandler} : req' = [req EXCEPT ![r] = g]
  BY DEF ChangePassword, At, Ended, h
<1> QED
  BY <1>1, <1>2, KeepReading, NoHandlerIsHandler DEF Owing

LEMMA KeepRevoke == ASSUME IInv, NEW r \in Request, RevokeUserSessions(r) PROVE IInv'
<1> DEFINE u == req[r].user
<1>1. /\ req[r].at = "revoke" /\ UNCHANGED <<user, inv>> /\ req' = [req EXCEPT ![r] = NoHandler]
      /\ sess' = [s \in Session |-> IF sess[s].user = u THEN NoSession ELSE sess[s]]
  BY DEF RevokeUserSessions, At, Finish, Ended, RevokeSessionsOf
<1>2. /\ sess' \in [Session -> SessionRow]
      /\ \A s \in Session : sess'[s] \in {sess[s], NoSession}
      /\ \A s \in Session : sess'[s].age # "none" => sess[s].user # u /\ sess'[s] = sess[s]
  BY <1>1, NoSessionIsRow DEF IInv, TypeOK, SessionRow
<1>3. \A s \in Session : sess'[s].age = "old" => sess'[s] = sess[s] /\ ~Owes(r, sess[s].user)
  BY <1>2 DEF Owes
<1>4. \A s \in Session : sess'[s].age # "none" => user[sess'[s].user].row = "yes"
  BY <1>2 DEF IInv, TypeOK
<1>5. \A i : ~Consumes(r, i)
  BY <1>1 DEF Consumes, Consuming
<1> QED
  BY <1>1, <1>2, <1>3, <1>4, <1>5, KeepRequest, NoHandlerIsHandler
  DEF IInv, TypeOK, InviteRow

-----------------------------------------------------------------------------
(* A change of a password or a lock, which makes sessions old.             *)

\* The request that makes the change goes on as h, and owes the revocation.
LEMMA KeepCut ==
  ASSUME IInv, NEW r \in Request, NEW u \in User, NEW h \in Handler,
         NEW next \in [Request -> Handler], Cut(u, next), req[r].at \notin Owing,
         Alike(next[r], h), \A q \in Request \ {r} : Alike(next[q], req[q]),
         h.at \in Owing, h.user = u,
         user' \in [User -> Account],
         \A w \in User : user[w].row = "yes" => user'[w].row = "yes",
         inv' \in [Invite -> InviteRow],
         \A i \in Invite : \/ inv'[i] = inv[i]
                           \/ /\ inv'[i] = [inv[i] EXCEPT !.state = "spent"]
                              /\ inv[i].state \in Usable
                              /\ h.at \in Consuming /\ h.inv = i
  PROVE  IInv'
<1> DEFINE Seen(g) == IF g.user = u /\ g.at \in {"clear", "session"}
                        THEN [g EXCEPT !.overtaken = TRUE] ELSE g
<1>1. /\ req \in [Request -> Handler] /\ sess \in [Session -> SessionRow]
      /\ inv \in [Invite -> InviteRow]
  BY DEF IInv, TypeOK, SessionRow, InviteRow
<1>2. Alike(next[r], h) /\ \A q \in Request \ {r} : Alike(next[q], req[q])
  OBVIOUS
<1>3. req' = [q \in Request |-> Seen(next[q])]
  BY DEF Cut
<1>4. \A g \in Handler : /\ Seen(g) \in Handler /\ Seen(g).at = g.at /\ Seen(g).user = g.user
                         /\ Seen(g).inv = g.inv /\ Seen(g).seen = g.seen
                         /\ g.at = "insert" => Seen(g) = g
  BY ZenonT(60) DEF Handler
<1> HIDE DEF Seen
<1>5. /\ req' \in [Request -> Handler]
      /\ req'[r].at = h.at /\ req'[r].user = u /\ req'[r].inv = h.inv
      /\ \A q \in Request \ {r} :
           /\ req'[q].at = req[q].at /\ req'[q].user = req[q].user /\ req'[q].inv = req[q].inv
           /\ req'[q].seen = req[q].seen
           /\ req[q].at = "insert" => req'[q] = req[q]
  BY <1>1, <1>2, <1>3, <1>4 DEF Alike
<1>6. sess' = [s \in Session |->
         IF sess[s].user = u /\ sess[s].age = "current" THEN [sess[s] EXCEPT !.age = "old"]
                                                        ELSE sess[s]]
  BY DEF Cut
<1>7. /\ sess' \in [Session -> SessionRow]
      /\ \A s \in Session : /\ sess'[s].user = sess[s].user
                            /\ sess'[s].age # "none" => sess[s].age # "none"
                            /\ sess'[s].age = "old" => sess[s].age = "old" \/ sess[s].user = u
  BY <1>1, <1>6 DEF SessionRow, Age
<1>8. \A i \in Invite :
        /\ inv'[i].user = inv[i].user
        /\ inv'[i].state \in Usable \cup {"expired"} => inv[i].state \in Usable \cup {"expired"}
        /\ inv'[i].state = "live" => inv'[i] = inv[i]
        /\ inv'[i].state = "spent" =>
             inv[i].state = "spent" \/ (h.at \in Consuming /\ h.inv = i)
  BY <1>1 DEF InviteRow
<1>9. TypeOK'
  <2>1. \A s \in Session : sess'[s].age # "none" => user'[sess'[s].user].row = "yes"
    BY <1>7, RowsAreKept DEF IInv, TypeOK
  <2>2. \A i \in Invite : inv'[i].state \in Usable \cup {"expired"}
                            => user'[inv'[i].user].row = "yes"
    BY <1>8, RowsAreKept
  <2> QED
    BY <1>5, <1>7, <2>1, <2>2 DEF TypeOK, SessionRow, InviteRow
<1>10. OldSessionsAreRevoked'
  <2> SUFFICES ASSUME NEW s \in Session, sess'[s].age = "old"
               PROVE  \E q \in Request : req'[q].user = sess'[s].user /\ req'[q].at \in Owing
    BY DEF OldSessionsAreRevoked, Owes, Owing
  <2>1. CASE sess[s].user = u
    BY <1>5, <1>7, <2>1
  <2>2. CASE sess[s].age = "old"
    <3>1. PICK q \in Request : req[q].user = sess[s].user /\ req[q].at \in Owing
      BY <2>2 DEF IInv, OldSessionsAreRevoked, Owes, Owing
    <3> QED
      BY <1>5, <1>7, <3>1
  <2> QED
    BY <1>7, <2>1, <2>2
<1>11. SpentLinksAreConsumed'
  <2> SUFFICES ASSUME NEW i \in Invite, inv'[i].state = "spent"
               PROVE  \E q \in Request : req'[q].inv = i /\ req'[q].at \in Consuming
    BY DEF SpentLinksAreConsumed, Consuming
  <2>1. CASE h.at \in Consuming /\ h.inv = i
    BY <1>5, <2>1
  <2>2. CASE inv[i].state = "spent"
    <3>1. PICK q \in Request : req[q].inv = i /\ req[q].at \in Consuming
      BY <2>2 DEF IInv, SpentLinksAreConsumed, Consuming
    <3> QED
      BY <1>5, <3>1 DEF Owing, Consuming
  <2> QED
    BY <1>8, <2>1, <2>2
<1>12. OneLiveLink' /\ LinkInv' /\ LapsedInv'
  <2>1. OneLiveLink'
    BY <1>8 DEF IInv, OneLiveLink
  <2>2. LinkInv' /\ LapsedInv'
    BY <1>5, <1>8 DEF IInv, LinkInv, LapsedInv, NoLiveLink, Owing
  <2> QED
    BY <2>1, <2>2
<1> QED
  BY <1>9, <1>10, <1>11, <1>12 DEF IInv

\* The same when the request's own record is all that is new in `next'.
LEMMA KeepCutAlone ==
  ASSUME IInv, NEW r \in Request, NEW u \in User, NEW h \in Handler,
         Cut(u, [req EXCEPT ![r] = h]), req[r].at \notin Owing,
         h.at \in Owing, h.user = u,
         user' \in [User -> Account],
         \A w \in User : user[w].row = "yes" => user'[w].row = "yes",
         inv' \in [Invite -> InviteRow],
         \A i \in Invite : \/ inv'[i] = inv[i]
                           \/ /\ inv'[i] = [inv[i] EXCEPT !.state = "spent"]
                              /\ inv[i].state \in Usable
                              /\ h.at \in Consuming /\ h.inv = i
  PROVE  IInv'
<1> DEFINE next == [req EXCEPT ![r] = h]
<1>1. next \in [Request -> Handler] /\ \A q \in Request : next[q] = IF q = r THEN h ELSE req[q]
  BY DEF IInv, TypeOK
<1>2. Cut(u, next)
  OBVIOUS
<1> HIDE DEF next
<1>3. Alike(next[r], h) /\ \A q \in Request \ {r} : Alike(next[q], req[q])
  BY <1>1 DEF Alike
<1> QED
  BY <1>1, <1>2, <1>3, KeepCut

\* A record whose history says that it is overtaken.
LEMMA Overtaken ==
  ASSUME NEW g \in Handler
  PROVE  LET n == [g EXCEPT !.overtaken = TRUE] IN
         /\ n \in Handler /\ n.at = g.at /\ n.user = g.user /\ n.inv = g.inv /\ n.seen = g.seen
         /\ n.admin = g.admin /\ n.overtaken
  BY DEF Handler

\* What Withdrawn changes is history.
LEMMA WithdrawnIsAlike ==
  ASSUME NEW u \in User, NEW mid \in [Request -> Handler]
  PROVE  LET next == Withdrawn(u, mid) IN
         /\ next \in [Request -> Handler]
         /\ \A q \in Request : /\ Alike(next[q], mid[q]) /\ next[q].admin = mid[q].admin
                               /\ mid[q].overtaken => next[q].overtaken
                               /\ next[q].at = "admitted" /\ next[q].admin /\ next[q].user = u
                                    => next[q].overtaken
<1> DEFINE Marks(g) == g.user = u /\ g.at = "admitted" /\ g.admin
           n(g) == [g EXCEPT !.overtaken = TRUE]
           next == Withdrawn(u, mid)
<1>1. next = [q \in Request |-> IF Marks(mid[q]) THEN n(mid[q]) ELSE mid[q]]
  BY DEF Withdrawn
<1>2. \A g \in Handler : /\ n(g) \in Handler /\ n(g).admin = g.admin /\ n(g).overtaken
                         /\ Marks(g) => Alike(n(g), g)
  BY Overtaken DEF Alike
<1>3. \A g \in Handler : Alike(g, g)
  BY DEF Alike
<1>4. \A g, f \in Handler : Alike(g, f) /\ g.admin = f.admin => (Marks(g) <=> Marks(f))
  BY DEF Alike
<1> HIDE DEF n, Marks, next
<1>5. next \in [Request -> Handler]
  BY <1>1, <1>2
<1>6. ASSUME NEW q \in Request
      PROVE  /\ Alike(next[q], mid[q]) /\ next[q].admin = mid[q].admin
             /\ mid[q].overtaken => next[q].overtaken
             /\ Marks(next[q]) => next[q].overtaken
  <2>1. mid[q] \in Handler
    OBVIOUS
  <2>2. CASE Marks(mid[q])
    BY <1>1, <1>2, <2>1, <2>2
  <2>3. CASE ~Marks(mid[q])
    BY <1>1, <1>3, <2>1, <2>3
  <2> QED
    BY <2>2, <2>3
<1> QED
  BY <1>5, <1>6 DEF Marks, next

LEMMA KeepPasswordChanged == ASSUME IInv, NEW r \in Request, ChangePasswordSet(r) PROVE IInv'
<1> DEFINE h == [req[r] EXCEPT !.at = "revoke"]
           u == req[r].user
<1>1. h \in Handler /\ h.at = "revoke" /\ h.user = u /\ Go(r, "revoke") = [req EXCEPT ![r] = h]
  BY GoesOn, ZenonT(30) DEF Step
<1> HIDE DEF h
<1>2. req[r].at = "pwSet" /\ UNCHANGED inv /\ u \in User
  BY DEF ChangePasswordSet, At, IInv, TypeOK, Handler
<1>3. CASE SetPassword(u) /\ Cut(u, [req EXCEPT ![r] = h])
  BY <1>1, <1>2, <1>3, KeepCutAlone, UserWith DEF IInv, TypeOK, InviteRow, Owing
<1>4. CASE UNCHANGED <<user, sess>> /\ req' = [req EXCEPT ![r] = NoHandler]
  BY <1>2, <1>4, KeepReading, NoHandlerIsHandler DEF Owing
<1> QED
  BY <1>1, <1>3, <1>4 DEF ChangePasswordSet, Finish, Ended

LEMMA KeepLockUser ==
  ASSUME IInv, NEW r \in Request, NEW u \in User, LockUser(r, u) PROVE IInv'
<1> DEFINE h == [NoHandler EXCEPT !.at = "revoke", !.user = u]
<1>1. h \in Handler /\ h.at = "revoke" /\ h.user = u
  BY NoHandlerIsHandler DEF Handler, NoHandler, Step
<1> DEFINE mid  == [req EXCEPT ![r] = h]
           next == Withdrawn(u, mid)
<1>2. req[r].at = "admitted" /\ UNCHANGED inv /\ LockRow(u) /\ Cut(u, next)
  BY DEF LockUser, Admin, At
<1> HIDE DEF h
<1>3. mid \in [Request -> Handler] /\ mid[r] = h /\ \A q \in Request \ {r} : mid[q] = req[q]
  BY <1>1 DEF IInv, TypeOK
<1> HIDE DEF mid
<1>4. /\ next \in [Request -> Handler]
      /\ Alike(next[r], h) /\ \A q \in Request \ {r} : Alike(next[q], req[q])
  <2>1. /\ next \in [Request -> Handler]
        /\ \A q \in Request : Alike(next[q], mid[q])
    BY <1>3, WithdrawnIsAlike
  <2>2. Alike(next[r], h)
    BY <1>3, <2>1
  <2>3. \A q \in Request \ {r} : Alike(next[q], req[q])
    BY <1>3, <2>1
  <2> QED
    BY <2>1, <2>2, <2>3
<1> HIDE DEF next
<1> QED
  BY <1>1, <1>2, <1>4, KeepCut, UserWith DEF IInv, TypeOK, InviteRow, Owing

LEMMA KeepSetUserPassword ==
  ASSUME IInv, NEW r \in Request, NEW u \in User, SetUserPassword(r, u) PROVE IInv'
<1> DEFINE h == [NoHandler EXCEPT !.at = "resetUnlock", !.user = u]
<1>1. h \in Handler /\ h.at = "resetUnlock" /\ h.user = u
  BY NoHandlerIsHandler DEF Handler, NoHandler, Step
<1>2. req[r].at = "admitted" /\ UNCHANGED inv /\ SetPassword(u) /\ Cut(u, [req EXCEPT ![r] = h])
  BY DEF SetUserPassword, Admin, At
<1> HIDE DEF h
<1> QED
  BY <1>1, <1>2, KeepCutAlone, UserWith DEF IInv, TypeOK, InviteRow, Owing

LEMMA KeepSetupSet == ASSUME IInv, NEW r \in Request, SetupSet(r) PROVE IInv'
<1> DEFINE u == req[r].user
           i == req[r].inv
           h == [req[r] EXCEPT !.at = "setupUnlock"]
<1>1. h \in Handler /\ h.at = "setupUnlock" /\ h.user = u /\ h.inv = i
      /\ Go(r, "setupUnlock") = [req EXCEPT ![r] = h]
  BY GoesOn, ZenonT(30) DEF Step
<1> HIDE DEF h
<1>2. req[r].at = "setupSet" /\ u \in User
  BY DEF SetupSet, At, IInv, TypeOK, Handler
<1>3. CASE /\ SetPassword(u) /\ Cut(u, [req EXCEPT ![r] = h])
           /\ inv' = IF inv[i].state \in Usable THEN [inv EXCEPT ![i].state = "spent"] ELSE inv
  <2>1. inv' \in [Invite -> InviteRow]
    BY <1>3 DEF IInv, TypeOK, InviteRow, LinkState, Usable
  <2>2. \A j \in Invite : \/ inv'[j] = inv[j]
                          \/ /\ inv'[j] = [inv[j] EXCEPT !.state = "spent"]
                             /\ inv[j].state \in Usable
                             /\ h.at \in Consuming /\ h.inv = j
    BY <1>1, <1>3 DEF IInv, TypeOK, Consuming
  <2> QED
    BY <1>1, <1>2, <1>3, <2>1, <2>2, KeepCutAlone, UserWith, ZenonT(60) DEF Owing
<1>4. CASE UNCHANGED <<user, sess, inv>> /\ req' = [req EXCEPT ![r] = NoHandler]
  BY <1>2, <1>4, KeepReading, NoHandlerIsHandler DEF Owing
<1> QED
  BY <1>1, <1>3, <1>4 DEF SetupSet, Finish, Ended

-----------------------------------------------------------------------------
(* The administrator's other handlers.                                     *)

LEMMA KeepCreateUser ==
  ASSUME IInv, NEW r \in Request, NEW u \in User, NEW adm \in BOOLEAN, CreateUser(r, u, adm)
  PROVE  IInv'
<1> DEFINE a == NewUser(adm, TRUE)
<1>1. a \in Account /\ a.row = "yes"
  BY NewUserIsAccount
<1>2. /\ req[r].at = "admitted" /\ user' = [user EXCEPT ![u] = a]
      /\ req' = [req EXCEPT ![r] = NoHandler] /\ UNCHANGED <<sess, inv>>
  BY DEF CreateUser, Admin, At, InsertUser, Finish, Ended
<1> HIDE DEF a
<1> QED
  BY <1>1, <1>2, KeepUsers, NoHandlerIsHandler DEF IInv, TypeOK, Owing

LEMMA KeepInviteUser ==
  ASSUME IInv, NEW r \in Request, NEW u \in User, NEW adm \in BOOLEAN, InviteUser(r, u, adm)
  PROVE  IInv'
<1> DEFINE a == NewUser(adm, FALSE)
           h == [NoHandler EXCEPT !.at = "purge", !.user = u, !.fresh = TRUE]
<1>1. a \in Account /\ a.row = "yes"
  BY NewUserIsAccount
<1>2. h \in Handler /\ h.at = "purge"
  BY NoHandlerIsHandler DEF Handler, NoHandler, Step
<1>3. /\ req[r].at = "admitted" /\ user' = [user EXCEPT ![u] = a]
      /\ req' = [req EXCEPT ![r] = h] /\ UNCHANGED <<sess, inv>>
  BY DEF InviteUser, Admin, At, InsertUser
<1> HIDE DEF a, h
<1> QED
  BY <1>1, <1>2, <1>3, KeepUsers DEF IInv, TypeOK, Owing

LEMMA KeepRegenerateInvite ==
  ASSUME IInv, NEW r \in Request, NEW u \in User, RegenerateInvite(r, u) PROVE IInv'
<1> DEFINE h == [NoHandler EXCEPT !.at = "purge", !.user = u]
<1>1. h \in Handler /\ h.at = "purge"
  BY NoHandlerIsHandler DEF Handler, NoHandler, Step
<1>2. req[r].at = "admitted" /\ req' = [req EXCEPT ![r] = h] /\ UNCHANGED <<user, sess, inv>>
  BY DEF RegenerateInvite, Admin, At
<1> HIDE DEF h
<1> QED
  BY <1>1, <1>2, KeepReading DEF Owing

\* The purge leaves the user no link: what the insertion needs.
LEMMA KeepCreateInvite == ASSUME IInv, NEW r \in Request, CreateInvite(r) PROVE IInv'
<1> DEFINE h == [req[r] EXCEPT !.at = "insert"]
           u == req[r].user
<1>1. h \in Handler /\ h.at = "insert" /\ h.user = u /\ Go(r, "insert") = [req EXCEPT ![r] = h]
  BY GoesOn, ZenonT(30) DEF Step
<1> HIDE DEF h
<1>2. /\ req[r].at = "purge" /\ UNCHANGED <<user, sess>> /\ req' = [req EXCEPT ![r] = h]
      /\ inv' = [i \in Invite |-> IF inv[i].user = u /\ FindInvite(i) THEN GoneLink ELSE inv[i]]
  BY <1>1 DEF CreateInvite, At, DeleteInvitesOf, GoneLink
<1>3. /\ inv' \in [Invite -> InviteRow]
      /\ \A i \in Invite : inv'[i].state # "gone" =>
           inv'[i] = inv[i] /\ ~(inv[i].user = u /\ FindInvite(i))
  BY <1>2, GoneLinkIsRow DEF IInv, TypeOK, InviteRow
<1>4. NoLiveLink(h.user, inv')
  BY <1>1, <1>3 DEF NoLiveLink, FindInvite, Usable
<1>5. /\ \A i \in Invite : inv'[i].state \in {"live", "spent"} => inv'[i] = inv[i]
      /\ \A i \in Invite : inv'[i].state \in Usable \cup {"expired"}
                             => user[inv'[i].user].row = "yes"
  BY <1>3 DEF IInv, TypeOK, Usable
<1>6. (\A w : ~Owes(r, w)) /\ (\A i : ~Consumes(r, i))
  BY <1>2 DEF Owes, Consumes, Consuming
<1> QED
  BY <1>1, <1>2, <1>3, <1>4, <1>5, <1>6, KeepRequest DEF IInv, TypeOK, SessionRow

\* A link made undisturbed finds no other; the insertions it disturbs know.
LEMMA KeepCreateInviteInsert ==
  ASSUME IInv, NEW r \in Request, NEW i \in Invite, CreateInviteInsert(r, i) PROVE IInv'
<1> DEFINE u == req[r].user
           n == [user |-> u, state |-> IF req[r].overtaken THEN "crossed" ELSE "live"]
           Seen(g) == IF g.at = "insert" /\ g.user = u THEN [g EXCEPT !.overtaken = TRUE] ELSE g
<1>1. /\ req \in [Request -> Handler] /\ inv \in [Invite -> InviteRow] /\ u \in User
  BY DEF IInv, TypeOK, InviteRow, Handler
<1>2. /\ req[r].at = "insert" /\ user[u].row = "yes" /\ inv[i].state = "unused"
      /\ UNCHANGED <<user, sess>>
      /\ inv' = [inv EXCEPT ![i] = n]
      /\ req' = [q \in Request |-> IF q = r THEN NoHandler ELSE Seen(req[q])]
  BY DEF CreateInviteInsert, At, HasRow, InsertInvite
<1>3. \A g \in Handler : /\ Seen(g) \in Handler /\ Seen(g).at = g.at /\ Seen(g).user = g.user
                         /\ Seen(g).inv = g.inv /\ Seen(g).seen = g.seen
                         /\ Seen(g) # g => g.at = "insert"
                         /\ g.at = "insert" /\ g.user = u => Seen(g).overtaken
  BY ZenonT(60) DEF Handler
<1>4. /\ n \in InviteRow /\ n.user = u /\ n.state \in {"crossed", "live"}
      /\ n.state = "live" => ~req[r].overtaken
  BY <1>1 DEF InviteRow, LinkState, Usable
<1> HIDE DEF n, Seen
<1>5. /\ req' \in [Request -> Handler] /\ req'[r].at = "idle"
      /\ \A q \in Request \ {r} : req'[q] = Seen(req[q])
  BY <1>1, <1>2, <1>3, NoHandlerIsHandler
<1>6. inv' \in [Invite -> InviteRow] /\ inv'[i] = n /\ \A j \in Invite \ {i} : inv'[j] = inv[j]
  BY <1>1, <1>2, <1>4
<1>7. TypeOK'
  BY <1>2, <1>4, <1>5, <1>6 DEF IInv, TypeOK, InviteRow
<1>8. OldSessionsAreRevoked'
  <2> SUFFICES ASSUME NEW s \in Session, sess[s].age = "old"
               PROVE  \E q \in Request : req'[q].user = sess[s].user /\ req'[q].at \in Owing
    BY <1>2 DEF OldSessionsAreRevoked, Owes, Owing
  <2>1. PICK q \in Request : req[q].user = sess[s].user /\ req[q].at \in Owing
    BY DEF IInv, OldSessionsAreRevoked, Owes, Owing
  <2>2. q # r
    BY <1>2, <2>1 DEF Owing
  <2> QED
    BY <1>1, <1>3, <1>5, <2>1, <2>2
<1>9. SpentLinksAreConsumed'
  <2> SUFFICES ASSUME NEW j \in Invite, inv'[j].state = "spent"
               PROVE  \E q \in Request : req'[q].inv = j /\ req'[q].at \in Consuming
    BY DEF SpentLinksAreConsumed, Consuming
  <2>1. inv[j].state = "spent"
    BY <1>4, <1>6
  <2>2. PICK q \in Request : req[q].inv = j /\ req[q].at \in Consuming
    BY <2>1 DEF IInv, SpentLinksAreConsumed, Consuming
  <2>3. q # r
    BY <1>2, <2>2 DEF Consuming
  <2> QED
    BY <1>1, <1>3, <1>5, <2>2, <2>3
<1>10. OneLiveLink'
  <2>1. n.state = "live" => NoLiveLink(u, inv)
    BY <1>2, <1>4 DEF IInv, LinkInv
  <2> QED
    BY <1>4, <1>6, <2>1 DEF IInv, OneLiveLink, NoLiveLink
<1>11. LinkInv'
  <2> SUFFICES ASSUME NEW q \in Request, req'[q].at = "insert", ~req'[q].overtaken
               PROVE  NoLiveLink(req'[q].user, inv')
    BY DEF LinkInv
  <2>1. q # r /\ req[q].at = "insert" /\ req[q].user # u /\ req'[q].user = req[q].user
    BY <1>1, <1>3, <1>5
  <2>2. req'[q] = req[q]
    BY <1>1, <1>5, <2>1 DEF Seen
  <2> QED
    BY <1>4, <1>6, <2>1, <2>2 DEF IInv, LinkInv, NoLiveLink
<1>12. LapsedInv'
  BY <1>1, <1>3, <1>5 DEF IInv, LapsedInv
<1> QED
  BY <1>7, <1>8, <1>9, <1>10, <1>11, <1>12 DEF IInv

LEMMA KeepCreateInviteFails == ASSUME IInv, NEW r \in Request, CreateInviteFails(r) PROVE IInv'
<1> DEFINE h == [req[r] EXCEPT !.at = "undo"]
<1>1. h \in Handler /\ h.at = "undo" /\ Go(r, "undo") = [req EXCEPT ![r] = h]
  BY GoesOn, ZenonT(30) DEF Step
<1>2. req[r].at = "insert" /\ UNCHANGED <<user, sess, inv>>
      /\ \E g \in {h, NoHandler} : req' = [req EXCEPT ![r] = g]
  BY <1>1 DEF CreateInviteFails, At, Ended
<1> QED
  BY <1>1, <1>2, KeepReading, NoHandlerIsHandler DEF Owing

LEMMA KeepDeleteUser ==
  ASSUME IInv, NEW r \in Request, NEW u \in User, DeleteUserRow(u),
         req' = Withdrawn(u, Ended(r)), req[r].at \in {"undo", "admitted"}
  PROVE  IInv'
<1> DEFINE mid == [req EXCEPT ![r] = NoHandler]
<1>1. req' = Withdrawn(u, mid) /\ req[r].at \notin Owing
  BY DEF Ended, Owing
<1>2. /\ req' \in [Request -> Handler]
      /\ Alike(req'[r], NoHandler) /\ \A q \in Request \ {r} : Alike(req'[q], req[q])
  <2>1. mid \in [Request -> Handler]
        /\ mid[r] = NoHandler /\ \A q \in Request \ {r} : mid[q] = req[q]
    BY NoHandlerIsHandler DEF IInv, TypeOK
  <2> HIDE DEF mid
  <2> QED
    BY <1>1, <2>1, WithdrawnIsAlike
<1> HIDE DEF mid
<1>3. (\A w : ~Owes(r, w)) /\ (\A i : ~Consumes(r, i))
  BY <1>1 DEF Owes, Owing, Consumes, Consuming
<1>4. /\ user' \in [User -> Account] /\ sess' \in [Session -> SessionRow]
      /\ inv' \in [Invite -> InviteRow]
      /\ \A s \in Session : sess'[s].age # "none" => user'[sess'[s].user].row = "yes"
      /\ \A i \in Invite : inv'[i].state \in Usable \cup {"expired"}
                             => user'[inv'[i].user].row = "yes"
      /\ \A s \in Session : sess'[s].age = "old" => sess'[s] = sess[s]
      /\ \A i \in Invite : inv'[i].state \in {"live", "spent"} => inv'[i] = inv[i]
  BY RowsGoTogether, NoSessionIsRow, GoneLinkIsRow
<1> QED
  BY <1>2, <1>3, <1>4, KeepAlike, NoHandlerIsHandler

LEMMA KeepUnlockUser ==
  ASSUME IInv, NEW r \in Request, NEW u \in User, UnlockUser(r, u) PROVE IInv'
<1>1. /\ req[r].at = "admitted" /\ Unlock(u) /\ req' = [req EXCEPT ![r] = NoHandler]
      /\ UNCHANGED <<sess, inv>>
  BY DEF UnlockUser, Admin, At, Finish, Ended
<1> QED
  BY <1>1, UserWith, KeepUsers, NoHandlerIsHandler DEF Owing

\* The unlock between a change of password and what is still owed.
LEMMA KeepOwingUnlock ==
  ASSUME IInv, NEW r \in Request, SetUserPasswordUnlock(r) \/ SetupUnlock(r) PROVE IInv'
<1> DEFINE u == req[r].user
<1>1. PICK a \in {"revoke", "consume"} :
        /\ req' = Go(r, a) /\ UNCHANGED <<sess, inv>> /\ (Unlock(u) \/ UNCHANGED user)
        /\ \/ a = "revoke" /\ req[r].at = "resetUnlock"
           \/ a = "consume" /\ req[r].at = "setupUnlock"
  BY DEF SetUserPasswordUnlock, SetupUnlock, At
<1> DEFINE h == [req[r] EXCEPT !.at = a]
<1>2. a \in Step
  BY DEF Step
<1>3. h \in Handler /\ req' = [req EXCEPT ![r] = h] /\ h.at = a /\ h.user = u /\ h.inv = req[r].inv
  BY <1>1, <1>2, GoesOn
<1> HIDE DEF h
<1>4. user' \in [User -> Account] /\ \A w \in User : user'[w].row = user[w].row
  <2>1. u \in User
    BY DEF IInv, TypeOK, Handler
  <2> QED
    BY <1>1, <2>1, UserWith DEF IInv, TypeOK
<1>5. /\ \A s \in Session : sess[s].age # "none" => user'[sess[s].user].row = "yes"
      /\ \A i \in Invite : inv[i].state \in Usable \cup {"expired"}
                             => user'[inv[i].user].row = "yes"
  BY <1>4, RowsAreKept
<1>6. h.at \in Owing /\ \A i : Consumes(r, i) => h.at \in Consuming
  BY <1>1, <1>3 DEF Owing, Consumes, Consuming
<1>7. h.at \notin {"insert", "clear"}
  BY <1>3
<1>8. sess' \in [Session -> SessionRow] /\ inv' \in [Invite -> InviteRow]
  BY <1>1 DEF IInv, TypeOK, SessionRow, InviteRow
<1>9. /\ \A s \in Session : sess'[s].age = "old" => sess'[s] = sess[s]
      /\ \A i \in Invite : inv'[i].state \in {"live", "spent"} => inv'[i] = inv[i]
      /\ \A s \in Session : sess'[s].age # "none" => user'[sess'[s].user].row = "yes"
      /\ \A i \in Invite : inv'[i].state \in Usable \cup {"expired"}
                             => user'[inv'[i].user].row = "yes"
  BY <1>1, <1>5
<1>10. /\ \A s \in Session : sess'[s].age = "old" /\ Owes(r, sess[s].user) =>
             h.at \in Owing /\ h.user = req[r].user
       /\ \A i \in Invite : inv'[i].state = "spent" /\ Consumes(r, i) =>
             h.at \in Consuming /\ h.inv = req[r].inv
  BY <1>3, <1>6
<1> HIDE DEF u
<1> QED
  BY <1>3, <1>4, <1>7, <1>8, <1>9, <1>10, KeepRequest

-----------------------------------------------------------------------------
(* The setup link.                                                         *)

LEMMA KeepSetupFind ==
  ASSUME IInv, NEW r \in Request, NEW i \in Invite, SetupFind(r, i) PROVE IInv'
<1>1. UNCHANGED <<user, sess>> /\ req[r].at = "idle"
  BY DEF SetupFind, At, Begin
<1>2. CASE UNCHANGED req /\ inv' = [inv EXCEPT ![i] = GoneLink]
  BY <1>1, <1>2, KeepTables, GoneLinkIsRow DEF IInv, TypeOK, SessionRow, InviteRow, Usable
<1>3. CASE UNCHANGED inv /\ req' = [req EXCEPT ![r] =
             [NoHandler EXCEPT !.at = "setupSet", !.user = inv[i].user, !.inv = i]]
  <2> DEFINE h == [NoHandler EXCEPT !.at = "setupSet", !.user = inv[i].user, !.inv = i]
  <2>1. inv[i].user \in User
    BY DEF IInv, TypeOK
  <2>2. h \in Handler /\ h.at = "setupSet"
    BY <2>1, NoHandlerIsHandler DEF Handler, Step, NoHandler
  <2> QED
    BY <1>1, <1>3, <2>2, KeepReading DEF Owing
<1> QED
  BY <1>2, <1>3 DEF SetupFind, DeleteInvite, Begin, GoneLink

\* The link goes; what is left to do is to revoke.
LEMMA KeepSetupConsume == ASSUME IInv, NEW r \in Request, SetupConsume(r) PROVE IInv'
<1> DEFINE h == [req[r] EXCEPT !.at = "revoke", !.inv = "none"]
           i == req[r].inv
<1>1. req[r] \in Handler /\ inv \in [Invite -> InviteRow]
  BY DEF IInv, TypeOK, InviteRow
<1>2. h \in Handler /\ h.at = "revoke" /\ h.user = req[r].user
  BY <1>1 DEF Handler, Step
<1>3. /\ req[r].at = "consume" /\ UNCHANGED <<user, sess>> /\ req' = [req EXCEPT ![r] = h]
      /\ inv' = [inv EXCEPT ![i] = GoneLink]
  BY <1>1 DEF SetupConsume, At, DeleteInvite, GoneLink, IInv, TypeOK
<1> HIDE DEF h
<1>4. /\ inv' \in [Invite -> InviteRow]
      /\ \A j \in Invite : inv'[j].state # "gone" => inv'[j] = inv[j] /\ j # i
  BY <1>1, <1>3, GoneLinkIsRow
<1>5. /\ \A j \in Invite : inv'[j].state \in {"live", "spent"} => inv'[j] = inv[j]
      /\ \A j \in Invite : inv'[j].state = "spent" => ~Consumes(r, j)
      /\ \A j \in Invite : inv'[j].state \in Usable \cup {"expired"}
                             => user[inv'[j].user].row = "yes"
  BY <1>4 DEF IInv, TypeOK, Usable, Consumes
<1>6. h.at \in Owing /\ h.at \notin {"insert", "clear"}
  BY <1>2 DEF Owing
<1>7. /\ user' \in [User -> Account] /\ sess' \in [Session -> SessionRow]
      /\ \A s \in Session : sess'[s].age # "none" => user'[sess'[s].user].row = "yes"
  BY <1>3 DEF IInv, TypeOK, SessionRow
<1>8. /\ \A s \in Session : sess'[s].age = "old" => sess'[s] = sess[s]
      /\ \A s \in Session : sess'[s].age = "old" /\ Owes(r, sess[s].user) =>
           h.at \in Owing /\ h.user = req[r].user
      /\ \A j \in Invite : inv'[j].state \in Usable \cup {"expired"}
                             => user'[inv'[j].user].row = "yes"
  BY <1>2, <1>3, <1>5, <1>6
<1>9. /\ \A j \in Invite : inv'[j].state = "spent" /\ Consumes(r, j) =>
           h.at \in Consuming /\ h.inv = req[r].inv
      /\ req' = [req EXCEPT ![r] = h] /\ inv' \in [Invite -> InviteRow]
      /\ \A j \in Invite : inv'[j].state \in {"live", "spent"} => inv'[j] = inv[j]
  BY <1>3, <1>4, <1>5
<1>10. h \in Handler
  BY <1>2
<1> HIDE DEF i
<1> QED
  BY <1>6, <1>7, <1>8, <1>9, <1>10, KeepRequest, ZenonT(60)

-----------------------------------------------------------------------------
(* Time, the daily job, the loss of a request.                             *)

LEMMA KeepTime ==
  ASSUME IInv, \/ \E s \in Session : SessionExpires(s)
               \/ \E i \in Invite : InviteExpires(i)
               \/ DeleteExpired
  PROVE  IInv'
<1>1. sess \in [Session -> SessionRow] /\ inv \in [Invite -> InviteRow]
  BY DEF IInv, TypeOK, SessionRow, InviteRow
<1>2. CASE \E s \in Session : SessionExpires(s)
  <2>1. PICK s \in Session : SessionExpires(s)
    BY <1>2
  <2> DEFINE n == [sess[s] EXCEPT !.age = "expired"]
  <2>2. n \in SessionRow /\ n.age = "expired" /\ n.user = sess[s].user
    BY <1>1 DEF SessionRow, Age
  <2>3. sess' = [sess EXCEPT ![s] = n] /\ UNCHANGED <<user, inv, req>> /\ sess[s].age # "none"
    BY <2>1 DEF SessionExpires
  <2> HIDE DEF n
  <2> QED
    BY <1>1, <2>2, <2>3, KeepTables DEF IInv, TypeOK
<1>3. CASE \E i \in Invite : InviteExpires(i)
  <2>1. PICK i \in Invite : InviteExpires(i)
    BY <1>3
  <2> DEFINE n == [inv[i] EXCEPT !.state = "expired"]
  <2>2. n \in InviteRow /\ n.state = "expired" /\ n.user = inv[i].user
    BY <1>1 DEF InviteRow, LinkState
  <2>3. inv' = [inv EXCEPT ![i] = n] /\ UNCHANGED <<user, sess, req>> /\ inv[i].state \in Usable
    BY <2>1 DEF InviteExpires
  <2> HIDE DEF n
  <2> QED
    BY <1>1, <2>2, <2>3, KeepTables DEF IInv, TypeOK
<1>4. CASE DeleteExpired
  <2>1. /\ sess' = [s \in Session |-> IF sess[s].age = "expired" THEN NoSession ELSE sess[s]]
        /\ UNCHANGED <<user, inv, req>>
    BY <1>4 DEF DeleteExpired
  <2> QED
    BY <1>1, <2>1, KeepTables, NoSessionIsRow DEF IInv, TypeOK
<1> QED
  BY <1>2, <1>3, <1>4

\* A lost request leaves what it owed excused, unless another request owes it too.
LEMMA KeepRequestLost == ASSUME IInv, NEW r \in Request, RequestLost(r) PROVE IInv'
<1>1. sess \in [Session -> SessionRow] /\ inv \in [Invite -> InviteRow]
  BY DEF IInv, TypeOK, SessionRow, InviteRow
<1>2. /\ req' = [req EXCEPT ![r] = NoHandler] /\ UNCHANGED user
      /\ sess' = [s \in Session |->
           IF sess[s].age = "old" /\ ~\E q \in Request \ {r} : Owes(q, sess[s].user)
             THEN [sess[s] EXCEPT !.age = "excused"] ELSE sess[s]]
      /\ inv' = [i \in Invite |->
           IF inv[i].state = "spent" /\ ~\E q \in Request \ {r} : Consumes(q, i)
             THEN [inv[i] EXCEPT !.state = "lost"] ELSE inv[i]]
  BY DEF RequestLost, Finish, Ended, Consumes, Consuming
<1>3. /\ sess' \in [Session -> SessionRow]
      /\ \A s \in Session : /\ sess'[s].user = sess[s].user
                            /\ sess[s].age = "none" => sess'[s].age = "none"
                            /\ sess'[s].age = "old" =>
                                 /\ sess'[s] = sess[s]
                                 /\ \E q \in Request \ {r} : Owes(q, sess[s].user)
  BY <1>1, <1>2 DEF SessionRow, Age
<1>4. /\ inv' \in [Invite -> InviteRow]
      /\ \A i \in Invite : /\ inv'[i].user = inv[i].user
                           /\ inv'[i].state \in Usable => inv[i].state \in Usable
                           /\ inv'[i].state = "expired" => inv[i].state = "expired"
                           /\ inv'[i].state = "live" => inv'[i] = inv[i]
                           /\ inv'[i].state = "spent" =>
                                /\ inv'[i] = inv[i]
                                /\ \E q \in Request \ {r} : Consumes(q, i)
  BY <1>1, <1>2 DEF InviteRow, LinkState, Usable
<1>5. /\ \A s \in Session : sess'[s].age # "none" => user[sess'[s].user].row = "yes"
      /\ \A i \in Invite : inv'[i].state \in Usable \cup {"expired"}
                             => user[inv'[i].user].row = "yes"
  BY <1>3, <1>4 DEF IInv, TypeOK
<1> QED
  BY <1>2, <1>3, <1>4, <1>5, KeepRequest, NoHandlerIsHandler, ZenonT(60) DEF IInv, TypeOK

-----------------------------------------------------------------------------
LEMMA StepIInv == IInv /\ [Next]_vars => IInv'
<1> SUFFICES ASSUME IInv, [Next]_vars PROVE IInv'
  OBVIOUS
<1>1. ASSUME NEW r \in Request, AuthNext(r) PROVE IInv'
  BY <1>1, KeepLoginFind, KeepLoginClear, KeepLoginSession, KeepValidateSession, KeepValidateUser,
     KeepSignedOut, KeepChangePassword, KeepPasswordChanged, KeepRevoke DEF AuthNext
<1>2. ASSUME NEW r \in Request, AdminNext(r) PROVE IInv'
  <2>1. ASSUME NEW u \in User, DeleteUser(r, u) PROVE IInv'
    BY <2>1, KeepDeleteUser DEF DeleteUser, Admin, At
  <2>2. ASSUME InviteUndo(r) PROVE IInv'
    BY <2>2, KeepDeleteUser DEF InviteUndo, At, IInv, TypeOK, Handler
  <2> QED
    BY <1>2, <2>1, <2>2, KeepCreateUser, KeepInviteUser, KeepRegenerateInvite, KeepLockUser,
       KeepUnlockUser, KeepSetUserPassword, KeepOwingUnlock, KeepCreateInvite,
       KeepCreateInviteInsert, KeepCreateInviteFails DEF AdminNext
<1>3. ASSUME NEW r \in Request, SetupNext(r) PROVE IInv'
  BY <1>3, KeepSetupFind, KeepSetupSet, KeepOwingUnlock, KeepSetupConsume DEF SetupNext
<1>4. CASE UNCHANGED vars
  BY <1>4 DEF vars, IInv, TypeOK, OldSessionsAreRevoked, Owes, OneLiveLink,
              SpentLinksAreConsumed, LinkInv, NoLiveLink, LapsedInv
<1> QED
  BY <1>1, <1>2, <1>3, <1>4, KeepRequestLost, KeepTime DEF Next

LEMMA SpecIInv == Spec => []IInv
  BY InitIInv, StepIInv, PTL DEF Spec

\* Every value keeps its type, and sessions and links belong to users that have a row.
THEOREM TypeCorrect == Spec => []TypeOK
<1>1. IInv => TypeOK
  BY DEF IInv
<1> QED
  BY SpecIInv, <1>1, PTL

\* A session older than its owner's password or lock has a request on its way
\* that will revoke it, however many requests run and whichever of them are lost.
THEOREM PasswordChangesSignOut == Spec => []OldSessionsAreRevoked
<1>1. IInv => OldSessionsAreRevoked
  BY DEF IInv
<1> QED
  BY SpecIInv, <1>1, PTL

\* No user has two setup links, unless the requests that made them crossed.
THEOREM LinksReplaceEachOther == Spec => []OneLiveLink
<1>1. IInv => OneLiveLink
  BY DEF IInv
<1> QED
  BY SpecIInv, <1>1, PTL

\* A link that has set a password has a request on its way that will delete it.
THEOREM LinksWorkOnce == Spec => []SpentLinksAreConsumed
<1>1. IInv => SpentLinksAreConsumed
  BY DEF IInv
<1> QED
  BY SpecIInv, <1>1, PTL

-----------------------------------------------------------------------------
(* What a step does to a lock, and to the accounts that can administer.    *)

\* A request's step on the users: what makes a lock go, and what takes an
\* account's administration away.
LEMMA UsersStep ==
  ASSUME IInv, [Next]_vars
  PROVE  \/ UNCHANGED user
         \/ \E r \in Request, u \in User :
              \/ /\ Unlock(u)
                 /\ \/ Admin(r)
                    \/ req[r].user = u /\ req[r].at = "clear" /\ req[r].seen = "lapsed"
                    \/ req[r].user = u /\ req[r].at \in {"resetUnlock", "setupUnlock"}
              \/ SetPassword(u)
              \/ LockUser(r, u) \/ DeleteUser(r, u)
              \/ InviteUndo(r) /\ u = req[r].user
              \/ Admin(r) /\ user[u].row = "never" /\ \E adm, usable \in BOOLEAN : InsertUser(u, adm, usable)
<1>1. \A r \in Request : req[r].user \in User
  BY DEF IInv, TypeOK, Handler
<1>2. \A r \in Request : req[r].at = "clear" => req[r].seen = "lapsed"
  BY DEF IInv, LapsedInv
<1>3. ASSUME NEW r \in Request, AuthNext(r), user' # user
      PROVE  \/ Unlock(req[r].user) /\ req[r].at = "clear"
             \/ SetPassword(req[r].user)
  BY <1>3 DEF AuthNext, LoginFind, LoginClear, LoginSession, ValidateSession, ValidateUser,
              ValidateHeal, Logout, ChangePassword, ChangePasswordSet, RevokeUserSessions, At
<1>4. ASSUME NEW r \in Request, AdminNext(r), user' # user
      PROVE  \/ Unlock(req[r].user) /\ req[r].at = "resetUnlock"
             \/ InviteUndo(r)
             \/ \E u \in User :
                  \/ Admin(r) /\ Unlock(u)
                  \/ SetPassword(u)
                  \/ LockUser(r, u) \/ DeleteUser(r, u)
                  \/ Admin(r) /\ user[u].row = "never" /\ \E adm, usable \in BOOLEAN : InsertUser(u, adm, usable)
  BY <1>4 DEF AdminNext, CreateUser, InviteUser, RegenerateInvite, UnlockUser,
              SetUserPassword, SetUserPasswordUnlock, CreateInvite,
              CreateInviteFails, CreateInviteInsert, At
<1>5. ASSUME NEW r \in Request, SetupNext(r), user' # user
      PROVE  \/ Unlock(req[r].user) /\ req[r].at = "setupUnlock"
             \/ SetPassword(req[r].user)
  BY <1>5 DEF SetupNext, SetupFind, SetupSet, SetupUnlock, SetupConsume, At
<1>6. user' = user \/ \E r \in Request : AuthNext(r) \/ AdminNext(r) \/ SetupNext(r)
  BY DEF Next, vars, RequestLost, SessionExpires, InviteExpires, DeleteExpired
<1>7. CASE \E r \in Request : AuthNext(r) /\ user' # user
  BY <1>1, <1>2, <1>3, <1>7
<1>8. CASE \E r \in Request : AdminNext(r) /\ user' # user
  BY <1>1, <1>4, <1>8
<1>9. CASE \E r \in Request : SetupNext(r) /\ user' # user
  BY <1>1, <1>5, <1>9
<1> QED
  BY <1>6, <1>7, <1>8, <1>9

\* What becomes of the row of w when the row of u is worked on.
LEMMA OtherRows ==
  ASSUME IInv, NEW u \in User, NEW w \in User,
         \/ Unlock(u) \/ SetPassword(u) \/ LockRow(u) \/ DeleteUserRow(u)
         \/ user[u].row = "never" /\ \E adm, usable \in BOOLEAN : InsertUser(u, adm, usable)
  PROVE  /\ w # u => user'[w] = user[w]
         /\ Unlock(u) => user'[w].row = user[w].row /\ user'[w].admin = user[w].admin
                         /\ user'[w].lock \in {user[w].lock, "none"}
         /\ SetPassword(u) => user'[w].row = user[w].row /\ user'[w].admin = user[w].admin
                              /\ user'[w].lock = user[w].lock
         /\ LockRow(u) => user'[u].lock = "admin"
         /\ DeleteUserRow(u) => user'[w] = user[w] \/ user'[w].row = "deleted"
         /\ (\E adm, usable \in BOOLEAN : InsertUser(u, adm, usable)) /\ user[w].row = "yes"
              => w = u \/ user'[w] = user[w]
<1>1. user \in [User -> Account] /\ user[u] \in Account /\ user[w] \in Account
  BY DEF IInv, TypeOK
<1>2. w # u => user'[w] = user[w]
  BY <1>1 DEF Unlock, SetPassword, LockRow, DeleteUserRow, InsertUser
<1>3. Unlock(u) => user'[w].row = user[w].row /\ user'[w].admin = user[w].admin
                   /\ user'[w].lock \in {user[w].lock, "none"}
  BY <1>1 DEF Unlock, Account
<1>4. SetPassword(u) => user'[w].row = user[w].row /\ user'[w].admin = user[w].admin
                        /\ user'[w].lock = user[w].lock
  BY <1>1 DEF SetPassword, Account
<1>5. LockRow(u) => user'[u].lock = "admin"
  BY <1>1 DEF LockRow, Account
<1>6. DeleteUserRow(u) => user'[w] = user[w] \/ user'[w].row = "deleted"
  BY <1>1 DEF DeleteUserRow, Absent
<1> QED
  BY <1>2, <1>3, <1>4, <1>5, <1>6

\* An administrator's lock is lifted by those who may and by no login that has
\* read it.
THEOREM LocksOutlastLogins == Spec => AdminLockHolds
<1> DEFINE Lifter(u) == \E r \in Request :
             \/ Admin(r)
             \/ req[r].user = u /\ At(r, "clear") /\ req[r].seen = "lapsed"
             \/ req[r].user = u /\ req[r].at \in {"resetUnlock", "setupUnlock"}
<1>1. ASSUME IInv, [Next]_vars, NEW w \in User, user[w].lock = "admin", user'[w].lock = "none",
             user'[w].row = "yes"
      PROVE  Lifter(w)
  <2>1. user'[w] # user[w]
    BY <1>1
  <2>2. PICK r \in Request, u \in User :
          \/ /\ Unlock(u)
             /\ \/ Admin(r)
                \/ req[r].user = u /\ req[r].at = "clear" /\ req[r].seen = "lapsed"
                \/ req[r].user = u /\ req[r].at \in {"resetUnlock", "setupUnlock"}
          \/ SetPassword(u)
          \/ LockRow(u) \/ DeleteUserRow(u)
          \/ Admin(r) /\ user[u].row = "never" /\ \E adm, usable \in BOOLEAN : InsertUser(u, adm, usable)
    BY <1>1, <2>1, UsersStep DEF LockUser, DeleteUser, InviteUndo
  <2>3. w = u
    BY <1>1, <2>1, <2>2, OtherRows
  <2>4. ~SetPassword(u) /\ ~DeleteUserRow(u)
    BY <1>1, <2>1, <2>3, OtherRows
  <2>5. ~LockRow(u)
    BY <1>1, <2>3, OtherRows
  <2> QED
    BY <2>2, <2>3, <2>4, <2>5 DEF At
<1>2. IInv /\ [Next]_vars =>
        [\A u \in User : user[u].lock = "admin" /\ user'[u].lock = "none"
                           /\ user'[u].row = "yes" => Lifter(u)]_vars
  BY <1>1
<1> QED
  BY <1>2, SpecIInv, PTL DEF Spec, AdminLockHolds

-----------------------------------------------------------------------------
(* Administrators at work together.                                        *)

\* A request let in for an administrator who can administer no longer is marked.
LetInInv == \A r \in Request : Admin(r) /\ ~CanAdminister(req[r].user) => req[r].overtaken

\* The request goes on being let in for the same user.
StillIn(q) == /\ req[q].at = "admitted" /\ req'[q].user = req[q].user
              /\ req'[q].admin = req[q].admin
              /\ req[q].overtaken => req'[q].overtaken

\* Cut marks none that is let in.
LEMMA CutLeavesIn ==
  ASSUME NEW u \in User, NEW next \in [Request -> Handler], Cut(u, next), NEW q \in Request
  PROVE  /\ req'[q].at = next[q].at
         /\ next[q].at = "admitted" => req'[q] = next[q]
<1>1. req'[q] = IF next[q].user = u /\ next[q].at \in {"clear", "session"}
                  THEN [next[q] EXCEPT !.overtaken = TRUE] ELSE next[q]
  BY DEF Cut
<1>2. [next[q] EXCEPT !.overtaken = TRUE].at = next[q].at
  BY Overtaken
<1> QED
  BY <1>1, <1>2

\* A request that is let in after a step was so before, unless this step has
\* read its user's row and found no lock.
LEMMA LetInSteps ==
  ASSUME IInv, [Next]_vars, NEW q \in Request, req'[q].at = "admitted"
  PROVE  \/ StillIn(q)
         \/ /\ UNCHANGED user /\ req'[q].user = req[q].user
            /\ user[req[q].user].row = "yes" /\ user[req[q].user].lock # "admin"
            /\ req'[q].admin = user[req[q].user].admin
<1>1. req \in [Request -> Handler] /\ \A r \in Request : req[r] \in Handler /\ req[r].user \in User
  BY DEF IInv, TypeOK, Handler
<1>2. NoHandler \in Handler /\ NoHandler.at = "idle"
  BY NoHandlerIsHandler
<1>3. req'[q] = req[q] => StillIn(q)
  BY DEF StillIn
<1>4. ASSUME NEW r \in Request, NEW h \in Handler, h.at # "admitted", NEW next,
             next = [req EXCEPT ![r] = h],
             \E u \in User : \/ req' = next \/ req' = Withdrawn(u, next)
                            \/ Cut(u, next) \/ Cut(u, Withdrawn(u, next))
      PROVE  StillIn(q)
  <2>1. /\ next \in [Request -> Handler]
        /\ next[r].at # "admitted" /\ \A p \in Request \ {r} : next[p] = req[p]
    BY <1>1, <1>4
  <2>2. PICK u \in User : \/ req' = next \/ req' = Withdrawn(u, next)
                          \/ Cut(u, next) \/ Cut(u, Withdrawn(u, next))
    BY <1>4
  <2> DEFINE mid == Withdrawn(u, next)
  <2>3. /\ mid \in [Request -> Handler]
        /\ mid[q].at = next[q].at /\ mid[q].user = next[q].user /\ mid[q].admin = next[q].admin
        /\ next[q].overtaken => mid[q].overtaken
    BY <2>1, WithdrawnIsAlike DEF Alike
  <2>4. req' = next \/ req' = mid \/ Cut(u, next) \/ Cut(u, mid)
    BY <2>2
  <2> HIDE DEF mid
  <2>5. \/ req'[q] = next[q] /\ next[q].at = "admitted"
        \/ req'[q] = mid[q] /\ mid[q].at = "admitted"
    BY <2>1, <2>3, <2>4, CutLeavesIn
  <2>6. q # r /\ next[q] = req[q]
    BY <2>1, <2>3, <2>5
  <2> QED
    BY <2>3, <2>5, <2>6 DEF StillIn
<1>5. ASSUME UNCHANGED req PROVE StillIn(q)
  BY <1>3, <1>5
<1>6. ASSUME NEW r \in Request, NEW h, h.at # "admitted", req' = [req EXCEPT ![r] = h]
      PROVE  StillIn(q)
  BY <1>1, <1>3, <1>6
<1>7. ASSUME NEW r \in Request, AuthNext(r), ~ValidateUser(r) PROVE StillIn(q)
  <2>1. ASSUME NEW u \in User, NEW right \in BOOLEAN, LoginFind(r, u, right) PROVE StillIn(q)
    BY <1>1, <1>3, <2>1 DEF LoginFind, Begin, NoHandler
  <2>2. CASE LoginClear(r)
    <3> DEFINE h == [req[r] EXCEPT !.at = "session"]
    <3>1. h.at = "session" /\ Go(r, "session") = [req EXCEPT ![r] = h]
      BY GoesOn, ZenonT(30) DEF Step
    <3> HIDE DEF h
    <3> QED
      BY <1>2, <1>6, <2>2, <3>1 DEF LoginClear, Finish, Ended
  <2>3. ASSUME NEW s \in Session, LoginSession(r, s) \/ ValidateSession(r, s) PROVE StillIn(q)
    <3>1. CASE LoginSession(r, s)
      BY <1>2, <1>6, <3>1 DEF LoginSession, Finish, Ended
    <3>2. CASE ValidateSession(r, s)
      <4> DEFINE h == [NoHandler EXCEPT !.at = "user", !.user = sess[s].user, !.sess = s]
      <4>1. h.at = "user"
        BY DEF NoHandler
      <4>2. UNCHANGED req \/ req' = [req EXCEPT ![r] = h]
        BY <3>2 DEF ValidateSession, Begin
      <4> HIDE DEF h
      <4> QED
        BY <1>5, <1>6, <4>1, <4>2
    <3> QED
      BY <2>3, <3>1, <3>2
  <2>4. CASE ValidateHeal(r) \/ Logout(r) \/ ChangePassword(r) \/ RevokeUserSessions(r)
    <3> DEFINE h == [NoHandler EXCEPT !.at = "pwSet", !.user = req[r].user]
    <3>1. h.at = "pwSet"
      BY DEF NoHandler
    <3>2. req' = [req EXCEPT ![r] = NoHandler] \/ req' = [req EXCEPT ![r] = h]
      BY <2>4 DEF ValidateHeal, Logout, ChangePassword, RevokeUserSessions, Finish, Ended
    <3> HIDE DEF h
    <3> QED
      BY <1>2, <1>6, <3>1, <3>2
  <2>5. CASE ChangePasswordSet(r)
    <3> DEFINE h == [req[r] EXCEPT !.at = "revoke"]
    <3>1. h \in Handler /\ h.at = "revoke" /\ Go(r, "revoke") = [req EXCEPT ![r] = h]
      BY GoesOn, ZenonT(30) DEF Step
    <3> HIDE DEF h
    <3>2. Cut(req[r].user, [req EXCEPT ![r] = h]) \/ req' = [req EXCEPT ![r] = NoHandler]
      BY <2>5, <3>1 DEF ChangePasswordSet, Finish, Ended
    <3> QED
      BY <1>1, <1>2, <1>4, <3>1, <3>2
  <2> QED
    BY <1>7, <2>1, <2>2, <2>3, <2>4, <2>5 DEF AuthNext
<1>8. ASSUME NEW r \in Request, AdminNext(r) PROVE StillIn(q)
  <2>1. ASSUME NEW u \in User,
               \/ \E adm \in BOOLEAN : CreateUser(r, u, adm) \/ InviteUser(r, u, adm)
               \/ RegenerateInvite(r, u) \/ UnlockUser(r, u)
        PROVE  StillIn(q)
    <3> DEFINE new(fresh) == [NoHandler EXCEPT !.at = "purge", !.user = u, !.fresh = fresh]
               old == [NoHandler EXCEPT !.at = "purge", !.user = u]
    <3>1. \A fresh : new(fresh).at = "purge"
      BY DEF NoHandler
    <3>2. old.at = "purge"
      BY DEF NoHandler
    <3>3. \/ req' = [req EXCEPT ![r] = NoHandler] \/ req' = [req EXCEPT ![r] = new(TRUE)]
          \/ req' = [req EXCEPT ![r] = old]
      BY <2>1 DEF CreateUser, InviteUser, RegenerateInvite, UnlockUser, Finish, Ended
    <3> HIDE DEF new, old
    <3> QED
      BY <1>2, <1>6, <3>1, <3>2, <3>3
  <2>2. ASSUME NEW u \in User, LockUser(r, u) PROVE StillIn(q)
    <3> DEFINE h == [NoHandler EXCEPT !.at = "revoke", !.user = u]
    <3>1. h \in Handler /\ h.at = "revoke"
      BY NoHandlerIsHandler DEF Handler, NoHandler, Step
    <3>2. Cut(u, Withdrawn(u, [req EXCEPT ![r] = h]))
      BY <2>2 DEF LockUser
    <3> HIDE DEF h
    <3> QED
      BY <1>4, <3>1, <3>2
  <2>3. ASSUME NEW u \in User, SetUserPassword(r, u) PROVE StillIn(q)
    <3> DEFINE h == [NoHandler EXCEPT !.at = "resetUnlock", !.user = u]
    <3>1. h \in Handler /\ h.at = "resetUnlock"
      BY NoHandlerIsHandler DEF Handler, NoHandler, Step
    <3>2. Cut(u, [req EXCEPT ![r] = h])
      BY <2>3 DEF SetUserPassword
    <3> HIDE DEF h
    <3> QED
      BY <1>4, <3>1, <3>2
  <2>4. ASSUME NEW u \in User, DeleteUser(r, u) \/ (InviteUndo(r) /\ u = req[r].user)
        PROVE  StillIn(q)
    <3>1. req' = Withdrawn(u, [req EXCEPT ![r] = NoHandler])
      BY <2>4 DEF DeleteUser, InviteUndo, Ended
    <3> QED
      BY <1>2, <1>4, <3>1
  <2>5. CASE SetUserPasswordUnlock(r) \/ CreateInvite(r) \/ CreateInviteFails(r)
    BY <1>1, <1>3, <2>5 DEF SetUserPasswordUnlock, CreateInvite, CreateInviteFails, Go, Ended,
                            NoHandler, Handler
  <2>6. ASSUME NEW i \in Invite, CreateInviteInsert(r, i) PROVE StillIn(q)
    BY <1>1, <1>2, <1>3, <2>6 DEF CreateInviteInsert, At, Handler
  <2> QED
    BY <1>1, <1>8, <2>1, <2>2, <2>3, <2>4, <2>5, <2>6 DEF AdminNext
<1>9. ASSUME NEW r \in Request, SetupNext(r) PROVE StillIn(q)
  <2>1. ASSUME NEW i \in Invite, SetupFind(r, i) PROVE StillIn(q)
    BY <1>1, <1>3, <2>1 DEF SetupFind, Begin, NoHandler
  <2>2. CASE SetupUnlock(r) \/ SetupConsume(r)
    BY <1>1, <1>3, <2>2 DEF SetupUnlock, SetupConsume, Go, Handler
  <2>3. CASE SetupSet(r)
    <3> DEFINE h == [req[r] EXCEPT !.at = "setupUnlock"]
    <3>1. h \in Handler /\ h.at = "setupUnlock" /\ Go(r, "setupUnlock") = [req EXCEPT ![r] = h]
      BY GoesOn, ZenonT(30) DEF Step
    <3> HIDE DEF h
    <3>2. Cut(req[r].user, [req EXCEPT ![r] = h]) \/ req' = [req EXCEPT ![r] = NoHandler]
      BY <2>3, <3>1 DEF SetupSet, Finish, Ended
    <3> QED
      BY <1>1, <1>2, <1>4, <3>1, <3>2
  <2> QED
    BY <1>9, <2>1, <2>2, <2>3 DEF SetupNext
<1>10. ASSUME NEW r \in Request, RequestLost(r) PROVE StillIn(q)
  BY <1>1, <1>2, <1>3, <1>10 DEF RequestLost, Finish, Ended
<1>11. ASSUME NEW r \in Request, ValidateUser(r)
       PROVE  \/ StillIn(q)
              \/ /\ UNCHANGED user /\ req'[q].user = req[q].user
                 /\ user[req[q].user].row = "yes" /\ user[req[q].user].lock # "admin"
                 /\ req'[q].admin = user[req[q].user].admin
  BY <1>1, <1>2, <1>3, <1>11 DEF ValidateUser, Finish, Ended, HasRow, Handler
<1>12. CASE \/ \E s \in Session : SessionExpires(s)
            \/ \E i \in Invite : InviteExpires(i)
            \/ DeleteExpired \/ UNCHANGED vars
  BY <1>5, <1>12 DEF SessionExpires, InviteExpires, DeleteExpired, vars
<1> QED
  BY <1>7, <1>8, <1>9, <1>10, <1>11, <1>12 DEF Next

\* An account loses its administration in a step that marks what it was let in for.
LEMMA LossIsMarked ==
  ASSUME IInv, [Next]_vars, NEW w \in User, CanAdminister(w), ~CanAdminister(w)',
         NEW q \in Request, Admin(q)', req'[q].user = w
  PROVE  req'[q].overtaken
<1>1. user'[w] # user[w]
  BY DEF CanAdminister
<1>2. PICK r \in Request, u \in User :
        \/ Unlock(u) \/ SetPassword(u)
        \/ LockUser(r, u) \/ DeleteUser(r, u)
        \/ InviteUndo(r) /\ u = req[r].user
        \/ user[u].row = "never" /\ \E adm, usable \in BOOLEAN : InsertUser(u, adm, usable)
  BY <1>1, UsersStep
<1>3. w = u
  BY <1>1, <1>2, OtherRows DEF LockUser, DeleteUser, InviteUndo
<1>4. ~Unlock(u) /\ ~SetPassword(u) /\ user[u].row # "never"
  BY <1>3, OtherRows DEF CanAdminister
<1>5. CASE LockUser(r, u)
  <2> DEFINE h == [NoHandler EXCEPT !.at = "revoke", !.user = u]
             mid  == [req EXCEPT ![r] = h]
             next == Withdrawn(u, mid)
  <2>1. h \in Handler
    BY NewHandler DEF Step
  <2>2. Cut(u, next)
    BY <1>5 DEF LockUser
  <2> HIDE DEF h
  <2>3. mid \in [Request -> Handler]
    BY <2>1 DEF IInv, TypeOK
  <2> HIDE DEF mid
  <2>4. /\ next \in [Request -> Handler]
        /\ next[q].at = "admitted" /\ next[q].admin /\ next[q].user = u => next[q].overtaken
    BY <2>3, WithdrawnIsAlike
  <2> HIDE DEF next
  <2> QED
    BY <1>3, <2>2, <2>4, CutLeavesIn DEF Admin, At
<1>6. CASE DeleteUser(r, u) \/ (InviteUndo(r) /\ u = req[r].user)
  <2> DEFINE mid == [req EXCEPT ![r] = NoHandler]
  <2>1. req' = Withdrawn(u, mid)
    BY <1>6 DEF DeleteUser, InviteUndo, Ended
  <2>2. mid \in [Request -> Handler]
    BY NoHandlerIsHandler DEF IInv, TypeOK
  <2> HIDE DEF mid
  <2> QED
    BY <1>3, <2>1, <2>2, WithdrawnIsAlike DEF Admin, At
<1> QED
  BY <1>2, <1>4, <1>5, <1>6

LEMMA StepLetInInv == IInv /\ LetInInv /\ [Next]_vars => LetInInv'
<1> SUFFICES ASSUME IInv, LetInInv, [Next]_vars, NEW q \in Request, Admin(q)',
                    ~CanAdminister(req[q].user)'
             PROVE  req'[q].overtaken
  BY DEF LetInInv
<1> DEFINE w == req[q].user
<1>1. w \in User
  BY DEF IInv, TypeOK, Handler
<1>2. req'[q].at = "admitted" /\ req'[q].admin
  BY DEF Admin, At
<1>3. CASE StillIn(q)
  <2>1. req'[q].user = w /\ Admin(q) /\ (req[q].overtaken => req'[q].overtaken)
    BY <1>2, <1>3 DEF StillIn, Admin, At
  <2>2. CASE CanAdminister(w)
    BY <1>1, <2>1, <2>2, LossIsMarked DEF CanAdminister
  <2>3. CASE ~CanAdminister(w)
    BY <2>1, <2>3 DEF LetInInv
  <2> QED
    BY <2>2, <2>3
<1>4. CASE /\ UNCHANGED user /\ req'[q].user = w
           /\ user[w].row = "yes" /\ user[w].lock # "admin"
           /\ req'[q].admin = user[w].admin
  BY <1>2, <1>4 DEF CanAdminister
<1> QED
  BY <1>2, <1>3, <1>4, LetInSteps

LEMMA SpecLetInInv == Spec => [](IInv /\ LetInInv)
<1>1. Init => LetInInv
  BY NoHandlerIsHandler DEF Init, LetInInv, Admin, At
<1> QED
  BY InitIInv, StepIInv, <1>1, StepLetInInv, PTL DEF Spec

\* One administrator can never be the end of all administration: the request
\* that takes the last such account away had a caller who has been locked or
\* deleted since the request was let in.
THEOREM AdministrationIsLostTogether == Spec => LastAdminStays
<1> DEFINE Had == \E u \in User : CanAdminister(u)
           Excuse == \E r \in Request :
                       \/ Admin(r) /\ req[r].overtaken /\ ~CanAdminister(req[r].user)
                       \/ At(r, "undo")
<1>1. ASSUME IInv, LetInInv, [Next]_vars, NEW w \in User, CanAdminister(w),
             ~\E v \in User : CanAdminister(v)'
      PROVE  Excuse
  <2>1. ~CanAdminister(w)' /\ user'[w] # user[w]
    BY <1>1 DEF CanAdminister
  <2>2. PICK r \in Request, u \in User :
          \/ Unlock(u) \/ SetPassword(u)
          \/ Admin(r) /\ u # req[r].user /\ (LockRow(u) \/ DeleteUserRow(u))
          \/ At(r, "undo") /\ DeleteUserRow(u)
          \/ user[u].row = "never" /\ \E adm, usable \in BOOLEAN : InsertUser(u, adm, usable)
    BY <1>1, <2>1, UsersStep DEF LockUser, DeleteUser, InviteUndo
  <2>3. w = u
    BY <1>1, <2>1, <2>2, OtherRows
  <2>4. ~Unlock(u) /\ ~SetPassword(u) /\ user[u].row # "never"
    BY <1>1, <2>1, <2>3, OtherRows DEF CanAdminister
  <2>5. CASE At(r, "undo")
    BY <2>5
  <2>6. CASE Admin(r) /\ u # req[r].user /\ (LockRow(u) \/ DeleteUserRow(u))
    <3> DEFINE c == req[r].user
    <3>1. c \in User
      BY <1>1 DEF IInv, TypeOK, Handler
    <3>2. user'[c] = user[c]
      BY <1>1, <2>6, <3>1, OtherRows
    <3>3. ~CanAdminister(c)
      BY <1>1, <3>1, <3>2 DEF CanAdminister
    <3> QED
      BY <1>1, <2>6, <3>3 DEF LetInInv
  <2> QED
    BY <2>2, <2>4, <2>5, <2>6
<1>2. IInv /\ LetInInv /\ [Next]_vars => [Had /\ ~(\E u \in User : CanAdminister(u)') => Excuse]_vars
  BY <1>1
<1> QED
  BY <1>2, SpecLetInInv, PTL DEF Spec, LastAdminStays
=============================================================================
