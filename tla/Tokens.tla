------------------------------- MODULE Tokens -------------------------------
(***************************************************************************)
(* API tokens: how a request with a bearer token is let in and what it may *)
(* call, directly or as a batch of MCP tool calls; how tokens are made and *)
(* revoked; and the recorder that writes their last use in the background  *)
(* (backend/internal/tokens, auth/middleware.go, mcp, cmd/server).         *)
(*                                                                         *)
(* A call is a request whose statements are separate steps.  Cookie        *)
(* sessions are the module Accounts; here one lets its user in.            *)
(***************************************************************************)
EXTENDS Naturals, Sequences, FiniteSets

CONSTANTS
  Owner,     \* users
  Admin,     \* those who are administrators; nothing changes it
  Token,     \* rows of api_tokens
  Call,      \* slots for requests running at the same time
  Buffer,    \* capacity of the recorder's channel
  MaxUse     \* bound: verified uses in a behaviour

ASSUME TokensAssumption ==
  /\ Buffer \in Nat \ {0} /\ MaxUse \in Nat
  /\ Owner # {}   \* the server seeds an administrator before it serves
  /\ Admin \subseteq Owner

VARIABLES owner, token, call,
  queue,     \* the recorder's channel
  writing,   \* the use its goroutine has taken
  clock

recorderVars == <<queue, writing, clock>>
tokensVars == <<owner, token, call, recorderVars>>

Scope == {"read", "read_write"}

\* The operations of the registry that differ in what they ask of the caller, by
\* name.
Op == {"notes_get", "notes_update", "tokens_revoke", "tokens_revoke_all", "tokens_create",
       "auth_change_password", "admin_user_api_tokens"}

OwnerRow == [row: BOOLEAN, enabled: BOOLEAN, locked: BOOLEAN]

\* `used' is last_used_at.
TokenRow == [state: {"unused", "active", "expired", "revoked", "gone"},
             owner: Owner, scope: Scope, used: 0 .. MaxUse]

\* The locals of a request.  `may' is what its copy of the user row says.
\* History: `overtaken' when its token or its user was cut off after the check.
CallState == [at: {"idle", "user", "stamp", "send", "in", "revoke"}, bearer: BOOLEAN,
              mcp: BOOLEAN, token: Token \cup {"none"}, owner: Owner, may: BOOLEAN,
              scope: Scope, ts: 0 .. MaxUse, target: Token \cup {"none"},
              overtaken: BOOLEAN]

\* `late': a younger use is ahead of it in the channel or already written.
Use == [token: Token, ts: 1 .. MaxUse, late: BOOLEAN]
NoUse == <<>>

NoCall == [at |-> "idle", bearer |-> FALSE, mcp |-> FALSE, token |-> "none",
           owner |-> CHOOSE u \in Owner : TRUE, may |-> FALSE, scope |-> "read", ts |-> 0,
           target |-> "none", overtaken |-> FALSE]

TokensTypeOK ==
  /\ owner \in [Owner -> OwnerRow]
  /\ token \in [Token -> TokenRow]
  /\ call \in [Call -> CallState]
  /\ queue \in Seq(Use) /\ Len(queue) <= Buffer
  /\ writing \in Use \cup {NoUse}
  /\ clock \in 0 .. MaxUse
  /\ \A t \in Token : token[t].state \in {"active", "expired", "revoked"} => owner[token[t].owner].row

TokensInit ==
  /\ owner = [u \in Owner |-> [row |-> TRUE, enabled |-> FALSE, locked |-> FALSE]]
  /\ token = [t \in Token |-> [state |-> "unused", owner |-> NoCall.owner,
                               scope |-> "read", used |-> 0]]
  /\ call = [c \in Call |-> NoCall]
  /\ queue = <<>>
  /\ writing = NoUse
  /\ clock = 0

-----------------------------------------------------------------------------
(* Getting in.                                                             *)

MayHold(u) == owner[u].row /\ (u \in Admin \/ owner[u].enabled)
Entitled(u) == MayHold(u) /\ ~owner[u].locked

Started(c, s) == call[c].at = "idle" /\ call' = [call EXCEPT ![c] = s]
Over(c) == [call EXCEPT ![c] = NoCall]

\* RequireAuth with a cookie.
CookieAuth(c, u) ==
  /\ owner[u].row /\ ~owner[u].locked
  /\ Started(c, [NoCall EXCEPT !.at = "in", !.owner = u, !.may = MayHold(u),
                               !.scope = "read_write"])
  /\ UNCHANGED <<owner, token, recorderVars>>

\* Verify: the row of the token.  An unknown, revoked or expired one is
\* answered 401.
VerifyToken(c, t, mcp) ==
  /\ token[t].state = "active"
  /\ clock + Cardinality({d \in Call : call[d].at \in {"user", "stamp"}}) < MaxUse
  /\ Started(c, [NoCall EXCEPT !.at = "user", !.bearer = TRUE, !.mcp = mcp, !.token = t,
                               !.owner = token[t].owner, !.scope = token[t].scope])
  /\ UNCHANGED <<owner, token, recorderVars>>

\* Faulty variant: a locked account's tokens go on working.
VerifyOwner_NoLock(c) ==
  LET u == call[c].owner IN
  /\ call[c].at = "user"
  /\ call' = IF MayHold(u)
               THEN [call EXCEPT ![c].at = "stamp", ![c].may = TRUE] ELSE Over(c)
  /\ UNCHANGED <<owner, token, recorderVars>>

\* Verify: the row of its owner.
VerifyOwner(c) ==
  LET u == call[c].owner IN
  /\ call[c].at = "user"
  /\ call' = IF Entitled(u)
               THEN [call EXCEPT ![c].at = "stamp", ![c].may = TRUE] ELSE Over(c)
  /\ UNCHANGED <<owner, token, recorderVars>>

-----------------------------------------------------------------------------
(* The usage recorder.                                                     *)

\* Record reads the clock before it sends.
Stamp(c) ==
  /\ call[c].at = "stamp"
  /\ clock' = clock + 1
  /\ call' = [call EXCEPT ![c].at = "send", ![c].ts = clock + 1]
  /\ UNCHANGED <<owner, token, queue, writing>>

Pending == {queue[i] : i \in 1 .. Len(queue)} \cup ({writing} \ {NoUse})

IsLate(c) ==
  \/ token[call[c].token].used > call[c].ts
  \/ \E e \in Pending : e.token = call[c].token /\ e.ts > call[c].ts

UseOf(c) == [token |-> call[c].token, ts |-> call[c].ts, late |-> IsLate(c)]

\* Faulty variant: the buffer has no bound.
Send_Unbounded(c) ==
  /\ call[c].at = "send"
  /\ queue' = Append(queue, UseOf(c))
  /\ call' = [call EXCEPT ![c].at = "in", ![c].ts = 0]
  /\ UNCHANGED <<owner, token, writing, clock>>

\* A full channel drops the use; the request never waits.
Send(c) ==
  /\ call[c].at = "send"
  /\ queue' = IF Len(queue) < Buffer THEN Append(queue, UseOf(c)) ELSE queue
  /\ call' = [call EXCEPT ![c].at = "in", ![c].ts = 0]
  /\ UNCHANGED <<owner, token, writing, clock>>

\* The goroutine takes one use at a time.
TakeUse ==
  /\ queue # <<>> /\ writing = NoUse
  /\ writing' = Head(queue)
  /\ queue' = Tail(queue)
  /\ UNCHANGED <<owner, token, call, clock>>

\* UpdateLastUsed by id, whatever the row holds by now.
RecordUsage ==
  /\ writing # NoUse
  /\ token' = [token EXCEPT ![writing.token].used =
                 IF token[writing.token].state = "gone" THEN @ ELSE writing.ts]
  /\ writing' = NoUse
  /\ UNCHANGED <<owner, call, queue, clock>>

\* Faulty variant: a write that failed goes back into the channel.
RecordUsageFails_Requeue ==
  /\ writing # NoUse
  /\ queue' = Append(queue, writing)
  /\ writing' = NoUse
  /\ UNCHANGED <<owner, token, call, clock>>

\* The write fails or runs into its timeout: it is logged, the use is lost.
RecordUsageFails ==
  /\ writing # NoUse
  /\ writing' = NoUse
  /\ UNCHANGED <<owner, token, call, queue, clock>>

-----------------------------------------------------------------------------
(* What a request that is in may call.                                     *)

CookieOnly == {"tokens_create", "auth_change_password"}
AdminOnly  == {"admin_user_api_tokens"}
ReadScope  == {"notes_get", "auth_change_password"}

\* MCPOps: what a token can reach.
McpOps == Op \ (CookieOnly \cup AdminOnly)

\* Faulty variant: a replayed tool call has no flags in its context, which
\* passes for full access.
Permitted_NoFlags(c, op) ==
  /\ call[c].mcp => op \in McpOps
  /\ op \in CookieOnly => ~call[c].bearer
  /\ op \notin ReadScope => call[c].mcp \/ call[c].scope = "read_write"
  /\ op \in AdminOnly => call[c].owner \in Admin /\ ~call[c].bearer

\* cookieOnly, RequireWrite and RequireAdmin, and for MCP the list of tools.  A
\* tool call goes through the mux again with the context of the MCP request.
Permitted(c, op) ==
  /\ call[c].mcp => op \in McpOps
  /\ op \in CookieOnly => ~call[c].bearer
  /\ op \notin ReadScope => call[c].scope = "read_write"
  /\ op \in AdminOnly => call[c].owner \in Admin /\ ~call[c].bearer

Calls(c, op) == call[c].at = "in" /\ Permitted(c, op)

\* A batch goes on with its next call, any other request is over.
Answered(c) ==
  IF call[c].mcp THEN [call EXCEPT ![c].at = "in", ![c].target = "none"] ELSE Over(c)

\* A handler of another module has answered, the batch is at its end, or the
\* client has given up, which cancels the context.
Finish(c) ==
  /\ call[c].at \in {"user", "in", "revoke"}
  /\ call' = Over(c)
  /\ UNCHANGED <<owner, token, recorderVars>>

\* History: tokens T or the user u (or "none") are cut off while `next' are the
\* requests.  A request that has still to read the user's row will see it.
CutOff(T, u, next) ==
  call' = [c \in Call |->
    IF \/ next[c].token \in T
       \/ next[c].owner = u /\ next[c].at \notin {"idle", "user"}
      THEN [next[c] EXCEPT !.overtaken = TRUE] ELSE next[c]]

\* Faulty variant: every signed-in user may make tokens.
TokensCreate_AnyUser(c, t, scope) ==
  /\ Calls(c, "tokens_create")
  /\ owner[call[c].owner].row
  /\ token[t].state = "unused"
  /\ token' = [token EXCEPT ![t] = [state |-> "active", owner |-> call[c].owner,
                                    scope |-> scope, used |-> 0]]
  /\ call' = Answered(c)
  /\ UNCHANGED <<owner, recorderVars>>

\* Create goes by the user row the request came in with.
TokensCreate(c, t, scope) ==
  /\ Calls(c, "tokens_create")
  /\ call[c].may
  /\ owner[call[c].owner].row
  /\ token[t].state = "unused"
  /\ token' = [token EXCEPT ![t] = [state |-> "active", owner |-> call[c].owner,
                                    scope |-> scope, used |-> 0]]
  /\ call' = Answered(c)
  /\ UNCHANGED <<owner, recorderVars>>

Kept(t) == token[t].state \in {"active", "expired", "revoked"}
Revoked(T) == [t \in Token |-> IF t \in T /\ Kept(t) THEN [token[t] EXCEPT !.state = "revoked"]
                                                  ELSE token[t]]

\* FindByID and the check of the owner.
TokensRevokeFind(c, t) ==
  /\ Calls(c, "tokens_revoke")
  /\ Kept(t) /\ token[t].owner = call[c].owner
  /\ call' = [call EXCEPT ![c].at = "revoke", ![c].target = t]
  /\ UNCHANGED <<owner, token, recorderVars>>

TokensRevoke(c) ==
  /\ call[c].at = "revoke"
  /\ token' = Revoked({call[c].target})
  /\ CutOff({call[c].target}, "none", Answered(c))
  /\ UNCHANGED <<owner, recorderVars>>

TokensRevokeAll(c) ==
  LET T == {t \in Token : token[t].owner = call[c].owner} IN
  /\ Calls(c, "tokens_revoke_all")
  /\ token' = Revoked(T)
  /\ CutOff(T, "none", Answered(c))
  /\ UNCHANGED <<owner, recorderVars>>

\* The administrator's switch; for another administrator nobody looks at it.
\* The tokens stay as they are.
SetAPITokensEnabled(c, u, on) ==
  /\ Calls(c, "admin_user_api_tokens")
  /\ owner[u].row /\ u \notin Admin
  /\ owner' = [owner EXCEPT ![u].enabled = on]
  /\ CutOff({}, IF on THEN "none" ELSE u, Answered(c))
  /\ UNCHANGED <<token, recorderVars>>

-----------------------------------------------------------------------------
(* What happens around them: Accounts, time, and the end of the process.   *)

LockOwner(u) ==
  /\ owner[u].row /\ ~owner[u].locked
  /\ owner' = [owner EXCEPT ![u].locked = TRUE]
  /\ CutOff({}, u, call)
  /\ UNCHANGED <<token, recorderVars>>

UnlockOwner(u) ==
  /\ owner[u].locked
  /\ owner' = [owner EXCEPT ![u].locked = FALSE]
  /\ UNCHANGED <<token, call, recorderVars>>

\* The tokens go with the user (ON DELETE CASCADE).
DeleteOwner(u) ==
  /\ owner[u].row
  /\ owner' = [owner EXCEPT ![u] = [row |-> FALSE, enabled |-> FALSE, locked |-> FALSE]]
  /\ token' = [t \in Token |-> IF token[t].owner = u /\ Kept(t)
                  THEN [token[t] EXCEPT !.state = "gone", !.used = 0] ELSE token[t]]
  /\ CutOff({}, u, call)
  /\ UNCHANGED recorderVars

TokenExpires(t) ==
  /\ token[t].state = "active"
  /\ token' = [token EXCEPT ![t].state = "expired"]
  /\ CutOff({t}, "none", call)
  /\ UNCHANGED <<owner, recorderVars>>

\* Nobody calls the recorder's Stop: what is in the channel is lost.
ServerStops ==
  /\ call' = [c \in Call |-> NoCall]
  /\ queue' = <<>>
  /\ writing' = NoUse
  /\ UNCHANGED <<owner, token, clock>>

-----------------------------------------------------------------------------

CallNext(c) ==
  \/ \E u \in Owner : CookieAuth(c, u) \/ \E on \in BOOLEAN : SetAPITokensEnabled(c, u, on)
  \/ \E t \in Token :
       \/ \E mcp \in BOOLEAN : VerifyToken(c, t, mcp)
       \/ \E scope \in Scope : TokensCreate(c, t, scope)
       \/ TokensRevokeFind(c, t)
  \/ VerifyOwner(c) \/ Stamp(c) \/ Send(c)
  \/ TokensRevoke(c) \/ TokensRevokeAll(c) \/ Finish(c)

Drain == TakeUse \/ RecordUsage \/ RecordUsageFails

TokensNext ==
  \/ \E c \in Call : CallNext(c)
  \/ Drain
  \/ \E u \in Owner : LockOwner(u) \/ UnlockOwner(u) \/ DeleteOwner(u)
  \/ \E t \in Token : TokenExpires(t)
  \/ ServerStops

TokensSpec == TokensInit /\ [][TokensNext]_tokensVars

-----------------------------------------------------------------------------
(* Properties.                                                             *)

\* A token that is revoked or has expired, and the tokens and the session of a
\* user who is locked, deleted or no longer allowed tokens, get nothing more
\* done: only requests that were past the check go on, to their end.  For a
\* batch of tool calls (mcp/handler.go:129) that is all of its calls.
CutOffHolds ==
  \A c \in Call :
    LET u == call[c].owner IN
    call[c].at \notin {"idle", "user"} /\ ~call[c].overtaken =>
      /\ owner[u].row /\ ~owner[u].locked
      /\ call[c].may => MayHold(u)
      /\ call[c].bearer => token[call[c].token].state = "active" /\ Entitled(u)

\* The request c is past the middleware and is the one that takes this step.
Runs(c) == call[c].at \in {"in", "revoke"} /\ (call'[c] # call[c] \/ call[c].mcp)

\* The row of a token, and not what is left of it in a context, says what may be
\* done with it: with the scope `read' nothing is revoked, and nobody revokes the
\* tokens of another; tokens are made, and the permission to have them is
\* switched, without a token only.  So it is for every call of a batch, whose
\* context comes from one check, and for the second statement of a revocation,
\* which goes by the id alone (middleware.go:57, server.go:159-176,
\* tokens/service.go:171-180).
TokensActInScope ==
  [][/\ \A t \in Token : token[t].state # "revoked" /\ token'[t].state = "revoked" =>
          \E c \in Call :
            /\ Runs(c) /\ call[c].owner = token[t].owner
            /\ call[c].bearer => LET k == token[call[c].token] IN
                                  k.owner = token[t].owner /\ k.scope = "read_write"
     /\ \A t \in Token : token[t].state # "active" /\ token'[t].state = "active" =>
          \E c \in Call : Runs(c) /\ ~call[c].bearer /\ call[c].owner = token'[t].owner
     /\ \A u \in Owner : owner'[u].row /\ owner'[u].enabled # owner[u].enabled =>
          \E c \in Call : Runs(c) /\ ~call[c].bearer /\ call[c].owner \in Admin]_tokensVars

\* A token comes into being for a user who may hold one; who may not any more
\* gets one only out of a request that had come in before (service.go:76).
TokensNeedPermission ==
  [][\A t \in Token :
       token[t].state = "unused" /\ token'[t].state = "active" =>
         \/ MayHold(token'[t].owner)
         \/ \E c \in Call : call[c].owner = token'[t].owner /\ call[c].overtaken]_tokensVars

\* last_used_at goes back only to a use that was overtaken on its way into the
\* channel (usage_recorder.go:57 reads the clock before it sends).
LastUseAdvances ==
  [][\A t \in Token :
       token'[t].used < token[t].used /\ token'[t].state # "gone" =>
         writing # NoUse /\ writing.token = t /\ writing.late]_tokensVars

\* A use that found room in the channel is dealt with in the end: the recorder
\* survives failing writes and does not hold on to any of them.
UsesAreTaken == \A n \in 1 .. MaxUse : (\E e \in Pending : e.ts = n) ~> ~\E e \in Pending : e.ts = n
=============================================================================
