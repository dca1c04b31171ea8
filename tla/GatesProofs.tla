----------------------------- MODULE GatesProofs -----------------------------
(***************************************************************************)
(* Theorems about Tokens for every set of users, tokens and requests, any  *)
(* capacity of the channel and any number of uses.  A request that has not *)
(* been overtaken is as good as the rows it was let in by, and so are the  *)
(* uses on their way to last_used_at, which the channel keeps in order.    *)
(* At the end, the gates together: what is proved of each of the three is  *)
(* true of the specification MCGates runs.                                 *)
(***************************************************************************)
EXTENDS MCGates, RateLimitProofs, LockoutProofs

Waiting == {d \in Call : call[d].at \in {"user", "stamp"}}
MayHoldIn(own, u) == u \in Admin \/ own[u].enabled

\* What a request h says of the tables tok and own: once past the check and not
\* overtaken, that its owner and its token are still in order.
GoodIn(h, tok, own) ==
  /\ h.at \in {"user", "stamp", "send"} => h.bearer
  /\ h.at = "send" => h.ts >= 1
  /\ h.bearer => h.token \in Token /\ tok[h.token].state # "unused"
                 /\ tok[h.token].owner = h.owner
  /\ h.at = "user" /\ ~h.overtaken => tok[h.token].state = "active" \/ ~own[h.owner].row
  /\ h.at \notin {"idle", "user"} /\ ~h.overtaken =>
       /\ own[h.owner].row /\ ~own[h.owner].locked
       /\ h.may \/ h.bearer => MayHoldIn(own, h.owner)
       /\ h.bearer => tok[h.token].state = "active"

CallsInv == \A c \in Call : GoodIn(call[c], token, owner)
ClockInv == IsFiniteSet(Waiting) /\ clock + Cardinality(Waiting) <= MaxUse

\* A use that is not late is younger than what the row holds, than the use being
\* written and than those ahead of it in the channel.
UseInv ==
  /\ \A t \in Token : token[t].state = "unused" => token[t].used = 0
  /\ writing # NoUse => /\ token[writing.token].state # "unused"
                        /\ ~writing.late => token[writing.token].used <= writing.ts
  /\ \A i \in 1 .. Len(queue) : LET e == queue[i] IN
       /\ token[e.token].state # "unused"
       /\ ~e.late =>
            /\ token[e.token].used <= e.ts
            /\ writing # NoUse /\ writing.token = e.token => writing.ts <= e.ts
            /\ \A j \in 1 .. i - 1 : queue[j].token = e.token => queue[j].ts <= e.ts

TokensInv == TokensTypeOK /\ CallsInv /\ ClockInv /\ UseInv

\* The times a row may hold, for steps that do not count.
Ts == 0 .. MaxUse

-----------------------------------------------------------------------------
(* Requests.                                                               *)

LEMMA CallStateIs ==
  CallState = [at: {"idle", "user", "stamp", "send", "in", "revoke"}, bearer: BOOLEAN,
               mcp: BOOLEAN, token: Token \cup {"none"}, owner: Owner, may: BOOLEAN,
               scope: Scope, ts: Ts, target: Token \cup {"none"},
               overtaken: BOOLEAN]
  BY DEF CallState, Ts

LEMMA TokenRowIs ==
  TokenRow = [state: {"unused", "active", "expired", "revoked", "gone"},
              owner: Owner, scope: Scope, used: Ts]
  BY DEF TokenRow, Ts

LEMMA NoCallIsCall == NoCall \in CallState /\ NoCall.at = "idle" /\ ~NoCall.bearer
<1>1. NoCall.owner \in Owner
  BY TokensAssumption DEF NoCall
<1>2. 0 \in Ts
  BY TokensAssumption DEF Ts
<1> QED
  BY <1>1, <1>2, CallStateIs DEF NoCall, Scope

LEMMA NoCallIsGood == ASSUME NEW tok, NEW own PROVE GoodIn(NoCall, tok, own)
  BY NoCallIsCall DEF GoodIn

\* A request that goes on with the same rows.
LEMMA SameIsGood ==
  ASSUME NEW h \in CallState, GoodIn(h, token, owner),
         owner'[h.owner].row => owner[h.owner].row,
         h.bearer =>
           /\ token'[h.token].state # "unused" /\ token'[h.token].owner = token[h.token].owner
           /\ token[h.token].state = "active" =>
                token'[h.token].state = "active" \/ ~owner'[h.owner].row,
         h.at \notin {"idle", "user"} =>
           /\ owner'[h.owner].row = owner[h.owner].row
           /\ owner'[h.owner].locked => owner[h.owner].locked
           /\ owner[h.owner].enabled => owner'[h.owner].enabled
  PROVE  GoodIn(h, token', owner')
  BY DEF GoodIn, MayHoldIn

\* One that has been overtaken has only to hold a token that has been used.
LEMMA OvertakenIsGood ==
  ASSUME NEW h \in CallState, GoodIn(h, token, owner),
         h.bearer =>
           token'[h.token].state # "unused" /\ token'[h.token].owner = token[h.token].owner
  PROVE  LET g == [h EXCEPT !.overtaken = TRUE] IN
         g \in CallState /\ GoodIn(g, token', owner') /\ g.at = h.at
<1> DEFINE g == [h EXCEPT !.overtaken = TRUE]
<1>1. /\ g \in CallState /\ g.at = h.at /\ g.ts = h.ts /\ g.bearer = h.bearer /\ g.token = h.token
      /\ g.owner = h.owner /\ g.overtaken
  BY DEF CallState
<1> HIDE DEF g
<1>2. GoodIn(g, token', owner')
  BY <1>1 DEF GoodIn
<1> QED
  BY <1>1, <1>2 DEF g

\* The channel and the clock stay, no request begins to wait, last uses do not
\* grow and tokens that have been used stay so.
LEMMA KeepUses ==
  ASSUME TokensInv, UNCHANGED recorderVars,
         \A t \in Token : /\ token[t].state # "unused" => token'[t].state # "unused"
                          /\ token'[t].used <= token[t].used
                          /\ token'[t].state = "unused" => token'[t] = token[t],
         token' \in [Token -> TokenRow]
  PROVE  UseInv'
<1>1. /\ UNCHANGED <<queue, writing>> /\ queue \in Seq(Use) /\ writing \in Use \cup {NoUse}
  BY DEF recorderVars, TokensInv, TokensTypeOK
<1>2. \A e \in Use : e.token \in Token /\ e.ts \in Nat
  BY TokensAssumption DEF Use
<1>3. \A t \in Token : token'[t].used \in Nat /\ token[t].used \in Nat
  BY TokensAssumption DEF TokensInv, TokensTypeOK, TokenRow
<1>4. \A i \in 1 .. Len(queue) : queue[i] \in Use
  BY <1>1
<1> QED
  BY <1>1, <1>2, <1>3, <1>4, SMTT(30) DEF TokensInv, UseInv

LEMMA KeepClock ==
  ASSUME TokensInv, UNCHANGED clock, \A c \in Call : call'[c].at \in {"user", "stamp"}
                                                  => call[c].at \in {"user", "stamp"}
  PROVE  ClockInv'
<1>1. Waiting' \subseteq Waiting
  BY DEF Waiting
<1> QED
  BY <1>1, FS_Subset, FS_CardinalityType, TokensAssumption DEF TokensInv, TokensTypeOK, ClockInv

\* The step of one request that changes no table and does not begin to wait.
LEMMA KeepCall ==
  ASSUME TokensInv, UNCHANGED <<owner, token, recorderVars>>, NEW c \in Call, NEW h \in CallState,
         call' = [call EXCEPT ![c] = h], GoodIn(h, token, owner),
         h.at \in {"user", "stamp"} => call[c].at \in {"user", "stamp"}
  PROVE  TokensInv'
<1>1. call \in [Call -> CallState] /\ UNCHANGED <<queue, writing, clock>>
  BY DEF TokensInv, TokensTypeOK, recorderVars
<1>2. call' \in [Call -> CallState] /\ \A d \in Call : call'[d] = IF d = c THEN h ELSE call[d]
  BY <1>1
<1>3. TokensTypeOK'
  BY <1>1, <1>2 DEF TokensInv, TokensTypeOK
<1>4. CallsInv'
  BY <1>2 DEF TokensInv, CallsInv
<1>5. ClockInv'
  BY <1>1, <1>2, KeepClock
<1>6. UseInv'
  BY <1>1 DEF TokensInv, UseInv
<1> QED
  BY <1>3, <1>4, <1>5, <1>6 DEF TokensInv

-----------------------------------------------------------------------------
(* Getting in.                                                             *)

\* A request whose fields at and ts change.
LEMMA Moved ==
  ASSUME TokensInv, NEW c \in Call, NEW a \in {"idle", "user", "stamp", "send", "in", "revoke"},
         NEW n \in 0 .. MaxUse
  PROVE  LET h == [call[c] EXCEPT !.at = a, !.ts = n] IN
         /\ h \in CallState /\ h.at = a /\ h.ts = n /\ h.bearer = call[c].bearer
         /\ h.token = call[c].token /\ h.owner = call[c].owner /\ h.may = call[c].may
         /\ h.overtaken = call[c].overtaken
<1>1. call[c] \in CallState
  BY DEF TokensInv, TokensTypeOK
<1>2. n \in Ts
  BY DEF Ts
<1> QED
  BY <1>1, <1>2, CallStateIs

LEMMA KeepCookieAuth == ASSUME TokensInv, NEW c \in Call, NEW u \in Owner, CookieAuth(c, u) PROVE TokensInv'
<1> DEFINE h == [NoCall EXCEPT !.at = "in", !.owner = u, !.may = MayHold(u), !.scope = "read_write"]
<1>1. owner[u] \in OwnerRow
  BY DEF TokensInv, TokensTypeOK
<1>2. MayHold(u) \in BOOLEAN /\ (MayHold(u) => MayHoldIn(owner, u))
  BY <1>1 DEF MayHold, MayHoldIn, OwnerRow
<1>3. /\ h \in CallState /\ h.at = "in" /\ h.owner = u /\ h.may = MayHold(u) /\ ~h.bearer
  BY <1>2, NoCallIsCall DEF CallState, Scope
<1>4. /\ UNCHANGED <<owner, token, recorderVars>> /\ call' = [call EXCEPT ![c] = h]
      /\ owner[u].row /\ ~owner[u].locked
  BY DEF CookieAuth, Started
<1> HIDE DEF h
<1>5. GoodIn(h, token, owner)
  BY <1>2, <1>3, <1>4 DEF GoodIn
<1> QED
  BY <1>3, <1>4, <1>5, KeepCall

LEMMA KeepVerifyToken ==
  ASSUME TokensInv, NEW c \in Call, NEW t \in Token, NEW mcp \in BOOLEAN, VerifyToken(c, t, mcp)
  PROVE  TokensInv'
<1> DEFINE h == [NoCall EXCEPT !.at = "user", !.bearer = TRUE, !.mcp = mcp, !.token = t,
                               !.owner = token[t].owner, !.scope = token[t].scope]
<1>1. token[t].owner \in Owner /\ token[t].scope \in Scope
  BY DEF TokensInv, TokensTypeOK, TokenRow
<1>2. h \in CallState /\ h.at = "user" /\ h.bearer /\ h.token = t /\ h.owner = token[t].owner
  BY <1>1, NoCallIsCall DEF CallState
<1>3. /\ UNCHANGED <<owner, token, recorderVars>> /\ call' = [call EXCEPT ![c] = h]
      /\ token[t].state = "active" /\ call[c].at = "idle"
      /\ clock + Cardinality(Waiting) < MaxUse
  BY DEF VerifyToken, Started, Waiting
<1> HIDE DEF h
<1>4. call \in [Call -> CallState] /\ UNCHANGED <<queue, writing, clock>>
  BY <1>3 DEF TokensInv, TokensTypeOK, recorderVars
<1>5. GoodIn(h, token, owner)
  BY <1>2, <1>3 DEF GoodIn
<1>6. call' \in [Call -> CallState] /\ \A d \in Call : call'[d] = IF d = c THEN h ELSE call[d]
  BY <1>2, <1>3, <1>4
<1>7. TokensTypeOK' /\ UseInv'
  BY <1>3, <1>4, <1>6 DEF TokensInv, TokensTypeOK, UseInv
<1>8. CallsInv'
  BY <1>3, <1>5, <1>6 DEF TokensInv, CallsInv
<1>9. ClockInv'
  <2>1. Waiting' = Waiting \cup {c} /\ c \notin Waiting
    BY <1>2, <1>3, <1>6 DEF Waiting
  <2>2. /\ IsFiniteSet(Waiting \cup {c}) /\ Cardinality(Waiting \cup {c}) = Cardinality(Waiting) + 1
        /\ Cardinality(Waiting) \in Nat
    BY <2>1, FS_AddElement, FS_CardinalityType DEF TokensInv, ClockInv
  <2> QED
    BY <1>3, <1>4, <2>1, <2>2, TokensAssumption DEF TokensInv, TokensTypeOK, ClockInv
<1> QED
  BY <1>7, <1>8, <1>9 DEF TokensInv

LEMMA KeepVerifyOwner == ASSUME TokensInv, NEW c \in Call, VerifyOwner(c) PROVE TokensInv'
<1> DEFINE u == call[c].owner
           h == [call[c] EXCEPT !.at = "stamp", !.may = TRUE]
<1>1. call[c] \in CallState /\ GoodIn(call[c], token, owner) /\ call \in [Call -> CallState]
  BY DEF TokensInv, TokensTypeOK, CallsInv
<1>2. /\ h \in CallState /\ h.at = "stamp" /\ h.bearer = call[c].bearer
      /\ h.token = call[c].token /\ h.owner = u /\ h.overtaken = call[c].overtaken
  BY <1>1 DEF CallState
<1>3. /\ UNCHANGED <<owner, token, recorderVars>> /\ call[c].at = "user"
      /\ call' = IF Entitled(u) THEN [call EXCEPT ![c] = h] ELSE [call EXCEPT ![c] = NoCall]
  BY <1>1 DEF VerifyOwner, Over
<1> HIDE DEF h
<1>4. Entitled(u) => owner[u].row /\ ~owner[u].locked /\ MayHoldIn(owner, u)
  BY DEF Entitled, MayHold, MayHoldIn
<1>5. Entitled(u) => GoodIn(h, token, owner)
  BY <1>1, <1>2, <1>3, <1>4 DEF GoodIn
<1> QED
  BY <1>2, <1>3, <1>5, KeepCall, NoCallIsCall, NoCallIsGood

-----------------------------------------------------------------------------
(* The recorder.                                                           *)

LEMMA KeepStamp == ASSUME TokensInv, NEW c \in Call, Stamp(c) PROVE TokensInv'
<1> DEFINE n == clock + 1
           h == [call[c] EXCEPT !.at = "send", !.ts = n]
<1>1. /\ call[c] \in CallState /\ GoodIn(call[c], token, owner) /\ call \in [Call -> CallState]
      /\ clock \in 0 .. MaxUse /\ MaxUse \in Nat
  BY TokensAssumption DEF TokensInv, TokensTypeOK, CallsInv
<1>2. /\ UNCHANGED <<owner, token, queue, writing>> /\ call[c].at = "stamp" /\ clock' = n
      /\ call' = [call EXCEPT ![c] = h]
  BY <1>1 DEF Stamp
<1>3. /\ IsFiniteSet(Waiting \ {c}) /\ Cardinality(Waiting \ {c}) = Cardinality(Waiting) - 1
      /\ Cardinality(Waiting \ {c}) \in Nat /\ Cardinality(Waiting) \in Nat
  <2>1. c \in Waiting /\ IsFiniteSet(Waiting)
    BY <1>2 DEF Waiting, TokensInv, ClockInv
  <2> QED
    BY <2>1, FS_RemoveElement, FS_CardinalityType
<1>4. n \in 0 .. MaxUse /\ n >= 1 /\ n + Cardinality(Waiting \ {c}) <= MaxUse
  BY <1>1, <1>3 DEF TokensInv, ClockInv
<1>5. /\ h \in CallState /\ h.at = "send" /\ h.ts = n /\ h.bearer = call[c].bearer
      /\ h.token = call[c].token /\ h.owner = call[c].owner /\ h.may = call[c].may
      /\ h.overtaken = call[c].overtaken
  <2> HIDE DEF n
  <2> QED
    BY <1>4, Moved, ZenonT(60)
<1> HIDE DEF h, n
<1>6. call' \in [Call -> CallState] /\ \A d \in Call : call'[d] = IF d = c THEN h ELSE call[d]
  BY <1>1, <1>2, <1>5
<1>7. GoodIn(h, token, owner)
  BY <1>1, <1>2, <1>4, <1>5 DEF GoodIn
<1>8. CallsInv'
  BY <1>2, <1>6, <1>7 DEF TokensInv, CallsInv
<1>9. TokensTypeOK' /\ UseInv'
  BY <1>2, <1>4, <1>6 DEF TokensInv, TokensTypeOK, UseInv
<1>10. Waiting' = Waiting \ {c}
  BY <1>5, <1>6 DEF Waiting
<1>11. ClockInv'
  BY <1>2, <1>3, <1>4, <1>10 DEF ClockInv
<1> QED
  BY <1>8, <1>9, <1>11 DEF TokensInv

\* A use goes behind all that are in the channel, and knows whether it is late.
LEMMA KeepSend == ASSUME TokensInv, NEW c \in Call, Send(c) PROVE TokensInv'
<1> DEFINE h == [call[c] EXCEPT !.at = "in", !.ts = 0]
           e == UseOf(c)
<1>1. /\ call[c] \in CallState /\ GoodIn(call[c], token, owner) /\ call \in [Call -> CallState]
      /\ queue \in Seq(Use) /\ Len(queue) <= Buffer /\ writing \in Use \cup {NoUse}
      /\ Buffer \in Nat /\ MaxUse \in Nat
  BY TokensAssumption DEF TokensInv, TokensTypeOK, CallsInv
<1>2. /\ UNCHANGED <<owner, token, writing, clock>> /\ call[c].at = "send"
      /\ call' = [call EXCEPT ![c] = h]
      /\ queue' = IF Len(queue) < Buffer THEN Append(queue, e) ELSE queue
  BY <1>1 DEF Send
<1>3. /\ h \in CallState /\ h.at = "in" /\ h.ts = 0 /\ h.bearer = call[c].bearer
      /\ h.token = call[c].token /\ h.owner = call[c].owner /\ h.may = call[c].may
      /\ h.overtaken = call[c].overtaken
  <2>1. 0 \in 0 .. MaxUse
    BY <1>1
  <2> QED
    BY <2>1, Moved, ZenonT(60)
<1> HIDE DEF h
<1>4. GoodIn(h, token, owner)
  BY <1>1, <1>2, <1>3 DEF GoodIn
<1>5. call' \in [Call -> CallState] /\ \A d \in Call : call'[d] = IF d = c THEN h ELSE call[d]
  BY <1>1, <1>2, <1>3
<1>6. /\ e \in Use /\ e.token = call[c].token /\ e.ts = call[c].ts /\ e.token \in Token
      /\ token[e.token].state # "unused" /\ e.late = IsLate(c)
  <2>1. call[c].ts \in 1 .. MaxUse /\ call[c].token \in Token /\ token[call[c].token].state # "unused"
    BY <1>1, <1>2 DEF GoodIn, CallState
  <2>2. IsLate(c) \in BOOLEAN
    BY DEF IsLate
  <2> QED
    BY <2>1, <2>2 DEF UseOf, Use
<1>7. ~e.late => /\ ~(token[e.token].used > e.ts)
                 /\ \A f \in Pending : f.token = e.token => ~(f.ts > e.ts)
  BY <1>6 DEF IsLate
<1> HIDE DEF e
<1>8. /\ e.ts \in Nat /\ token[e.token].used \in Nat
      /\ \A f \in Use : f.ts \in Nat /\ f.token \in Token
      /\ \A t \in Token : token[t].used \in Nat
  BY <1>1, <1>6 DEF TokensInv, TokensTypeOK, TokenRow, Use
<1>9. ~e.late => /\ token[e.token].used <= e.ts
                 /\ writing # NoUse /\ writing.token = e.token => writing.ts <= e.ts
                 /\ \A j \in 1 .. Len(queue) : queue[j].token = e.token => queue[j].ts <= e.ts
  <2>1. \A j \in 1 .. Len(queue) : queue[j] \in Pending /\ queue[j] \in Use
    BY <1>1 DEF Pending
  <2>2. writing # NoUse => writing \in Pending /\ writing \in Use
    BY <1>1 DEF Pending
  <2> QED
    BY <1>7, <1>8, <2>1, <2>2
<1>10. TokensTypeOK'
  <2>1. queue' \in Seq(Use) /\ Len(queue') <= Buffer
    BY <1>1, <1>2, <1>6
  <2> QED
    BY <1>2, <1>5, <2>1 DEF TokensInv, TokensTypeOK
<1>11. CallsInv'
  BY <1>2, <1>4, <1>5 DEF TokensInv, CallsInv
<1>12. ClockInv'
  BY <1>2, <1>3, <1>5, KeepClock
<1>13. UseInv'
  <2>1. CASE queue' = queue
    BY <1>2, <2>1 DEF TokensInv, UseInv
  <2>2. CASE queue' = Append(queue, e)
    <3>1. /\ Len(queue') = Len(queue) + 1 /\ queue'[Len(queue) + 1] = e /\ Len(queue) \in Nat
          /\ \A i \in 1 .. Len(queue) : queue'[i] = queue[i]
      BY <1>1, <1>6, <2>2
    <3> SUFFICES ASSUME NEW i \in 1 .. Len(queue')
                 PROVE  /\ token[queue'[i].token].state # "unused"
                        /\ ~queue'[i].late =>
                             /\ token[queue'[i].token].used <= queue'[i].ts
                             /\ writing # NoUse /\ writing.token = queue'[i].token
                                  => writing.ts <= queue'[i].ts
                             /\ \A j \in 1 .. i - 1 : queue'[j].token = queue'[i].token
                                                        => queue'[j].ts <= queue'[i].ts
      BY <1>2 DEF TokensInv, UseInv
    <3>2. CASE i = Len(queue) + 1
      BY <1>6, <1>9, <3>1, <3>2
    <3>3. CASE i \in 1 .. Len(queue)
      <4>1. queue'[i] = queue[i] /\ \A j \in 1 .. i - 1 : queue'[j] = queue[j]
        BY <3>1, <3>3
      <4> QED
        BY <3>3, <4>1 DEF TokensInv, UseInv
    <3> QED
      BY <3>1, <3>2, <3>3
  <2> QED
    BY <1>2, <2>1, <2>2
<1> QED
  BY <1>10, <1>11, <1>12, <1>13 DEF TokensInv

LEMMA KeepTakeUse == ASSUME TokensInv, TakeUse PROVE TokensInv'
<1>1. /\ queue # <<>> /\ writing = NoUse /\ writing' = Head(queue) /\ queue' = Tail(queue)
      /\ UNCHANGED <<owner, token, call, clock>> /\ queue \in Seq(Use) /\ Len(queue) <= Buffer
      /\ Buffer \in Nat
  BY TokensAssumption DEF TakeUse, TokensInv, TokensTypeOK
<1>2. /\ writing' = queue[1] /\ 1 \in 1 .. Len(queue) /\ writing' \in Use
      /\ queue' \in Seq(Use) /\ Len(queue') = Len(queue) - 1 /\ Len(queue) \in Nat
      /\ \A i \in 1 .. Len(queue') : queue'[i] = queue[i + 1] /\ i + 1 \in 1 .. Len(queue)
  BY <1>1
<1>3. TokensTypeOK'
  BY <1>1, <1>2 DEF TokensInv, TokensTypeOK
<1>4. CallsInv' /\ ClockInv'
  BY <1>1 DEF TokensInv, CallsInv, ClockInv, Waiting
<1>5. UseInv'
  <2>1. \A i \in 1 .. Len(queue') :
          /\ token[queue'[i].token].state # "unused"
          /\ ~queue'[i].late =>
               /\ token[queue'[i].token].used <= queue'[i].ts
               /\ queue[1].token = queue'[i].token => queue[1].ts <= queue'[i].ts
               /\ \A j \in 1 .. i - 1 : queue'[j].token = queue'[i].token
                                          => queue'[j].ts <= queue'[i].ts
    <3> SUFFICES ASSUME NEW i \in 1 .. Len(queue')
                 PROVE  /\ token[queue'[i].token].state # "unused"
                        /\ ~queue'[i].late =>
                             /\ token[queue'[i].token].used <= queue'[i].ts
                             /\ queue[1].token = queue'[i].token => queue[1].ts <= queue'[i].ts
                             /\ \A j \in 1 .. i - 1 : queue'[j].token = queue'[i].token
                                                        => queue'[j].ts <= queue'[i].ts
      OBVIOUS
    <3> DEFINE k == i + 1
    <3>1. /\ k \in 1 .. Len(queue) /\ queue'[i] = queue[k] /\ 1 \in 1 .. k - 1
          /\ \A j \in 1 .. i - 1 : j + 1 \in 1 .. k - 1 /\ queue'[j] = queue[j + 1]
      BY <1>2
    <3> HIDE DEF k
    <3> QED
      BY <3>1 DEF TokensInv, UseInv
  <2>2. /\ token[queue[1].token].state # "unused"
        /\ ~queue[1].late => token[queue[1].token].used <= queue[1].ts
    BY <1>2 DEF TokensInv, UseInv
  <2> QED
    BY <1>1, <1>2, <2>1, <2>2 DEF TokensInv, UseInv
<1> QED
  BY <1>3, <1>4, <1>5 DEF TokensInv

\* The row takes the time of the use being written: those behind it that are not
\* late are younger.
LEMMA KeepRecordUsage == ASSUME TokensInv, RecordUsage PROVE TokensInv'
<1> DEFINE t == writing.token
           n == [token[t] EXCEPT !.used = IF token[t].state = "gone" THEN @ ELSE writing.ts]
<1>1. /\ writing # NoUse /\ writing \in Use /\ writing' = NoUse /\ UNCHANGED <<owner, call, queue, clock>>
      /\ token \in [Token -> TokenRow] /\ queue \in Seq(Use) /\ MaxUse \in Nat
  BY TokensAssumption DEF RecordUsage, TokensInv, TokensTypeOK
<1>2. t \in Token /\ writing.ts \in 1 .. MaxUse
  BY <1>1 DEF Use
<1>3. /\ token' = [token EXCEPT ![t] = n]
      /\ n.state = token[t].state /\ n.owner = token[t].owner
      /\ n.used \in {token[t].used, writing.ts}
      /\ n \in TokenRow
  <2>1. token[t] \in TokenRow /\ writing.ts \in Ts
    BY <1>1, <1>2 DEF Ts
  <2> QED
    BY <2>1, TokenRowIs DEF RecordUsage
<1> HIDE DEF n
<1>4. /\ token' \in [Token -> TokenRow]
      /\ \A s \in Token : /\ token'[s].state = token[s].state /\ token'[s].owner = token[s].owner
                          /\ s # t => token'[s] = token[s]
  BY <1>1, <1>2, <1>3
<1>5. TokensTypeOK'
  BY <1>1, <1>4 DEF TokensInv, TokensTypeOK
<1>6. CallsInv'
  <2> SUFFICES ASSUME NEW c \in Call PROVE GoodIn(call[c], token', owner')
    BY <1>1 DEF CallsInv
  <2>1. call[c] \in CallState /\ GoodIn(call[c], token, owner)
    BY DEF TokensInv, TokensTypeOK, CallsInv
  <2> QED
    BY <1>1, <1>4, <2>1, SameIsGood DEF GoodIn
<1>7. ClockInv'
  BY <1>1 DEF TokensInv, ClockInv, Waiting
<1>8. UseInv'
  <2>1. \A i \in 1 .. Len(queue) : queue[i] \in Use /\ queue[i].token \in Token
    <3>1. \A e \in Use : e.token \in Token
      BY DEF Use
    <3> QED
      BY <1>1, <3>1
  <2>2. \A i \in 1 .. Len(queue) :
          /\ token'[queue[i].token].state # "unused"
          /\ ~queue[i].late => token'[queue[i].token].used <= queue[i].ts
    <3> SUFFICES ASSUME NEW i \in 1 .. Len(queue)
                 PROVE  /\ token'[queue[i].token].state # "unused"
                        /\ ~queue[i].late => token'[queue[i].token].used <= queue[i].ts
      OBVIOUS
    <3>1. /\ token[queue[i].token].state # "unused"
          /\ ~queue[i].late => token[queue[i].token].used <= queue[i].ts
          /\ ~queue[i].late /\ t = queue[i].token => writing.ts <= queue[i].ts
      BY <1>1 DEF TokensInv, UseInv
    <3>2. token'[t] = n
      BY <1>1, <1>2, <1>3
    <3> QED
      BY <1>3, <1>4, <2>1, <3>1, <3>2
  <2>3. token[t].state # "unused"
    BY <1>1 DEF TokensInv, UseInv
  <2>4. \A s \in Token : token'[s].state = "unused" => token'[s].used = 0
    BY <1>4, <2>3 DEF TokensInv, UseInv
  <2>5. /\ writing' = NoUse /\ queue' = queue
        /\ \A i \in 1 .. Len(queue) : ~queue[i].late =>
             \A j \in 1 .. i - 1 : queue[j].token = queue[i].token => queue[j].ts <= queue[i].ts
    BY <1>1 DEF TokensInv, UseInv
  <2> HIDE DEF t
  <2> QED
    BY <2>2, <2>4, <2>5 DEF UseInv
<1> QED
  BY <1>5, <1>6, <1>7, <1>8 DEF TokensInv

LEMMA KeepRecordUsageFails == ASSUME TokensInv, RecordUsageFails PROVE TokensInv'
<1>1. writing' = NoUse /\ UNCHANGED <<owner, token, call, queue, clock>>
  BY DEF RecordUsageFails
<1> QED
  BY <1>1 DEF TokensInv, TokensTypeOK, CallsInv, ClockInv, Waiting, UseInv

-----------------------------------------------------------------------------
(* Calls, and what cuts them off.                                          *)

\* A step that cuts off the tokens T and the user u: it leaves the rows that
\* other requests were let in by as they are, or better.
LEMMA KeepCut ==
  ASSUME TokensInv, NEW T, NEW u, NEW next \in [Call -> CallState], CutOff(T, u, next),
         \A d \in Call : /\ GoodIn(next[d], token, owner)
                         /\ next[d].at \in {"user", "stamp"} => call[d].at \in {"user", "stamp"},
         owner' \in [Owner -> OwnerRow], token' \in [Token -> TokenRow], UNCHANGED recorderVars,
         \A w \in Owner : owner'[w].row => owner[w].row,
         \A w \in Owner \ {u} : /\ owner'[w].row = owner[w].row
                                /\ owner'[w].locked => owner[w].locked
                                /\ owner[w].enabled => owner'[w].enabled,
         \A t \in Token :
           /\ token[t].state # "unused" =>
                token'[t].state # "unused" /\ token'[t].owner = token[t].owner
           /\ token'[t].used <= token[t].used
           /\ token'[t].state = "unused" => token'[t] = token[t]
           /\ token[t].state = "active" =>
                token'[t].state = "active" \/ t \in T \/ (token[t].owner = u /\ ~owner'[u].row)
           /\ token'[t].state \in {"active", "expired", "revoked"} => owner'[token'[t].owner].row
  PROVE  TokensInv'
<1> DEFINE Cuts(h) == h.token \in T \/ (h.owner = u /\ h.at \notin {"idle", "user"})
<1>1. \A d \in Call : /\ next[d] \in CallState
                      /\ call'[d] = IF Cuts(next[d]) THEN [next[d] EXCEPT !.overtaken = TRUE]
                                                     ELSE next[d]
  BY DEF CutOff
<1>2. \A d \in Call : /\ call'[d] \in CallState /\ GoodIn(call'[d], token', owner')
                      /\ call'[d].at = next[d].at
  <2> SUFFICES ASSUME NEW d \in Call
               PROVE  /\ call'[d] \in CallState /\ GoodIn(call'[d], token', owner')
                      /\ call'[d].at = next[d].at
    OBVIOUS
  <2> DEFINE h == next[d]
  <2>1. h \in CallState /\ GoodIn(h, token, owner) /\ h.owner \in Owner
    BY <1>1 DEF CallState
  <2>2. h.bearer => /\ h.token \in Token /\ token[h.token].state # "unused"
                    /\ token[h.token].owner = h.owner
    BY <2>1 DEF GoodIn
  <2>3. call'[d] = IF Cuts(h) THEN [h EXCEPT !.overtaken = TRUE] ELSE h
    BY <1>1
  <2> HIDE DEF h
  <2>4. CASE Cuts(h)
    BY <2>1, <2>2, <2>3, <2>4, OvertakenIsGood DEF h
  <2>5. CASE ~Cuts(h)
    <3>1. GoodIn(h, token', owner')
      BY <2>1, <2>2, <2>5, SameIsGood
    <3> QED
      BY <2>1, <2>3, <2>5, <3>1 DEF h
  <2> QED
    BY <2>4, <2>5
<1>3. call' \in [Call -> CallState]
  <2>1. DOMAIN call' = Call /\ call' = [d \in Call |-> call'[d]]
    BY DEF CutOff
  <2> QED
    BY <1>2, <2>1
<1>4. TokensTypeOK'
  BY <1>3 DEF TokensInv, TokensTypeOK, recorderVars
<1>5. CallsInv'
  BY <1>2 DEF CallsInv
<1>6. ClockInv'
  BY <1>2, KeepClock DEF recorderVars
<1>7. UseInv'
  BY KeepUses
<1> QED
  BY <1>4, <1>5, <1>6, <1>7 DEF TokensInv

\* A request that has answered one call.
LEMMA AnsweredIsGood ==
  ASSUME TokensInv, NEW c \in Call, call[c].at \in {"in", "revoke"}
  PROVE  /\ Answered(c) \in [Call -> CallState]
         /\ \A d \in Call : /\ GoodIn(Answered(c)[d], token, owner)
                            /\ Answered(c)[d].at \in {"user", "stamp"}
                                 => call[d].at \in {"user", "stamp"}
<1> DEFINE h == [call[c] EXCEPT !.at = "in", !.target = "none"]
<1>1. call \in [Call -> CallState] /\ \A d \in Call : GoodIn(call[d], token, owner)
  BY DEF TokensInv, TokensTypeOK, CallsInv
<1>2. /\ h \in CallState /\ h.at = "in" /\ h.ts = call[c].ts /\ h.bearer = call[c].bearer
      /\ h.token = call[c].token /\ h.owner = call[c].owner /\ h.may = call[c].may
      /\ h.overtaken = call[c].overtaken
  BY <1>1, CallStateIs, ZenonT(60)
<1>3. Answered(c) = [call EXCEPT ![c] = IF call[c].mcp THEN h ELSE NoCall]
  BY <1>1 DEF Answered, Over
<1> HIDE DEF h
<1>4. GoodIn(h, token, owner)
  BY <1>1, <1>2 DEF GoodIn
<1> DEFINE g == IF call[c].mcp THEN h ELSE NoCall
<1>5. g \in CallState /\ GoodIn(g, token, owner) /\ g.at \notin {"user", "stamp"}
  BY <1>2, <1>4, NoCallIsCall, NoCallIsGood
<1> HIDE DEF g
<1> QED
  BY <1>1, <1>3, <1>5 DEF g

LEMMA KeepFinish == ASSUME TokensInv, NEW c \in Call, Finish(c) PROVE TokensInv'
  BY KeepCall, NoCallIsCall, NoCallIsGood DEF Finish, Over

LEMMA KeepRevokeFind ==
  ASSUME TokensInv, NEW c \in Call, NEW t \in Token, TokensRevokeFind(c, t) PROVE TokensInv'
<1> DEFINE h == [call[c] EXCEPT !.at = "revoke", !.target = t]
<1>1. call[c] \in CallState /\ GoodIn(call[c], token, owner) /\ call \in [Call -> CallState]
  BY DEF TokensInv, TokensTypeOK, CallsInv
<1>2. /\ h \in CallState /\ h.at = "revoke" /\ h.ts = call[c].ts /\ h.bearer = call[c].bearer
      /\ h.token = call[c].token /\ h.owner = call[c].owner /\ h.may = call[c].may
      /\ h.overtaken = call[c].overtaken
  BY <1>1, CallStateIs
<1>3. /\ UNCHANGED <<owner, token, recorderVars>> /\ call' = [call EXCEPT ![c] = h]
      /\ call[c].at = "in"
  BY <1>1 DEF TokensRevokeFind, Calls
<1> HIDE DEF h
<1>4. GoodIn(h, token, owner)
  BY <1>1, <1>2, <1>3 DEF GoodIn
<1> QED
  BY <1>2, <1>3, <1>4, KeepCall

\* What revoking the tokens T makes of the rows.
LEMMA RevokedRows ==
  ASSUME TokensInv, NEW T, token' = Revoked(T), UNCHANGED owner
  PROVE  /\ token' \in [Token -> TokenRow] /\ owner' \in [Owner -> OwnerRow]
         /\ \A t \in Token :
              /\ token[t].state # "unused" =>
                   token'[t].state # "unused" /\ token'[t].owner = token[t].owner
              /\ token'[t].used <= token[t].used
              /\ token'[t].state = "unused" => token'[t] = token[t]
              /\ token[t].state = "active" => token'[t].state = "active" \/ t \in T
              /\ token'[t].state \in {"active", "expired", "revoked"} => owner'[token'[t].owner].row
<1>1. token \in [Token -> TokenRow] /\ owner \in [Owner -> OwnerRow] /\ MaxUse \in Nat
  BY TokensAssumption DEF TokensInv, TokensTypeOK
<1>2. \A t \in Token : LET n == [token[t] EXCEPT !.state = "revoked"] IN
        n \in TokenRow /\ n.state = "revoked" /\ n.owner = token[t].owner /\ n.used = token[t].used
  BY <1>1, TokenRowIs
<1>3. \A t \in Token :
        \/ token'[t] = token[t] /\ (token[t].state = "active" => t \notin T)
        \/ t \in T /\ Kept(t) /\ token'[t] = [token[t] EXCEPT !.state = "revoked"]
  BY <1>1 DEF Revoked, Kept
<1>4. token' \in [Token -> TokenRow]
  BY <1>1, <1>2 DEF Revoked
<1>5. \A t \in Token : token[t].used \in Nat
  BY <1>1 DEF TokenRow
<1>6. \A t \in Token : Kept(t) => owner[token[t].owner].row
  BY DEF Kept, TokensInv, TokensTypeOK
<1>7. ASSUME NEW t \in Token
      PROVE  /\ token[t].state # "unused" =>
                  token'[t].state # "unused" /\ token'[t].owner = token[t].owner
             /\ token'[t].used <= token[t].used
             /\ token'[t].state = "unused" => token'[t] = token[t]
             /\ token[t].state = "active" => token'[t].state = "active" \/ t \in T
             /\ token'[t].state \in {"active", "expired", "revoked"} => owner[token'[t].owner].row
  <2>1. CASE token'[t] = token[t]
    BY <1>5, <1>6, <2>1 DEF Kept
  <2>2. CASE t \in T /\ Kept(t) /\ token'[t] = [token[t] EXCEPT !.state = "revoked"]
    <3>1. /\ token'[t].state = "revoked" /\ token'[t].owner = token[t].owner
          /\ token'[t].used = token[t].used
      BY <1>2, <2>2
    <3> QED
      BY <1>5, <1>6, <2>2, <3>1
  <2> QED
    BY <1>3, <2>1, <2>2
<1> QED
  BY <1>1, <1>4, <1>7

LEMMA KeepRevoke ==
  ASSUME TokensInv, NEW c \in Call, NEW T, call[c].at \in {"in", "revoke"}, token' = Revoked(T),
         CutOff(T, "none", Answered(c)), UNCHANGED <<owner, recorderVars>>
  PROVE  TokensInv'
<1>1. /\ token' \in [Token -> TokenRow] /\ owner' \in [Owner -> OwnerRow]
      /\ \A t \in Token :
           /\ token[t].state # "unused" =>
                token'[t].state # "unused" /\ token'[t].owner = token[t].owner
           /\ token'[t].used <= token[t].used
           /\ token'[t].state = "unused" => token'[t] = token[t]
           /\ token[t].state = "active" => token'[t].state = "active" \/ t \in T
           /\ token'[t].state \in {"active", "expired", "revoked"} => owner'[token'[t].owner].row
  BY RevokedRows
<1> QED
  BY <1>1, AnsweredIsGood, KeepCut

LEMMA KeepTokensRevoke == ASSUME TokensInv, NEW c \in Call, TokensRevoke(c) PROVE TokensInv'
  BY KeepRevoke DEF TokensRevoke

LEMMA KeepTokensRevokeAll == ASSUME TokensInv, NEW c \in Call, TokensRevokeAll(c) PROVE TokensInv'
<1> DEFINE T == {t \in Token : token[t].owner = call[c].owner}
<1>1. /\ call[c].at = "in" /\ token' = Revoked(T) /\ CutOff(T, "none", Answered(c))
      /\ UNCHANGED <<owner, recorderVars>>
  BY DEF TokensRevokeAll, Calls
<1> HIDE DEF T
<1> QED
  BY <1>1, KeepRevoke

\* A step that leaves the tokens alone.
LEMMA SameTokens ==
  ASSUME TokensInv, UNCHANGED token, owner' \in [Owner -> OwnerRow],
         \A w \in Owner : owner'[w].row = owner[w].row
  PROVE  /\ token' \in [Token -> TokenRow]
         /\ \A t \in Token :
              /\ token'[t].used <= token[t].used
              /\ token'[t].state \in {"active", "expired", "revoked"} => owner'[token'[t].owner].row
<1>1. token \in [Token -> TokenRow] /\ MaxUse \in Nat
  BY TokensAssumption DEF TokensInv, TokensTypeOK
<1>2. \A t \in Token : token[t].used \in Nat /\ token[t].owner \in Owner
  BY <1>1 DEF TokenRow
<1> QED
  BY <1>1, <1>2 DEF TokensInv, TokensTypeOK

LEMMA KeepSwitch ==
  ASSUME TokensInv, NEW c \in Call, NEW u \in Owner, NEW on \in BOOLEAN, SetAPITokensEnabled(c, u, on)
  PROVE  TokensInv'
<1> DEFINE n == [owner[u] EXCEPT !.enabled = on]
           cut == IF on THEN "none" ELSE u
<1>1. owner \in [Owner -> OwnerRow]
  BY DEF TokensInv, TokensTypeOK
<1>2. n \in OwnerRow /\ n.row = owner[u].row /\ n.locked = owner[u].locked /\ n.enabled = on
  BY <1>1 DEF OwnerRow
<1>3. /\ call[c].at = "in" /\ owner' = [owner EXCEPT ![u] = n]
      /\ CutOff({}, cut, Answered(c)) /\ UNCHANGED <<token, recorderVars>>
  BY <1>1 DEF SetAPITokensEnabled, Calls
<1> HIDE DEF n
<1>4. /\ owner' \in [Owner -> OwnerRow]
      /\ \A w \in Owner : /\ owner'[w].row = owner[w].row /\ owner'[w].locked = owner[w].locked
                          /\ w # cut /\ owner[w].enabled => owner'[w].enabled
  BY <1>1, <1>2, <1>3
<1>5. /\ token' \in [Token -> TokenRow]
      /\ \A t \in Token :
           /\ token'[t].used <= token[t].used
           /\ token'[t].state \in {"active", "expired", "revoked"} => owner'[token'[t].owner].row
  BY <1>3, <1>4, SameTokens
<1> HIDE DEF cut
<1> QED
  BY <1>3, <1>4, <1>5, AnsweredIsGood, KeepCut

-----------------------------------------------------------------------------
(* Tokens made, and what happens around the calls.                         *)

\* A step that leaves every row as good as it was.
LEMMA KeepTables ==
  ASSUME TokensInv, call' \in [Call -> CallState],
         \A d \in Call : /\ GoodIn(call'[d], token, owner)
                         /\ call'[d].at \in {"user", "stamp"} => call[d].at \in {"user", "stamp"},
         owner' \in [Owner -> OwnerRow], token' \in [Token -> TokenRow], UNCHANGED recorderVars,
         \A w \in Owner : /\ owner'[w].row = owner[w].row
                          /\ owner'[w].locked => owner[w].locked
                          /\ owner[w].enabled => owner'[w].enabled,
         \A t \in Token :
           /\ token[t].state # "unused" =>
                token'[t].state # "unused" /\ token'[t].owner = token[t].owner
           /\ token'[t].used <= token[t].used
           /\ token'[t].state = "unused" => token'[t] = token[t]
           /\ token[t].state = "active" => token'[t].state = "active"
           /\ token'[t].state \in {"active", "expired", "revoked"} => owner'[token'[t].owner].row
  PROVE  TokensInv'
<1>1. TokensTypeOK'
  BY DEF TokensInv, TokensTypeOK, recorderVars
<1>2. CallsInv'
  <2> SUFFICES ASSUME NEW d \in Call PROVE GoodIn(call'[d], token', owner')
    BY DEF CallsInv
  <2> DEFINE h == call'[d]
  <2>1. h \in CallState /\ GoodIn(h, token, owner) /\ h.owner \in Owner
    BY DEF CallState
  <2> HIDE DEF h
  <2>2. h.bearer => h.token \in Token /\ token[h.token].state # "unused"
    BY <2>1 DEF GoodIn
  <2>3. GoodIn(h, token', owner')
    BY <2>1, <2>2, SameIsGood
  <2> QED
    BY <2>3 DEF h
<1>3. ClockInv'
  BY KeepClock DEF recorderVars
<1>4. UseInv'
  BY KeepUses
<1> QED
  BY <1>1, <1>2, <1>3, <1>4 DEF TokensInv

LEMMA KeepTokensCreate ==
  ASSUME TokensInv, NEW c \in Call, NEW t \in Token, NEW scope \in Scope, TokensCreate(c, t, scope)
  PROVE  TokensInv'
<1> DEFINE n == [state |-> "active", owner |-> call[c].owner, scope |-> scope, used |-> 0]
<1>1. /\ call[c] \in CallState /\ token \in [Token -> TokenRow] /\ owner \in [Owner -> OwnerRow]
      /\ MaxUse \in Nat
  BY TokensAssumption DEF TokensInv, TokensTypeOK
<1>2. /\ n \in TokenRow /\ n.state = "active" /\ n.owner = call[c].owner /\ n.used = 0
  <2>1. 0 \in Ts /\ call[c].owner \in Owner
    BY <1>1 DEF Ts, CallState
  <2> QED
    BY <2>1, TokenRowIs
<1>3. /\ call[c].at = "in" /\ owner[call[c].owner].row /\ token[t].state = "unused"
      /\ token' = [token EXCEPT ![t] = n] /\ call' = Answered(c) /\ UNCHANGED <<owner, recorderVars>>
  BY DEF TokensCreate, Calls
<1> HIDE DEF n
<1>4. /\ token' \in [Token -> TokenRow] /\ token'[t] = n
      /\ \A s \in Token \ {t} : token'[s] = token[s]
  BY <1>1, <1>2, <1>3
<1>5. \A s \in Token : token[s].used \in Nat
  BY <1>1 DEF TokenRow
<1>6. \A s \in Token :
        /\ token[s].state # "unused" =>
             token'[s].state # "unused" /\ token'[s].owner = token[s].owner
        /\ token'[s].used <= token[s].used
        /\ token'[s].state = "unused" => token'[s] = token[s]
        /\ token[s].state = "active" => token'[s].state = "active"
        /\ token'[s].state \in {"active", "expired", "revoked"} => owner'[token'[s].owner].row
  BY <1>2, <1>3, <1>4, <1>5 DEF TokensInv, TokensTypeOK
<1>7. /\ call' \in [Call -> CallState]
      /\ \A d \in Call : /\ GoodIn(call'[d], token, owner)
                         /\ call'[d].at \in {"user", "stamp"} => call[d].at \in {"user", "stamp"}
  BY <1>3, AnsweredIsGood
<1> QED
  BY <1>1, <1>3, <1>4, <1>6, <1>7, KeepTables

\* The requests as they are, before they are cut off.
LEMMA CallsAreGood ==
  ASSUME TokensInv
  PROVE  call \in [Call -> CallState] /\ \A d \in Call : GoodIn(call[d], token, owner)
  BY DEF TokensInv, TokensTypeOK, CallsInv

LEMMA KeepLock == ASSUME TokensInv, NEW u \in Owner, LockOwner(u) PROVE TokensInv'
<1> DEFINE n == [owner[u] EXCEPT !.locked = TRUE]
<1>1. owner \in [Owner -> OwnerRow]
  BY DEF TokensInv, TokensTypeOK
<1>2. n \in OwnerRow /\ n.row = owner[u].row
  BY <1>1 DEF OwnerRow
<1>3. owner' = [owner EXCEPT ![u] = n] /\ CutOff({}, u, call) /\ UNCHANGED <<token, recorderVars>>
  BY <1>1 DEF LockOwner
<1> HIDE DEF n
<1>4. /\ owner' \in [Owner -> OwnerRow]
      /\ \A w \in Owner : owner'[w].row = owner[w].row /\ (w # u => owner'[w] = owner[w])
  BY <1>1, <1>2, <1>3
<1>5. /\ token' \in [Token -> TokenRow]
      /\ \A t \in Token :
           /\ token'[t].used <= token[t].used
           /\ token'[t].state \in {"active", "expired", "revoked"} => owner'[token'[t].owner].row
  BY <1>3, <1>4, SameTokens
<1> QED
  BY <1>3, <1>4, <1>5, CallsAreGood, KeepCut

LEMMA KeepUnlock == ASSUME TokensInv, NEW u \in Owner, UnlockOwner(u) PROVE TokensInv'
<1> DEFINE n == [owner[u] EXCEPT !.locked = FALSE]
<1>1. owner \in [Owner -> OwnerRow]
  BY DEF TokensInv, TokensTypeOK
<1>2. n \in OwnerRow /\ n.row = owner[u].row /\ n.enabled = owner[u].enabled /\ ~n.locked
  BY <1>1 DEF OwnerRow
<1>3. owner' = [owner EXCEPT ![u] = n] /\ UNCHANGED <<token, call, recorderVars>>
  BY <1>1 DEF UnlockOwner
<1> HIDE DEF n
<1>4. /\ owner' \in [Owner -> OwnerRow]
      /\ \A w \in Owner : /\ owner'[w].row = owner[w].row /\ owner'[w].enabled = owner[w].enabled
                          /\ owner'[w].locked => owner[w].locked
  BY <1>1, <1>2, <1>3
<1>5. /\ token' \in [Token -> TokenRow]
      /\ \A t \in Token :
           /\ token'[t].used <= token[t].used
           /\ token'[t].state \in {"active", "expired", "revoked"} => owner'[token'[t].owner].row
  BY <1>3, <1>4, SameTokens
<1> QED
  BY <1>3, <1>4, <1>5, CallsAreGood, KeepTables

LEMMA KeepDelete == ASSUME TokensInv, NEW u \in Owner, DeleteOwner(u) PROVE TokensInv'
<1> DEFINE n == [row |-> FALSE, enabled |-> FALSE, locked |-> FALSE]
           m == [t \in Token |-> [token[t] EXCEPT !.state = "gone", !.used = 0]]
<1>1. owner \in [Owner -> OwnerRow] /\ token \in [Token -> TokenRow] /\ MaxUse \in Nat
  BY TokensAssumption DEF TokensInv, TokensTypeOK
<1>2. n \in OwnerRow /\ ~n.row
  BY DEF OwnerRow
<1>3. \A t \in Token : m[t] \in TokenRow /\ m[t].state = "gone" /\ m[t].used = 0
                       /\ m[t].owner = token[t].owner
  <2>1. 0 \in Ts
    BY <1>1 DEF Ts
  <2> QED
    BY <1>1, <2>1, TokenRowIs
<1>4. /\ owner' = [owner EXCEPT ![u] = n] /\ CutOff({}, u, call) /\ UNCHANGED recorderVars
      /\ token' = [t \in Token |-> IF token[t].owner = u /\ Kept(t) THEN m[t] ELSE token[t]]
  BY <1>1 DEF DeleteOwner
<1> HIDE DEF n, m
<1>5. /\ owner' \in [Owner -> OwnerRow] /\ ~owner'[u].row
      /\ \A w \in Owner \ {u} : owner'[w] = owner[w]
  BY <1>1, <1>2, <1>4
<1>6. token' \in [Token -> TokenRow]
  BY <1>1, <1>3, <1>4
<1>7. \A t \in Token : token[t].used \in Nat /\ token[t].owner \in Owner
  BY <1>1 DEF TokenRow
<1>8. ASSUME NEW t \in Token
      PROVE  /\ token[t].state # "unused" =>
                  token'[t].state # "unused" /\ token'[t].owner = token[t].owner
             /\ token'[t].used <= token[t].used
             /\ token'[t].state = "unused" => token'[t] = token[t]
             /\ token[t].state = "active" =>
                  token'[t].state = "active" \/ (token[t].owner = u /\ ~owner'[u].row)
             /\ token'[t].state \in {"active", "expired", "revoked"} => owner'[token'[t].owner].row
  <2>1. CASE token[t].owner = u /\ Kept(t)
    <3>1. token'[t] = m[t]
      BY <1>4, <2>1
    <3> QED
      BY <1>3, <1>5, <1>7, <2>1, <3>1 DEF Kept
  <2>2. CASE ~(token[t].owner = u /\ Kept(t))
    <3>1. token'[t] = token[t]
      BY <1>4, <2>2
    <3> QED
      BY <1>5, <1>7, <2>2, <3>1 DEF Kept, TokensInv, TokensTypeOK
  <2> QED
    BY <2>1, <2>2
<1>9. \A w \in Owner : owner'[w].row => owner[w].row
  BY <1>5
<1> QED
  BY <1>4, <1>5, <1>6, <1>8, <1>9, CallsAreGood, KeepCut

LEMMA KeepExpires == ASSUME TokensInv, NEW t \in Token, TokenExpires(t) PROVE TokensInv'
<1> DEFINE n == [token[t] EXCEPT !.state = "expired"]
<1>1. owner \in [Owner -> OwnerRow] /\ token \in [Token -> TokenRow] /\ MaxUse \in Nat
  BY TokensAssumption DEF TokensInv, TokensTypeOK
<1>2. n \in TokenRow /\ n.state = "expired" /\ n.owner = token[t].owner /\ n.used = token[t].used
  BY <1>1, TokenRowIs
<1>3. /\ token[t].state = "active" /\ token' = [token EXCEPT ![t] = n]
      /\ CutOff({t}, "none", call) /\ UNCHANGED <<owner, recorderVars>>
  BY <1>1 DEF TokenExpires
<1> HIDE DEF n
<1>4. /\ token' \in [Token -> TokenRow] /\ token'[t] = n
      /\ \A s \in Token \ {t} : token'[s] = token[s]
  BY <1>1, <1>2, <1>3
<1>5. \A s \in Token : token[s].used \in Nat
  BY <1>1 DEF TokenRow
<1>6. \A s \in Token :
        /\ token[s].state # "unused" =>
             token'[s].state # "unused" /\ token'[s].owner = token[s].owner
        /\ token'[s].used <= token[s].used
        /\ token'[s].state = "unused" => token'[s] = token[s]
        /\ token[s].state = "active" => token'[s].state = "active" \/ s \in {t}
        /\ token'[s].state \in {"active", "expired", "revoked"} => owner'[token'[s].owner].row
  BY <1>2, <1>3, <1>4, <1>5 DEF TokensInv, TokensTypeOK
<1> QED
  BY <1>1, <1>3, <1>4, <1>6, CallsAreGood, KeepCut

LEMMA KeepServerStops == ASSUME TokensInv, ServerStops PROVE TokensInv'
<1>1. /\ call' = [c \in Call |-> NoCall] /\ queue' = <<>> /\ writing' = NoUse
      /\ UNCHANGED <<owner, token, clock>>
  BY DEF ServerStops
<1>2. TokensTypeOK'
  BY <1>1, NoCallIsCall, TokensAssumption DEF TokensInv, TokensTypeOK
<1>3. CallsInv'
  BY <1>1, NoCallIsGood DEF CallsInv
<1>4. ClockInv'
  BY <1>1, NoCallIsCall, KeepClock
<1>5. UseInv'
  BY <1>1 DEF TokensInv, UseInv
<1> QED
  BY <1>2, <1>3, <1>4, <1>5 DEF TokensInv

-----------------------------------------------------------------------------
LEMMA TokensStart == TokensInit => TokensInv
<1> SUFFICES ASSUME TokensInit PROVE TokensInv
  OBVIOUS
<1> DEFINE o == [row |-> TRUE, enabled |-> FALSE, locked |-> FALSE]
           n == [state |-> "unused", owner |-> NoCall.owner, scope |-> "read", used |-> 0]
<1>1. /\ owner = [u \in Owner |-> o] /\ token = [t \in Token |-> n]
      /\ call = [c \in Call |-> NoCall] /\ queue = <<>> /\ writing = NoUse /\ clock = 0
  BY DEF TokensInit
<1>2. o \in OwnerRow
  BY DEF OwnerRow
<1>3. n \in TokenRow /\ n.state = "unused" /\ n.used = 0
  <2>1. NoCall.owner \in Owner
    BY NoCallIsCall DEF CallState
  <2>2. 0 \in Ts
    BY TokensAssumption DEF Ts
  <2> QED
    BY <2>1, <2>2, TokenRowIs DEF Scope
<1> HIDE DEF o, n
<1>4. TokensTypeOK
  BY <1>1, <1>2, <1>3, NoCallIsCall, TokensAssumption DEF TokensTypeOK
<1>5. CallsInv
  BY <1>1, NoCallIsGood DEF CallsInv
<1>6. ClockInv
  <2>1. Waiting = {}
    BY <1>1, NoCallIsCall DEF Waiting
  <2> QED
    BY <1>1, <2>1, FS_EmptySet, TokensAssumption DEF ClockInv
<1>7. UseInv
  BY <1>1, <1>3 DEF UseInv
<1> QED
  BY <1>4, <1>5, <1>6, <1>7 DEF TokensInv

LEMMA TokensStep == TokensInv /\ [TokensNext]_tokensVars => TokensInv'
<1> SUFFICES ASSUME TokensInv, [TokensNext]_tokensVars PROVE TokensInv'
  OBVIOUS
<1>1. ASSUME NEW c \in Call, CallNext(c) PROVE TokensInv'
  BY <1>1, KeepCookieAuth, KeepSwitch, KeepVerifyToken, KeepTokensCreate, KeepRevokeFind,
     KeepVerifyOwner, KeepStamp, KeepSend, KeepTokensRevoke, KeepTokensRevokeAll, KeepFinish
  DEF CallNext
<1>2. CASE Drain
  BY <1>2, KeepTakeUse, KeepRecordUsage, KeepRecordUsageFails DEF Drain
<1>3. CASE UNCHANGED tokensVars
  BY <1>3 DEF tokensVars, recorderVars, TokensInv, TokensTypeOK, CallsInv, ClockInv, Waiting, UseInv
<1> QED
  BY <1>1, <1>2, <1>3, KeepLock, KeepUnlock, KeepDelete, KeepExpires, KeepServerStops
  DEF TokensNext

LEMMA TokensInvariant == TokensSpec => []TokensInv
  BY TokensStart, TokensStep, PTL DEF TokensSpec

-----------------------------------------------------------------------------
(* Theorems.                                                               *)

\* Tables, requests and the channel stay well formed, and a token that is not
\* gone belongs to a user who is still there.
THEOREM TokensTypeCorrect == TokensSpec => []TokensTypeOK
<1>1. TokensInv => TokensTypeOK
  BY DEF TokensInv
<1> QED
  BY <1>1, TokensInvariant, PTL

\* A token that is revoked or has expired, and the tokens and the session of a user
\* who is locked, deleted or no longer allowed tokens, get nothing more done:
\* only requests that were past the check go on (service.go, middleware.go).
THEOREM CutOffIsImmediate == TokensSpec => []CutOffHolds
<1>1. TokensInv => CutOffHolds
  <2> SUFFICES ASSUME TokensInv, NEW c \in Call,
                      call[c].at \notin {"idle", "user"}, ~call[c].overtaken
               PROVE  LET u == call[c].owner IN
                      /\ owner[u].row /\ ~owner[u].locked
                      /\ call[c].may => MayHold(u)
                      /\ call[c].bearer => token[call[c].token].state = "active" /\ Entitled(u)
    BY DEF CutOffHolds
  <2>1. GoodIn(call[c], token, owner)
    BY DEF TokensInv, CallsInv
  <2> QED
    BY <2>1 DEF GoodIn, MayHoldIn, MayHold, Entitled
<1> QED
  BY <1>1, TokensInvariant, PTL

\* What a step makes of the row of a token.
LEMMA RowMoves ==
  ASSUME TokensInv, [TokensNext]_tokensVars, NEW t \in Token
  PROVE  \/ token'[t] = token[t]
         \/ token'[t].state = "gone"
         \/ token'[t].state # "active" /\ token'[t].used = token[t].used
         \/ \E c \in Call, scope \in Scope : TokensCreate(c, t, scope)
         \/ /\ writing # NoUse /\ writing.token = t
            /\ token'[t].state = token[t].state
            /\ token'[t].used = writing.ts
<1> DEFINE Goal == \/ token'[t] = token[t]
                   \/ token'[t].state = "gone"
                   \/ token'[t].state # "active" /\ token'[t].used = token[t].used
                   \/ \E c \in Call, scope \in Scope : TokensCreate(c, t, scope)
                   \/ /\ writing # NoUse /\ writing.token = t
                      /\ token'[t].state = token[t].state
                      /\ token'[t].used = writing.ts
<1> SUFFICES Goal
  OBVIOUS
<1>0. token \in [Token -> TokenRow] /\ writing \in Use \cup {NoUse}
  BY DEF TokensInv, TokensTypeOK
<1>1. ASSUME NEW c \in Call, CallNext(c) PROVE Goal
  <2>1. ASSUME NEW T, token' = Revoked(T) PROVE Goal
    BY <1>0, <2>1 DEF Revoked, TokenRow
  <2>2. CASE TokensRevoke(c) \/ TokensRevokeAll(c)
    BY <2>1, <2>2 DEF TokensRevoke, TokensRevokeAll
  <2>3. ASSUME NEW s \in Token, NEW scope \in Scope, TokensCreate(c, s, scope) PROVE Goal
    <3>1. CASE s = t
      BY <2>3, <3>1
    <3>2. CASE s # t
      BY <1>0, <2>3, <3>2 DEF TokensCreate
    <3> QED
      BY <3>1, <3>2
  <2>4. CASE token' = token
    BY <2>4
  <2> HIDE DEF Goal
  <2>5. ASSUME NEW u \in Owner,
               CookieAuth(c, u) \/ \E on \in BOOLEAN : SetAPITokensEnabled(c, u, on)
        PROVE  token' = token
    BY <2>5 DEF CookieAuth, SetAPITokensEnabled
  <2>6. ASSUME NEW s \in Token, (\E mcp \in BOOLEAN : VerifyToken(c, s, mcp)) \/ TokensRevokeFind(c, s)
        PROVE  token' = token
    BY <2>6 DEF VerifyToken, TokensRevokeFind
  <2>7. VerifyOwner(c) \/ Stamp(c) \/ Send(c) \/ Finish(c) => token' = token
    BY DEF VerifyOwner, Stamp, Send, Finish
  <2> QED
    BY <1>1, <2>2, <2>3, <2>4, <2>5, <2>6, <2>7 DEF CallNext
<1>2. CASE RecordUsage
  <2>1. writing \in Use /\ writing.token \in Token
    BY <1>0, <1>2 DEF RecordUsage, Use
  <2>2. token' = [token EXCEPT ![writing.token].used =
                    IF token[writing.token].state = "gone" THEN @ ELSE writing.ts]
    BY <1>2 DEF RecordUsage
  <2>3. CASE writing.token = t /\ token[t].state # "gone"
    BY <1>0, <1>2, <2>1, <2>2, <2>3 DEF RecordUsage, TokenRow
  <2>4. CASE writing.token # t
    BY <1>0, <2>1, <2>2, <2>4
  <2>5. CASE writing.token = t /\ token[t].state = "gone"
    BY <1>0, <2>1, <2>2, <2>5 DEF TokenRow
  <2> QED
    BY <2>3, <2>4, <2>5
<1>3. ASSUME NEW u \in Owner, DeleteOwner(u) PROVE Goal
  <2> DEFINE n == [token[t] EXCEPT !.state = "gone", !.used = 0]
  <2>1. n.state = "gone"
    BY <1>0 DEF TokenRow
  <2>2. token'[t] = n \/ token'[t] = token[t]
    BY <1>3 DEF DeleteOwner
  <2> QED
    BY <2>1, <2>2
<1>4. ASSUME NEW s \in Token, TokenExpires(s) PROVE Goal
  <2> DEFINE n == [token[t] EXCEPT !.state = "expired"]
  <2>1. n.state = "expired" /\ n.used = token[t].used
    BY <1>0 DEF TokenRow
  <2>2. token'[t] = n \/ token'[t] = token[t]
    BY <1>0, <1>4 DEF TokenExpires
  <2> QED
    BY <2>1, <2>2
<1>5. CASE token' = token
  BY <1>5
<1> HIDE DEF Goal
<1>6. TakeUse \/ RecordUsageFails \/ ServerStops \/ UNCHANGED tokensVars => token' = token
  BY DEF TakeUse, RecordUsageFails, ServerStops, tokensVars
<1>7. \A u \in Owner : LockOwner(u) \/ UnlockOwner(u) => token' = token
  BY DEF LockOwner, UnlockOwner
<1>8. CASE \E c \in Call : CallNext(c)
  BY <1>1, <1>8
<1>9. CASE Drain
  BY <1>2, <1>5, <1>6, <1>9 DEF Drain
<1>10. CASE \E u \in Owner : LockOwner(u) \/ UnlockOwner(u) \/ DeleteOwner(u)
  BY <1>3, <1>5, <1>7, <1>10
<1>11. CASE \E s \in Token : TokenExpires(s)
  BY <1>4, <1>11
<1>12. CASE ServerStops \/ UNCHANGED tokensVars
  BY <1>5, <1>6, <1>12
<1> QED
  BY <1>8, <1>9, <1>10, <1>11, <1>12 DEF TokensNext

\* A token comes into being for a user who may hold one, or out of a request that
\* had come in while its user might (service.go:76).
THEOREM TokensAreForTheEntitled == TokensSpec => TokensNeedPermission
<1> DEFINE Granted(t) == token[t].state = "unused" /\ token'[t].state = "active" =>
             \/ MayHold(token'[t].owner)
             \/ \E c \in Call : call[c].owner = token'[t].owner /\ call[c].overtaken
<1>1. ASSUME TokensInv, [TokensNext]_tokensVars, NEW t \in Token PROVE Granted(t)
  <2> SUFFICES ASSUME token[t].state = "unused", token'[t].state = "active"
               PROVE  \/ MayHold(token'[t].owner)
                      \/ \E c \in Call : call[c].owner = token'[t].owner /\ call[c].overtaken
    OBVIOUS
  <2>1. PICK c \in Call, scope \in Scope : TokensCreate(c, t, scope)
    <3>1. writing # NoUse /\ writing.token = t => token[t].state # "unused"
      BY <1>1 DEF TokensInv, UseInv
    <3> QED
      BY <1>1, <3>1, RowMoves
  <2>2. /\ call[c].at = "in" /\ call[c].may /\ owner[call[c].owner].row
        /\ token'[t].owner = call[c].owner
    <3>1. token \in [Token -> TokenRow]
      BY <1>1 DEF TokensInv, TokensTypeOK
    <3> QED
      BY <2>1, <3>1 DEF TokensCreate, Calls
  <2>3. GoodIn(call[c], token, owner)
    BY <1>1 DEF TokensInv, CallsInv
  <2> QED
    BY <2>2, <2>3 DEF GoodIn, MayHoldIn, MayHold
<1>2. TokensInv /\ [TokensNext]_tokensVars => [\A t \in Token : Granted(t)]_tokensVars
  BY <1>1
<1> QED
  BY <1>2, TokensInvariant, PTL DEF TokensSpec, TokensNeedPermission

\* A token that has been used for anything keeps its owner and its scope.
LEMMA RowsKeepTheirOwner ==
  ASSUME TokensInv, [TokensNext]_tokensVars, NEW t \in Token, token[t].state # "unused"
  PROVE  /\ token'[t].state # "unused" /\ token'[t].owner = token[t].owner
         /\ token'[t].scope = token[t].scope
<1> DEFINE Goal == /\ token'[t].state # "unused" /\ token'[t].owner = token[t].owner
                   /\ token'[t].scope = token[t].scope
           With(a) == [token[t] EXCEPT !.state = a]
<1>1. token \in [Token -> TokenRow] /\ token[t] \in TokenRow
  BY DEF TokensInv, TokensTypeOK
<1>2. \A a \in {"expired", "revoked"} :
        With(a).state = a /\ With(a).owner = token[t].owner /\ With(a).scope = token[t].scope
  BY <1>1, TokenRowIs
<1>3. ASSUME NEW T, token' = Revoked(T) PROVE Goal
  <2>1. token'[t] = token[t] \/ token'[t] = With("revoked")
    BY <1>3 DEF Revoked
  <2> QED
    BY <1>2, <2>1
<1>4. ASSUME NEW c \in Call, NEW s \in Token, NEW scope \in Scope, TokensCreate(c, s, scope) PROVE Goal
  BY <1>1, <1>4 DEF TokensCreate
<1>5. ASSUME NEW s \in Token, TokenExpires(s) PROVE Goal
  <2>1. token'[t] = token[t] \/ token'[t] = With("expired")
    BY <1>1, <1>5 DEF TokenExpires
  <2> QED
    BY <1>2, <2>1
<1>6. ASSUME NEW u \in Owner, DeleteOwner(u) PROVE Goal
  <2> DEFINE n == [token[t] EXCEPT !.state = "gone", !.used = 0]
  <2>1. n.state = "gone" /\ n.owner = token[t].owner /\ n.scope = token[t].scope
    BY <1>1, TokenRowIs
  <2>2. token'[t] = n \/ token'[t] = token[t]
    BY <1>6 DEF DeleteOwner
  <2> HIDE DEF n
  <2> QED
    BY <2>1, <2>2
<1>7. CASE RecordUsage
  <2> DEFINE n == [token[t] EXCEPT !.used = writing.ts]
  <2>1. n.state = token[t].state /\ n.owner = token[t].owner /\ n.scope = token[t].scope
    BY <1>1, TokenRowIs
  <2>2. writing \in Use /\ writing.token \in Token
    BY <1>7 DEF RecordUsage, TokensInv, TokensTypeOK, Use
  <2>3. token' = [token EXCEPT ![writing.token].used =
                    IF token[writing.token].state = "gone" THEN @ ELSE writing.ts]
    BY <1>7 DEF RecordUsage
  <2>4. CASE writing.token = t /\ token[t].state # "gone"
    BY <1>1, <2>1, <2>3, <2>4
  <2>5. CASE writing.token # t \/ token[t].state = "gone"
    BY <1>1, <2>2, <2>3, <2>5 DEF TokenRow
  <2> QED
    BY <2>4, <2>5
<1>8. CASE token' = token
  BY <1>8
<1>9. ASSUME NEW c \in Call, CallNext(c) PROVE Goal
  <2>1. CASE TokensRevoke(c) \/ TokensRevokeAll(c)
    BY <1>3, <2>1 DEF TokensRevoke, TokensRevokeAll
  <2>2. ASSUME NEW u \in Owner,
               CookieAuth(c, u) \/ \E on \in BOOLEAN : SetAPITokensEnabled(c, u, on)
        PROVE  token' = token
    BY <2>2 DEF CookieAuth, SetAPITokensEnabled
  <2>3. ASSUME NEW s \in Token, (\E mcp \in BOOLEAN : VerifyToken(c, s, mcp)) \/ TokensRevokeFind(c, s)
        PROVE  token' = token
    BY <2>3 DEF VerifyToken, TokensRevokeFind
  <2>4. VerifyOwner(c) \/ Stamp(c) \/ Send(c) \/ Finish(c) => token' = token
    BY DEF VerifyOwner, Stamp, Send, Finish
  <2> DEFINE Makes == \E s \in Token, scope \in Scope : TokensCreate(c, s, scope)
  <2>5. CASE Makes
    BY <1>4, <2>5
  <2>6. token' = token \/ TokensRevoke(c) \/ TokensRevokeAll(c) \/ Makes
    BY <1>9, <2>2, <2>3, <2>4 DEF CallNext
  <2> HIDE DEF Makes
  <2> QED
    BY <1>8, <2>1, <2>5, <2>6
<1>10. TakeUse \/ RecordUsageFails \/ ServerStops \/ UNCHANGED tokensVars => token' = token
  BY DEF TakeUse, RecordUsageFails, ServerStops, tokensVars
<1>11. \A u \in Owner : LockOwner(u) \/ UnlockOwner(u) => token' = token
  BY DEF LockOwner, UnlockOwner
<1> QED
  BY <1>5, <1>6, <1>7, <1>8, <1>9, <1>10, <1>11 DEF TokensNext, Drain

-----------------------------------------------------------------------------
(* What a request carries of the row it was let in by.                      *)

\* The scope it was let in with is the row's, and a revocation half done is one
\* the row allows.
ScopeGood(h, tok) ==
  /\ h.bearer => h.token \in Token /\ tok[h.token].state # "unused"
                 /\ tok[h.token].scope = h.scope
  /\ h.at = "revoke" => /\ h.target \in Token /\ tok[h.target].state # "unused"
                        /\ tok[h.target].owner = h.owner
                        /\ h.bearer => h.scope = "read_write"

ScopeInv == \A c \in Call : ScopeGood(call[c], token)

\* g is h as far as its identity goes, and in the second statement of a
\* revocation only if h is; or it is nobody's request with a token, nor in there.
Follows(g, h) ==
  /\ g.bearer = h.bearer /\ g.token = h.token /\ g.owner = h.owner /\ g.scope = h.scope
  /\ g.at = "revoke" => h.at = "revoke" /\ g.target = h.target

Fresh(g) == ~g.bearer /\ g.at # "revoke"

Goes(g, h) == Fresh(g) \/ Follows(g, h)

LEMMA OvertakenFollows ==
  ASSUME NEW h \in CallState PROVE Follows([h EXCEPT !.overtaken = TRUE], h)
<1> DEFINE g == [h EXCEPT !.overtaken = TRUE]
<1>1. /\ g.bearer = h.bearer /\ g.token = h.token /\ g.owner = h.owner /\ g.scope = h.scope
      /\ g.at = h.at /\ g.target = h.target
  BY CallStateIs
<1> HIDE DEF g
<1>2. Follows(g, h)
  BY <1>1 DEF Follows
<1> QED
  BY <1>2 DEF g

LEMMA ServedFollows ==
  ASSUME NEW h \in CallState PROVE Follows([h EXCEPT !.at = "in", !.target = "none"], h)
<1> DEFINE g == [h EXCEPT !.at = "in", !.target = "none"]
<1>1. /\ g.bearer = h.bearer /\ g.token = h.token /\ g.owner = h.owner /\ g.scope = h.scope
      /\ g.at = "in"
  BY CallStateIs
<1> HIDE DEF g
<1>2. Follows(g, h)
  BY <1>1 DEF Follows
<1> QED
  BY <1>2 DEF g

LEMMA AdmittedFollows ==
  ASSUME NEW h \in CallState PROVE Follows([h EXCEPT !.at = "stamp", !.may = TRUE], h)
<1> DEFINE g == [h EXCEPT !.at = "stamp", !.may = TRUE]
<1>1. /\ g.bearer = h.bearer /\ g.token = h.token /\ g.owner = h.owner /\ g.scope = h.scope
      /\ g.at = "stamp"
  BY CallStateIs
<1> HIDE DEF g
<1>2. Follows(g, h)
  BY <1>1 DEF Follows
<1> QED
  BY <1>2 DEF g

LEMMA StampedFollows ==
  ASSUME NEW h \in CallState, NEW a \in {"send", "in"}, NEW n
  PROVE  Follows([h EXCEPT !.at = a, !.ts = n], h)
<1> DEFINE g == [h EXCEPT !.at = a, !.ts = n]
<1>1. /\ g.bearer = h.bearer /\ g.token = h.token /\ g.owner = h.owner /\ g.scope = h.scope
      /\ g.at = a
  BY CallStateIs
<1> HIDE DEF g
<1>2. Follows(g, h)
  BY <1>1 DEF Follows
<1> QED
  BY <1>2 DEF g

\* A request that has come to its end, or to the end of one call of its batch.
LEMMA AnsweredGoes ==
  ASSUME TokensInv, NEW c \in Call
  PROVE  \A d \in Call : Goes(Over(c)[d], call[d]) /\ Goes(Answered(c)[d], call[d])
<1>1. call \in [Call -> CallState]
  BY DEF TokensInv, TokensTypeOK
<1>2. Fresh(NoCall)
  BY NoCallIsCall DEF Fresh
<1>3. \A d \in Call : Follows(call[d], call[d])
  BY DEF Follows
<1>4. Follows([call[c] EXCEPT !.at = "in", !.target = "none"], call[c])
  BY <1>1, ServedFollows
<1>5. \A d \in Call : Over(c)[d] \in {NoCall, call[d]}
  BY <1>1 DEF Over
<1>6. \A d \in Call : \/ Answered(c)[d] \in {NoCall, call[d]}
                      \/ d = c /\ Answered(c)[d] = [call[c] EXCEPT !.at = "in", !.target = "none"]
  BY <1>1, <1>5 DEF Answered
<1> QED
  BY <1>2, <1>3, <1>4, <1>5, <1>6 DEF Goes

\* A request that is cut off stays what it is.
LEMMA CutGoes ==
  ASSUME NEW T, NEW u, NEW next \in [Call -> CallState], CutOff(T, u, next),
         \A d \in Call : Goes(next[d], call[d])
  PROVE  \A d \in Call : Goes(call'[d], call[d])
<1> SUFFICES ASSUME NEW d \in Call PROVE Goes(call'[d], call[d])
  OBVIOUS
<1>1. call'[d] = next[d] \/ call'[d] = [next[d] EXCEPT !.overtaken = TRUE]
  BY DEF CutOff
<1>2. Follows(call'[d], next[d])
  <2>1. CASE call'[d] = next[d]
    BY <2>1 DEF Follows
  <2>2. CASE call'[d] = [next[d] EXCEPT !.overtaken = TRUE]
    BY <2>2, OvertakenFollows
  <2> QED
    BY <1>1, <2>1, <2>2
<1>3. Goes(next[d], call[d])
  OBVIOUS
<1> QED
  BY <1>2, <1>3 DEF Goes, Follows, Fresh

\* Where a request's fields come from: from what they were, or from the row of the
\* token it is let in by, or from the row it has found for a revocation.
LEMMA CallMoves ==
  ASSUME TokensInv, [TokensNext]_tokensVars, NEW q \in Call
  PROVE  \/ Goes(call'[q], call[q])
         \/ \E t \in Token, mcp \in BOOLEAN : VerifyToken(q, t, mcp)
         \/ \E t \in Token : TokensRevokeFind(q, t)
<1> DEFINE Goal == \/ Goes(call'[q], call[q])
                   \/ \E t \in Token, mcp \in BOOLEAN : VerifyToken(q, t, mcp)
                   \/ \E t \in Token : TokensRevokeFind(q, t)
<1>0. call \in [Call -> CallState]
  BY DEF TokensInv, TokensTypeOK
<1>1. Goes(call[q], call[q]) /\ Goes(NoCall, call[q])
  BY NoCallIsCall DEF Goes, Follows, Fresh
<1>2. CASE call' = call
  BY <1>1, <1>2
<1>3. ASSUME NEW c \in Call, NEW u \in Owner, CookieAuth(c, u) PROVE Goal
  <2> DEFINE h == [NoCall EXCEPT !.at = "in", !.owner = u, !.may = MayHold(u), !.scope = "read_write"]
  <2>1. Fresh(h)
    BY NoCallIsCall DEF Fresh, CallState
  <2>2. call'[q] \in {h, call[q]}
    BY <1>0, <1>3 DEF CookieAuth, Started
  <2> HIDE DEF h
  <2> QED
    BY <1>1, <2>1, <2>2 DEF Goes
<1>4. ASSUME NEW c \in Call, NEW t \in Token, NEW mcp \in BOOLEAN, VerifyToken(c, t, mcp) PROVE Goal
  <2>1. c # q => call'[q] = call[q]
    BY <1>0, <1>4 DEF VerifyToken, Started
  <2> QED
    BY <1>1, <1>4, <2>1
<1>5. ASSUME NEW c \in Call, NEW t \in Token, TokensRevokeFind(c, t) PROVE Goal
  <2>1. c # q => call'[q] = call[q]
    BY <1>0, <1>5 DEF TokensRevokeFind
  <2> QED
    BY <1>1, <1>5, <2>1
<1>6. ASSUME NEW c \in Call, VerifyOwner(c) PROVE Goal
  <2>1. \/ call'[q] \in {NoCall, call[q]}
        \/ q = c /\ call'[q] = [call[c] EXCEPT !.at = "stamp", !.may = TRUE]
    BY <1>0, <1>6 DEF VerifyOwner, Over
  <2>2. Follows([call[c] EXCEPT !.at = "stamp", !.may = TRUE], call[c])
    BY <1>0, AdmittedFollows
  <2> QED
    BY <1>1, <2>1, <2>2 DEF Goes
<1>7. ASSUME NEW c \in Call, Stamp(c) \/ Send(c) PROVE Goal
  <2>1. PICK a \in {"send", "in"}, n \in {clock + 1, 0} :
          call' = [call EXCEPT ![c] = [call[c] EXCEPT !.at = a, !.ts = n]]
    BY <1>0, <1>7 DEF Stamp, Send
  <2>2. Follows([call[c] EXCEPT !.at = a, !.ts = n], call[c])
    BY <1>0, StampedFollows
  <2> QED
    BY <1>0, <1>1, <2>1, <2>2 DEF Goes
<1>8. ASSUME NEW c \in Call, Finish(c) PROVE Goal
  BY <1>8, AnsweredGoes DEF Finish
<1>9. ASSUME NEW c \in Call, NEW t \in Token, NEW scope \in Scope, TokensCreate(c, t, scope) PROVE Goal
  BY <1>9, AnsweredGoes DEF TokensCreate
<1>10. ASSUME NEW c \in Call, NEW T, NEW u, CutOff(T, u, Answered(c)),
              call[c].at \in {"in", "revoke"}
       PROVE  Goal
  <2>1. Answered(c) \in [Call -> CallState]
    BY <1>10, AnsweredIsGood
  <2> QED
    BY <1>10, <2>1, AnsweredGoes, CutGoes
<1>11. ASSUME NEW c \in Call, TokensRevoke(c) \/ TokensRevokeAll(c) PROVE Goal
  BY <1>10, <1>11 DEF TokensRevoke, TokensRevokeAll, Calls
<1>12. ASSUME NEW c \in Call, NEW u \in Owner, NEW on \in BOOLEAN, SetAPITokensEnabled(c, u, on)
       PROVE  Goal
  <2>1. call[c].at = "in" /\ CutOff({}, IF on THEN "none" ELSE u, Answered(c))
    BY <1>12 DEF SetAPITokensEnabled, Calls
  <2> QED
    BY <1>10, <2>1
<1>13. ASSUME NEW T, NEW u, CutOff(T, u, call) PROVE Goal
  <2>1. \A d \in Call : Goes(call[d], call[d])
    BY DEF Goes, Follows
  <2> QED
    BY <1>0, <1>13, <2>1, CutGoes
<1>14. ASSUME NEW u \in Owner, LockOwner(u) \/ DeleteOwner(u) PROVE Goal
  BY <1>13, <1>14 DEF LockOwner, DeleteOwner
<1>15. ASSUME NEW t \in Token, TokenExpires(t) PROVE Goal
  BY <1>13, <1>15 DEF TokenExpires
<1>16. CASE ServerStops
  BY <1>1, <1>16 DEF ServerStops
<1>17. CASE TakeUse \/ RecordUsage \/ RecordUsageFails \/ (\E u \in Owner : UnlockOwner(u))
            \/ UNCHANGED tokensVars
  BY <1>2, <1>17 DEF TakeUse, RecordUsage, RecordUsageFails, UnlockOwner, tokensVars
<1>18. ASSUME NEW c \in Call, CallNext(c) PROVE Goal
  BY <1>3, <1>4, <1>5, <1>6, <1>7, <1>8, <1>9, <1>11, <1>12, <1>18 DEF CallNext
<1> QED
  BY <1>14, <1>15, <1>16, <1>17, <1>18 DEF TokensNext, Drain

LEMMA ScopeStart == TokensInit => ScopeInv
  BY NoCallIsCall DEF TokensInit, ScopeInv, ScopeGood

LEMMA ScopeStep == TokensInv /\ ScopeInv /\ [TokensNext]_tokensVars => ScopeInv'
<1> SUFFICES ASSUME TokensInv, ScopeInv, [TokensNext]_tokensVars, NEW q \in Call
             PROVE  ScopeGood(call'[q], token')
  BY DEF ScopeInv
<1>1. ScopeGood(call[q], token) /\ call \in [Call -> CallState]
  BY DEF ScopeInv, TokensInv, TokensTypeOK
<1>2. \A t \in Token : token[t].state # "unused" =>
        /\ token'[t].state # "unused" /\ token'[t].owner = token[t].owner
        /\ token'[t].scope = token[t].scope
  BY RowsKeepTheirOwner
<1>3. CASE Goes(call'[q], call[q])
  BY <1>1, <1>2, <1>3 DEF Goes, Fresh, Follows, ScopeGood
<1>4. ASSUME NEW t \in Token, NEW mcp \in BOOLEAN, VerifyToken(q, t, mcp)
      PROVE  ScopeGood(call'[q], token')
  <2> DEFINE h == [NoCall EXCEPT !.at = "user", !.bearer = TRUE, !.mcp = mcp, !.token = t,
                                 !.owner = token[t].owner, !.scope = token[t].scope]
  <2>1. h.at = "user" /\ h.token = t /\ h.scope = token[t].scope
    BY NoCallIsCall DEF CallState
  <2>2. call'[q] = h /\ token' = token /\ token[t].state = "active"
    BY <1>1, <1>4 DEF VerifyToken, Started
  <2> HIDE DEF h
  <2> QED
    BY <2>1, <2>2 DEF ScopeGood
<1>5. ASSUME NEW t \in Token, TokensRevokeFind(q, t) PROVE ScopeGood(call'[q], token')
  <2> DEFINE h == [call[q] EXCEPT !.at = "revoke", !.target = t]
  <2>1. /\ h.at = "revoke" /\ h.target = t /\ h.bearer = call[q].bearer
        /\ h.token = call[q].token /\ h.owner = call[q].owner /\ h.scope = call[q].scope
    BY <1>1, CallStateIs
  <2>2. call'[q] = h /\ token' = token
    BY <1>1, <1>5 DEF TokensRevokeFind
  <2>3. token[t].state # "unused" /\ token[t].owner = call[q].owner
    BY <1>5 DEF TokensRevokeFind, Kept
  <2>4. call[q].scope = "read_write"
    BY <1>5 DEF TokensRevokeFind, Calls, Permitted, ReadScope
  <2> HIDE DEF h
  <2> QED
    BY <1>1, <2>1, <2>2, <2>3, <2>4 DEF ScopeGood
<1> QED
  BY <1>3, <1>4, <1>5, CallMoves

LEMMA ScopeInvariant == TokensSpec => []ScopeInv
  BY TokensInvariant, ScopeStart, ScopeStep, PTL DEF TokensSpec

\* A request that answers a call is the one that takes the step.
LEMMA AnsweredRuns ==
  ASSUME TokensInv, NEW c \in Call, call[c].at \in {"in", "revoke"},
         call' = Answered(c) \/ \E T, u : CutOff(T, u, Answered(c))
  PROVE  Runs(c)
<1>1. call \in [Call -> CallState] /\ NoCall \in CallState
  BY NoCallIsCall DEF TokensInv, TokensTypeOK
<1>2. ASSUME ~call[c].mcp PROVE call'[c].at = "idle"
  <2>1. Answered(c)[c] = NoCall
    BY <1>1, <1>2 DEF Answered, Over
  <2>2. [NoCall EXCEPT !.overtaken = TRUE].at = "idle"
    BY <1>1, NoCallIsCall DEF CallState
  <2> QED
    BY <2>1, <2>2, NoCallIsCall DEF CutOff
<1> QED
  BY <1>2 DEF Runs

\* Who revokes a token, and who switches the permission to have them.
LEMMA OnlyTheseRevoke ==
  ASSUME TokensInv, [TokensNext]_tokensVars, NEW t \in Token,
         token[t].state # "revoked", token'[t].state = "revoked"
  PROVE  \E c \in Call : \/ TokensRevoke(c) /\ t = call[c].target
                         \/ TokensRevokeAll(c) /\ token[t].owner = call[c].owner
<1> DEFINE Goal == \E c \in Call : \/ TokensRevoke(c) /\ t = call[c].target
                                   \/ TokensRevokeAll(c) /\ token[t].owner = call[c].owner
<1>0. token \in [Token -> TokenRow] /\ token[t] \in TokenRow /\ ~(token' = token)
  BY DEF TokensInv, TokensTypeOK
<1>1. ASSUME NEW T, token' = Revoked(T) PROVE t \in T
  BY <1>0, <1>1 DEF Revoked
<1>2. ASSUME NEW c \in Call, TokensRevoke(c) \/ TokensRevokeAll(c) PROVE Goal
  <2>1. CASE TokensRevoke(c)
    BY <1>1, <2>1 DEF TokensRevoke
  <2>2. CASE TokensRevokeAll(c)
    <3> DEFINE T == {s \in Token : token[s].owner = call[c].owner}
    <3>1. token' = Revoked(T)
      BY <2>2 DEF TokensRevokeAll
    <3> HIDE DEF T
    <3>2. t \in T
      BY <1>1, <3>1
    <3> QED
      BY <2>2, <3>2 DEF T
  <2> QED
    BY <1>2, <2>1, <2>2
<1>3. ASSUME NEW c \in Call, NEW s \in Token, NEW scope \in Scope, TokensCreate(c, s, scope) PROVE FALSE
  <2>1. token'[t] = token[t] \/ token'[t].state = "active"
    BY <1>0, <1>3 DEF TokensCreate
  <2> QED
    BY <2>1
<1>4. ASSUME NEW s \in Token, TokenExpires(s) PROVE FALSE
  <2>1. token'[t] = token[t] \/ token'[t] = [token[t] EXCEPT !.state = "expired"]
    BY <1>0, <1>4 DEF TokenExpires
  <2>2. [token[t] EXCEPT !.state = "expired"].state = "expired"
    BY <1>0 DEF TokenRow
  <2> QED
    BY <2>1, <2>2
<1>5. ASSUME NEW u \in Owner, DeleteOwner(u) PROVE FALSE
  <2> DEFINE n == [token[t] EXCEPT !.state = "gone", !.used = 0]
  <2>1. token'[t] = n \/ token'[t] = token[t]
    BY <1>5 DEF DeleteOwner
  <2>2. n.state = "gone"
    BY <1>0, TokenRowIs
  <2> HIDE DEF n
  <2> QED
    BY <2>1, <2>2
<1>6. ASSUME RecordUsage PROVE FALSE
  <2> DEFINE n == [token[t] EXCEPT !.used = writing.ts]
  <2>1. n.state = token[t].state
    BY <1>0, TokenRowIs
  <2>2. writing.token \in Token
    BY <1>6 DEF RecordUsage, TokensInv, TokensTypeOK, Use
  <2>3. token' = [token EXCEPT ![writing.token].used =
                    IF token[writing.token].state = "gone" THEN @ ELSE writing.ts]
    BY <1>6 DEF RecordUsage
  <2>4. CASE writing.token = t /\ token[t].state # "gone"
    BY <1>0, <2>1, <2>3, <2>4
  <2>5. CASE writing.token # t \/ token[t].state = "gone"
    BY <1>0, <2>2, <2>3, <2>5 DEF TokenRow
  <2> QED
    BY <2>4, <2>5
<1>7. ASSUME NEW c \in Call, CallNext(c) PROVE Goal
  <2>1. ASSUME NEW u \in Owner,
               CookieAuth(c, u) \/ \E on \in BOOLEAN : SetAPITokensEnabled(c, u, on)
        PROVE  FALSE
    BY <1>0, <2>1 DEF CookieAuth, SetAPITokensEnabled
  <2>2. ASSUME NEW s \in Token, (\E mcp \in BOOLEAN : VerifyToken(c, s, mcp)) \/ TokensRevokeFind(c, s)
        PROVE  FALSE
    BY <1>0, <2>2 DEF VerifyToken, TokensRevokeFind
  <2>3. VerifyOwner(c) \/ Stamp(c) \/ Send(c) \/ Finish(c) => FALSE
    BY <1>0 DEF VerifyOwner, Stamp, Send, Finish
  <2> QED
    BY <1>2, <1>3, <1>7, <2>1, <2>2, <2>3 DEF CallNext
<1>8. TakeUse \/ RecordUsageFails \/ ServerStops \/ UNCHANGED tokensVars => FALSE
  BY <1>0 DEF TakeUse, RecordUsageFails, ServerStops, tokensVars
<1>9. \A u \in Owner : LockOwner(u) \/ UnlockOwner(u) => FALSE
  BY <1>0 DEF LockOwner, UnlockOwner
<1> QED
  BY <1>4, <1>5, <1>6, <1>7, <1>8, <1>9 DEF TokensNext, Drain

LEMMA OnlyTheSwitch ==
  ASSUME TokensInv, [TokensNext]_tokensVars, NEW u \in Owner,
         owner'[u].row, owner'[u].enabled # owner[u].enabled
  PROVE  \E c \in Call, v \in Owner, on \in BOOLEAN : SetAPITokensEnabled(c, v, on)
<1>0. owner \in [Owner -> OwnerRow] /\ owner[u] \in OwnerRow /\ ~(owner' = owner)
  BY DEF TokensInv, TokensTypeOK
<1>1. ASSUME NEW v \in Owner, LockOwner(v) \/ UnlockOwner(v) PROVE FALSE
  <2>1. PICK b \in BOOLEAN : owner' = [owner EXCEPT ![v].locked = b]
    BY <1>1 DEF LockOwner, UnlockOwner
  <2>2. owner'[u].enabled = owner[u].enabled
    BY <1>0, <2>1 DEF OwnerRow
  <2> QED
    BY <2>2
<1>2. ASSUME NEW v \in Owner, DeleteOwner(v) PROVE FALSE
  BY <1>0, <1>2 DEF DeleteOwner
<1>3. \A t \in Token : TokenExpires(t) => FALSE
  BY <1>0 DEF TokenExpires
<1>4. TakeUse \/ RecordUsage \/ RecordUsageFails \/ ServerStops \/ UNCHANGED tokensVars => FALSE
  BY <1>0 DEF TakeUse, RecordUsage, RecordUsageFails, ServerStops, tokensVars
<1>5. ASSUME NEW c \in Call, CallNext(c)
      PROVE  \E v \in Owner, on \in BOOLEAN : SetAPITokensEnabled(c, v, on)
  <2>1. \A v \in Owner : CookieAuth(c, v) => FALSE
    BY <1>0 DEF CookieAuth
  <2>2. ASSUME NEW s \in Token,
               \/ \E mcp \in BOOLEAN : VerifyToken(c, s, mcp)
               \/ \E scope \in Scope : TokensCreate(c, s, scope)
               \/ TokensRevokeFind(c, s)
        PROVE  FALSE
    BY <1>0, <2>2 DEF VerifyToken, TokensCreate, TokensRevokeFind
  <2>3. VerifyOwner(c) \/ Stamp(c) \/ Send(c) \/ Finish(c) \/ TokensRevoke(c) \/ TokensRevokeAll(c) => FALSE
    BY <1>0 DEF VerifyOwner, Stamp, Send, Finish, TokensRevoke, TokensRevokeAll
  <2> QED
    BY <1>5, <2>1, <2>2, <2>3 DEF CallNext
<1> QED
  BY <1>1, <1>2, <1>3, <1>4, <1>5 DEF TokensNext, Drain

\* What may be done with a token is said by its row, however long the request that
\* came with it has been running and whatever has become of the row (server.go:159-176,
\* tokens/service.go:171-180).
THEOREM ScopesAreKept == TokensSpec => TokensActInScope
<1> DEFINE Cuts(t) == \E c \in Call :
             /\ Runs(c) /\ call[c].owner = token[t].owner
             /\ call[c].bearer => LET k == token[call[c].token] IN
                                   k.owner = token[t].owner /\ k.scope = "read_write"
           Makes(t) == \E c \in Call : Runs(c) /\ ~call[c].bearer /\ call[c].owner = token'[t].owner
           Switches == \E c \in Call : Runs(c) /\ ~call[c].bearer /\ call[c].owner \in Admin
<1>1. ASSUME TokensInv, ScopeInv, [TokensNext]_tokensVars, NEW t \in Token,
             token[t].state # "revoked", token'[t].state = "revoked"
      PROVE  Cuts(t)
  <2>1. PICK c \in Call : \/ TokensRevoke(c) /\ t = call[c].target
                          \/ TokensRevokeAll(c) /\ token[t].owner = call[c].owner
    BY <1>1, OnlyTheseRevoke
  <2>2. Runs(c)
    BY <1>1, <2>1, AnsweredRuns DEF TokensRevoke, TokensRevokeAll, Calls
  <2>3. ScopeGood(call[c], token) /\ GoodIn(call[c], token, owner)
    BY <1>1 DEF ScopeInv, TokensInv, CallsInv
  <2>4. CASE TokensRevoke(c) /\ t = call[c].target
    BY <2>2, <2>3, <2>4 DEF TokensRevoke, ScopeGood, GoodIn
  <2>5. CASE TokensRevokeAll(c) /\ token[t].owner = call[c].owner
    <3>1. call[c].scope = "read_write"
      BY <2>5 DEF TokensRevokeAll, Calls, Permitted, ReadScope
    <3> QED
      BY <2>2, <2>3, <2>5, <3>1 DEF ScopeGood, GoodIn
  <2> QED
    BY <2>1, <2>4, <2>5
<1>2. ASSUME TokensInv, [TokensNext]_tokensVars, NEW t \in Token,
             token[t].state # "active", token'[t].state = "active"
      PROVE  Makes(t)
  <2>1. PICK c \in Call, scope \in Scope : TokensCreate(c, t, scope)
    BY <1>2, RowMoves
  <2>2. call[c].at = "in" /\ call' = Answered(c) /\ ~call[c].bearer
    BY <2>1 DEF TokensCreate, Calls, Permitted, CookieOnly
  <2>3. token'[t].owner = call[c].owner
    BY <1>2, <2>1 DEF TokensCreate, TokensInv, TokensTypeOK
  <2>4. Runs(c)
    BY <1>2, <2>2, AnsweredRuns
  <2> QED
    BY <2>2, <2>3, <2>4
<1>3. ASSUME TokensInv, [TokensNext]_tokensVars, NEW u \in Owner,
             owner'[u].row, owner'[u].enabled # owner[u].enabled
      PROVE  Switches
  <2>1. PICK c \in Call, v \in Owner, on \in BOOLEAN : SetAPITokensEnabled(c, v, on)
    BY <1>3, OnlyTheSwitch
  <2>2. call[c].at = "in" /\ ~call[c].bearer /\ call[c].owner \in Admin
    BY <2>1 DEF SetAPITokensEnabled, Calls, Permitted, AdminOnly
  <2>3. CutOff({}, IF on THEN "none" ELSE v, Answered(c))
    BY <2>1 DEF SetAPITokensEnabled
  <2>4. Runs(c)
    BY <1>3, <2>2, <2>3, AnsweredRuns
  <2> QED
    BY <2>2, <2>4
<1> DEFINE Kept3 == /\ \A t \in Token : token[t].state # "revoked" /\ token'[t].state = "revoked" => Cuts(t)
                    /\ \A t \in Token : token[t].state # "active" /\ token'[t].state = "active" => Makes(t)
                    /\ \A u \in Owner : owner'[u].row /\ owner'[u].enabled # owner[u].enabled => Switches
<1>4. TokensInv /\ ScopeInv /\ [TokensNext]_tokensVars => [Kept3]_tokensVars
  BY <1>1, <1>2, <1>3
<1> QED
  BY <1>4, TokensInvariant, ScopeInvariant, PTL DEF TokensSpec, TokensActInScope

\* last_used_at goes back only to a use that was overtaken on its way into the
\* channel: the recorder writes in the order of the channel (usage_recorder.go:57).
THEOREM LastUseGoesForward == TokensSpec => LastUseAdvances
<1> DEFINE Forward(t) == token'[t].used < token[t].used /\ token'[t].state # "gone" =>
             writing # NoUse /\ writing.token = t /\ writing.late
<1>1. ASSUME TokensInv, [TokensNext]_tokensVars, NEW t \in Token PROVE Forward(t)
  <2> SUFFICES ASSUME token'[t].used < token[t].used, token'[t].state # "gone"
               PROVE  writing # NoUse /\ writing.token = t /\ writing.late
    OBVIOUS
  <2>1. token \in [Token -> TokenRow] /\ token[t].used \in Nat
    BY <1>1, TokensAssumption DEF TokensInv, TokensTypeOK, TokenRow
  <2>2. ~(token'[t].used = token[t].used) /\ ~(token'[t] = token[t])
    BY <2>1
  <2>3. ASSUME NEW c \in Call, NEW scope \in Scope, TokensCreate(c, t, scope) PROVE FALSE
    <3>1. token[t].used = 0
      BY <1>1, <2>3 DEF TokensCreate, TokensInv, UseInv
    <3>2. token'[t].used = 0
      BY <2>1, <2>3 DEF TokensCreate
    <3> QED
      BY <3>1, <3>2
  <2>4. writing # NoUse /\ writing.token = t /\ token'[t].used = writing.ts
    BY <1>1, <2>2, <2>3, RowMoves
  <2>5. ~writing.late => token[t].used <= writing.ts
    BY <1>1, <2>4 DEF TokensInv, UseInv
  <2>6. writing.ts \in Nat
    BY <1>1, <2>4, TokensAssumption DEF TokensInv, TokensTypeOK, Use
  <2> QED
    BY <2>1, <2>4, <2>5, <2>6
<1>2. TokensInv /\ [TokensNext]_tokensVars => [\A t \in Token : Forward(t)]_tokensVars
  BY <1>1
<1> QED
  BY <1>2, TokensInvariant, PTL DEF TokensSpec, LastUseAdvances

-----------------------------------------------------------------------------
\* The gates share no variable (ratelimit.go, lockout.go and the tokens package
\* each keep their own), so a behaviour of MCGates is one of each of them.
THEOREM GatesStandApart == Spec => LimiterSpec /\ LockoutSpec /\ TokensSpec
<1>1. Init => LimiterInit /\ LockoutInit /\ TokensInit
  BY DEF Init
<1>2. [Next]_vars => [LimiterNext]_limiterVars
  BY DEF Next, vars
<1>3. [Next]_vars => [LockoutNext]_lockoutVars
  BY DEF Next, vars
<1>4. [Next]_vars => [TokensNext]_tokensVars
  BY DEF Next, vars
<1> QED
  BY <1>1, <1>2, <1>3, <1>4, PTL DEF Spec, LimiterSpec, LockoutSpec, TokensSpec

\* Limiter, counters and tokens are well formed however requests, logins and
\* the administrator's changes to tokens come.
THEOREM GatesTypeCorrect == Spec => []TypeOK
<1>1. RateLimitTypeOK /\ LockoutTypeOK /\ TokensTypeOK => TypeOK
  BY DEF TypeOK
<1> QED
  BY <1>1, GatesStandApart, LimiterTypeCorrect, LockoutTypeCorrect, TokensTypeCorrect, PTL
=============================================================================
