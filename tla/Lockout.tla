------------------------------- MODULE Lockout -------------------------------
(***************************************************************************)
(* The failed-login counters, kept in memory per client address and        *)
(* submitted username (backend/internal/auth/lockout.go), and the part of  *)
(* Service.Login that reads and writes them.  Every method holds the       *)
(* tracker's mutex, so it is one step; between the check and the verdict   *)
(* of a login lies a slow password comparison, during which others run.    *)
(*                                                                         *)
(* Times are kept relative to now, in ticks: how long a cool-down still    *)
(* lasts, how long ago an entry was last touched and the table was swept.  *)
(***************************************************************************)
EXTENDS Integers, FiniteSets

CONSTANTS
  Client,        \* addresses
  Name,          \* submitted usernames, in lower case
  Attempt,       \* slots for logins running at the same time
  MaxAttempts,   \* misses that lock a pair
  Cooldown,      \* how long that lock lasts, unless the policy says for ever
  IdleTTL,       \* how long an untouched entry lasts
  GCInterval,    \* least time between two sweeps
  MaxEntries,    \* cap of the table
  EvictFraction  \* share of the table an eviction drops, as its reciprocal

ASSUME LockoutAssumption ==
  /\ MaxAttempts \in Nat \ {0} /\ Cooldown \in Nat \ {0} /\ IdleTTL \in Nat
  /\ GCInterval \in Nat \ {0} /\ MaxEntries \in Nat \ {0} /\ EvictFraction \in Nat \ {0}
  /\ IsFiniteSet(Attempt)   \* logins at any one time

VARIABLES
  forever,   \* the policy's cool-down is <= 0
  entries,   \* the table: a function on the pairs it tracks
  gcAge,     \* ticks since the last sweep
  attempt    \* the pair of each login that is comparing the password

lockoutVars == <<forever, entries, gcAge, attempt>>

Key == Client \X Name

\* `until': ticks left of the cool-down, 0 once it has lapsed, -1 without one.
\* `tried' is history: the passwords found wrong since the count began.
Entry == [failures: 0 .. MaxAttempts, until: -1 .. Cooldown, indefinite: BOOLEAN,
          idle: 0 .. IdleTTL + 1, tried: Nat]
NewEntry == [failures |-> 0, until |-> -1, indefinite |-> FALSE, idle |-> 0, tried |-> 0]

LockoutTypeOK ==
  /\ forever \in BOOLEAN
  /\ DOMAIN entries \subseteq Key
  /\ \A k \in DOMAIN entries : entries[k] \in Entry
  /\ gcAge \in 0 .. GCInterval
  /\ attempt \in [Attempt -> Key \cup {<<>>}]

\* SetLockoutPolicy is called once, at the start.
LockoutInit ==
  /\ forever \in BOOLEAN
  /\ entries = <<>>
  /\ gcAge = GCInterval
  /\ attempt = [a \in Attempt |-> <<>>]

-----------------------------------------------------------------------------
(* The tracker.                                                            *)

IsLocked(e) == e.indefinite \/ e.until > 0

Without(t, gone) == [k \in DOMAIN t \ gone |-> t[k]]

\* gcLocked.
Swept(t) ==
  IF gcAge < GCInterval THEN t
  ELSE Without(t, {k \in DOMAIN t : ~IsLocked(t[k]) /\ t[k].idle > IdleTTL})

Sweep == gcAge' = IF gcAge < GCInterval THEN gcAge ELSE 0

\* evictLocked drops pairs without a lock first, then those not seen longest.
EvictedBefore(t, k, l) ==
  IF IsLocked(t[k]) # IsLocked(t[l]) THEN ~IsLocked(t[k]) ELSE t[k].idle > t[l].idle

Evictions(t) ==
  LET share == Cardinality(DOMAIN t) \div EvictFraction
      drop  == IF share = 0 THEN 1 ELSE share
  IN {S \in SUBSET DOMAIN t : Cardinality(S) = drop
        /\ \A k \in S, l \in DOMAIN t \ S : ~EvictedBefore(t, l, k)}

\* Faulty variant: a full table makes no room.
Room_None(t, k) == {t}

\* The tables recordFailure may go on with before it looks at k's entry.
Room(t, k) ==
  IF k \in DOMAIN t \/ Cardinality(DOMAIN t) < MaxEntries THEN {t}
  ELSE {Without(t, S) : S \in Evictions(t)}

\* Faulty variant: a miss during the cool-down starts it again.
Missed_Extends(e) ==
  LET base == IF e.until = 0 THEN [e EXCEPT !.failures = 0, !.until = -1, !.tried = 0] ELSE e
      n    == IF base.failures < MaxAttempts THEN base.failures + 1 ELSE MaxAttempts
  IN [base EXCEPT !.idle = 0, !.failures = n, !.tried = @ + 1,
        !.until = IF n < MaxAttempts \/ forever THEN -1 ELSE Cooldown,
        !.indefinite = n >= MaxAttempts /\ forever]

\* One more miss in e.  A cool-down being served is not extended; one that has
\* lapsed leaves a clean slate.
Missed(e) ==
  LET fresh == [e EXCEPT !.failures = 0, !.until = -1, !.tried = 0]
      base  == IF e.until = 0 THEN fresh ELSE e
      n     == base.failures + 1
  IN IF IsLocked(e) THEN [e EXCEPT !.idle = 0, !.tried = @ + 1]
     ELSE [base EXCEPT !.idle = 0, !.failures = n, !.tried = @ + 1,
             !.until = IF n < MaxAttempts \/ forever THEN -1 ELSE Cooldown,
             !.indefinite = n >= MaxAttempts /\ forever]

\* recordFailure.
RecordFailure(k) ==
  \E t \in Room(Swept(entries), k) :
    LET e == IF k \in DOMAIN t THEN t[k] ELSE NewEntry
    IN entries' = [l \in DOMAIN t \cup {k} |-> IF l = k THEN Missed(e) ELSE t[l]]

Locked(t, k) == k \in DOMAIN t /\ IsLocked(t[k])

-----------------------------------------------------------------------------
(* Login.                                                                  *)

\* Faulty variant: the cool-down is looked up with the account, after the
\* password.
LoginCheck_Late(a, k) ==
  /\ attempt[a] = <<>>
  /\ entries' = Swept(entries)
  /\ Sweep
  /\ attempt' = [attempt EXCEPT ![a] = k]
  /\ UNCHANGED forever

\* The cool-down answers before anything else is looked at.
LoginCheck(a, k) ==
  /\ attempt[a] = <<>>
  /\ entries' = Swept(entries)
  /\ Sweep
  /\ attempt' = IF Locked(entries, k) THEN attempt ELSE [attempt EXCEPT ![a] = k]
  /\ UNCHANGED forever

\* No such user, or the wrong password for one: both count.
LoginWrong(a) ==
  /\ attempt[a] # <<>>
  /\ RecordFailure(attempt[a])
  /\ Sweep
  /\ attempt' = [attempt EXCEPT ![a] = <<>>]
  /\ UNCHANGED forever

LoginRight(a) ==
  /\ attempt[a] # <<>>
  /\ entries' = Without(entries, {attempt[a]})
  /\ attempt' = [attempt EXCEPT ![a] = <<>>]
  /\ UNCHANGED <<gcAge, forever>>

\* The password is right and the account's row carries a lock, or the database
\* fails: the counters stay.
LoginLocked(a) ==
  /\ attempt[a] # <<>>
  /\ attempt' = [attempt EXCEPT ![a] = <<>>]
  /\ UNCHANGED <<entries, gcAge, forever>>

\* The administrator's unlock and clear-cooldowns: the name at every address.
ClearUsername(n) ==
  /\ entries' = Without(entries, {k \in DOMAIN entries : k[2] = n})
  /\ UNCHANGED <<gcAge, attempt, forever>>

\* The table does not outlive the process.
Restart ==
  /\ entries' = <<>>
  /\ gcAge' = GCInterval
  /\ attempt' = [a \in Attempt |-> <<>>]
  /\ UNCHANGED forever

Tick ==
  /\ entries' = [k \in DOMAIN entries |-> [entries[k] EXCEPT
       !.until = IF @ > 0 THEN @ - 1 ELSE @,
       !.idle  = IF @ > IdleTTL THEN @ ELSE @ + 1]]
  /\ gcAge' = IF gcAge < GCInterval THEN gcAge + 1 ELSE gcAge
  /\ UNCHANGED <<attempt, forever>>

LockoutNext ==
  \/ \E a \in Attempt :
       \/ \E k \in Key : LoginCheck(a, k)
       \/ LoginWrong(a) \/ LoginRight(a) \/ LoginLocked(a)
  \/ \E n \in Name : ClearUsername(n)
  \/ Restart
  \/ Tick

LockoutSpec == LockoutInit /\ [][LockoutNext]_lockoutVars

-----------------------------------------------------------------------------
(* Properties.                                                             *)

\* However many logins run at once, a pair is told of no more wrong passwords
\* in one cycle than the policy allows and the logins that were already
\* comparing theirs when the lock came (lockout.go:147, service.go:205).
GuessesAreBounded ==
  \A k \in DOMAIN entries : entries[k].tried < MaxAttempts + Cardinality(Attempt)

\* The table never outgrows its cap, whoever fills it (lockout.go:156).
TableIsBounded == Cardinality(DOMAIN entries) <= MaxEntries

\* A cool-down being served is never made longer, and before its end it is
\* lifted only for the whole name, by a restart, by a login of the same pair
\* that had passed the check, or by an eviction that found no pair without a
\* lock left to drop (lockout.go:164, :269).
CooldownsRunOut ==
  [][\A k \in DOMAIN entries : IsLocked(entries[k]) =>
       IF k \in DOMAIN entries'
         THEN /\ entries'[k].until <= entries[k].until
              /\ entries'[k].until = entries[k].until \/ Tick
              /\ entries'[k].indefinite = entries[k].indefinite
         ELSE \/ Restart \/ ClearUsername(k[2])
              \/ \E a \in Attempt : attempt[a] = k /\ LoginRight(a)
              \/ \A l \in DOMAIN entries' : l \in DOMAIN entries => IsLocked(entries'[l])]_lockoutVars
=============================================================================
