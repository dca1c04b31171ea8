---------------------------- MODULE LockoutProofs ----------------------------
(***************************************************************************)
(* Theorems about Lockout for every set of addresses and names, any finite *)
(* number of logins at a time and every policy.  What bounds the guesses   *)
(* is an invariant about a pair and its logins together: while a cool-down *)
(* is served, the misses counted and the logins still comparing cannot be  *)
(* more than were under way when it began.                                 *)
(***************************************************************************)
EXTENDS Lockout, FiniteSetTheorems, TLAPS

Logins          == Cardinality(Attempt)
Running(now, k) == {a \in Attempt : now[a] = k}

\* An entry whose pair has p logins comparing their passwords.
Bounded(e, p) ==
  /\ e.tried < MaxAttempts + Logins
  /\ IsLocked(e) => e.tried + p < MaxAttempts + Logins
  /\ ~IsLocked(e) /\ e.until = -1 => e.tried = e.failures /\ e.failures < MaxAttempts

CountInv == \A k \in DOMAIN entries : Bounded(entries[k], Cardinality(Running(attempt, k)))
TableInv == IsFiniteSet(DOMAIN entries) /\ TableIsBounded

LockoutInv == LockoutTypeOK /\ CountInv /\ TableInv

-----------------------------------------------------------------------------
(* Sets of logins, and the table.                                          *)

LEMMA LoginsAreFinite ==
  /\ Logins \in Nat
  /\ \A S \in SUBSET Attempt : Cardinality(S) \in Nat /\ Cardinality(S) <= Logins
  /\ \A S, T \in SUBSET Attempt : S \subseteq T => Cardinality(S) <= Cardinality(T)
<1>1. IsFiniteSet(Attempt)
  BY LockoutAssumption
<1>2. \A T \in SUBSET Attempt : IsFiniteSet(T)
  BY <1>1, FS_Subset
<1> QED
  BY <1>1, <1>2, FS_Subset, FS_CardinalityType DEF Logins

\* Fewer logins comparing, or the same entry grown older, keep the bound.
LEMMA BoundedDown ==
  ASSUME NEW e \in Entry, NEW p \in Nat, NEW q \in Nat, q <= p \/ ~IsLocked(e), Bounded(e, p)
  PROVE  Bounded(e, q)
  BY LoginsAreFinite, LockoutAssumption DEF Bounded, Entry

LEMMA NewEntryIsBounded ==
  ASSUME NEW p \in Nat
  PROVE  NewEntry \in Entry /\ Bounded(NewEntry, p) /\ ~IsLocked(NewEntry)
  BY LoginsAreFinite, LockoutAssumption DEF Bounded, Entry, NewEntry, IsLocked

\* The miss of one of p logins.
LEMMA MissIsCounted ==
  ASSUME NEW e \in Entry, NEW p \in Nat, p > 0, p <= Logins, forever \in BOOLEAN, Bounded(e, p)
  PROVE  Missed(e) \in Entry /\ Bounded(Missed(e), p - 1)
<1>1. /\ e.failures \in 0 .. MaxAttempts /\ e.until \in -1 .. Cooldown /\ e.indefinite \in BOOLEAN
      /\ e.idle \in 0 .. IdleTTL + 1 /\ e.tried \in Nat
      /\ MaxAttempts \in Nat \ {0} /\ Cooldown \in Nat \ {0} /\ IdleTTL \in Nat /\ Logins \in Nat
  BY LoginsAreFinite, LockoutAssumption DEF Entry
<1>2. CASE IsLocked(e)
  <2> DEFINE m == [e EXCEPT !.idle = 0, !.tried = @ + 1]
  <2>1. /\ m \in Entry /\ m.tried = e.tried + 1 /\ m.until = e.until
        /\ m.indefinite = e.indefinite
    <3> DEFINE t == e.tried + 1  F == 0 .. MaxAttempts  U == -1 .. Cooldown  I == 0 .. IdleTTL + 1
    <3>1. /\ e \in [failures: F, until: U, indefinite: BOOLEAN, idle: I, tried: Nat]
          /\ t \in Nat /\ 0 \in I
      BY <1>1 DEF Entry
    <3>2. m = [e EXCEPT !.idle = 0, !.tried = t]
      OBVIOUS
    <3> HIDE DEF t, F, U, I, m
    <3>3. /\ m \in [failures: F, until: U, indefinite: BOOLEAN, idle: I, tried: Nat]
          /\ m.tried = t /\ m.until = e.until /\ m.indefinite = e.indefinite
      BY <3>1, <3>2
    <3> QED
      BY <3>3 DEF Entry, t, F, U, I
  <2>2. Missed(e) = m
    BY <1>2 DEF Missed
  <2> HIDE DEF m
  <2>3. IsLocked(m)
    BY <1>2, <2>1 DEF IsLocked
  <2> QED
    BY <1>1, <1>2, <2>1, <2>2, <2>3 DEF Bounded
<1>3. CASE ~IsLocked(e)
  <2> DEFINE f == IF e.until = 0 THEN 0 ELSE e.failures
             n == f + 1
             d == IF n < MaxAttempts \/ forever THEN -1 ELSE Cooldown
             i == n >= MaxAttempts /\ forever
             m == [failures |-> n, until |-> d, indefinite |-> i, idle |-> 0, tried |-> n]
  <2>1. e.until \in {0, -1} /\ f \in 0 .. MaxAttempts - 1
        /\ (e.until # 0 => e.tried = e.failures)
    BY <1>1, <1>3 DEF IsLocked, Bounded
  <2>2. Missed(e) = m
    <3> DEFINE fresh == [e EXCEPT !.failures = 0, !.until = -1, !.tried = 0]
               base  == IF e.until = 0 THEN fresh ELSE e
    <3>1. /\ DOMAIN base = DOMAIN m
          /\ base.tried = f
      BY <1>1, <2>1 DEF Entry
    <3>2. Missed(e) = [base EXCEPT !.idle = 0, !.failures = n, !.tried = base.tried + 1,
                                   !.until = d, !.indefinite = i]
      BY <1>3, <3>1 DEF Missed
    <3> HIDE DEF base, n, d, i
    <3> QED
      BY <3>1, <3>2 DEF n
  <2>3. n \in 1 .. MaxAttempts /\ d \in -1 .. Cooldown /\ i \in BOOLEAN
    BY <1>1, <2>1
  <2>4. m \in Entry
    BY <1>1, <2>3 DEF Entry
  <2>5. /\ m.failures = n /\ m.until = d /\ m.indefinite = i /\ m.tried = n
    OBVIOUS
  <2>6. CASE n < MaxAttempts
    <3>1. d = -1 /\ ~i
      BY <1>1, <2>3, <2>6
    <3> HIDE DEF m, n, d, i
    <3>2. ~IsLocked(m)
      BY <2>5, <3>1 DEF IsLocked
    <3> QED
      BY <1>1, <2>2, <2>3, <2>4, <2>5, <2>6, <3>2 DEF Bounded
  <2>7. CASE n = MaxAttempts
    <3>1. IsLocked(m)
      BY <1>1, <2>5, <2>7 DEF IsLocked
    <3> HIDE DEF m
    <3> QED
      BY <1>1, <2>2, <2>3, <2>4, <2>5, <2>7, <3>1 DEF Bounded
  <2> QED
    BY <2>3, <2>6, <2>7, <1>1
<1> QED
  BY <1>2, <1>3

\* A tick brings the end of a cool-down nearer and counts nothing.
OlderEntry(e) == [e EXCEPT !.until = IF @ > 0 THEN @ - 1 ELSE @,
                      !.idle  = IF @ > IdleTTL THEN @ ELSE @ + 1]

LEMMA OlderIsBounded ==
  ASSUME NEW e \in Entry
  PROVE  /\ OlderEntry(e) \in Entry /\ OlderEntry(e).until <= e.until
         /\ OlderEntry(e).indefinite = e.indefinite
         /\ \A p \in Nat : Bounded(e, p) => Bounded(OlderEntry(e), p)
<1> DEFINE m == OlderEntry(e)
<1>1. /\ e.failures \in 0 .. MaxAttempts /\ e.until \in -1 .. Cooldown /\ e.indefinite \in BOOLEAN
      /\ e.idle \in 0 .. IdleTTL + 1 /\ e.tried \in Nat /\ Cooldown \in Nat /\ IdleTTL \in Nat
  BY LockoutAssumption DEF Entry
<1>2. /\ m.failures = e.failures /\ m.indefinite = e.indefinite /\ m.tried = e.tried
      /\ m.until = IF e.until > 0 THEN e.until - 1 ELSE e.until
  BY <1>1 DEF OlderEntry, Entry
<1>3. m \in Entry
  <2> DEFINE u == IF e.until > 0 THEN e.until - 1 ELSE e.until
             i == IF e.idle > IdleTTL THEN e.idle ELSE e.idle + 1
             F == 0 .. MaxAttempts  U == -1 .. Cooldown  I == 0 .. IdleTTL + 1
  <2>1. /\ e \in [failures: F, until: U, indefinite: BOOLEAN, idle: I, tried: Nat]
        /\ u \in U /\ i \in I
    BY <1>1 DEF Entry
  <2>2. m = [e EXCEPT !.until = u, !.idle = i]
    BY DEF OlderEntry
  <2> HIDE DEF u, i, F, U, I, m
  <2>3. m \in [failures: F, until: U, indefinite: BOOLEAN, idle: I, tried: Nat]
    BY <2>1, <2>2
  <2> QED
    BY <2>3 DEF Entry, F, U, I
<1> HIDE DEF m
<1>4. m.until <= e.until
  BY <1>1, <1>2
<1>5. \A p \in Nat : Bounded(e, p) => Bounded(m, p)
  BY <1>1, <1>2 DEF Bounded, IsLocked
<1> QED
  BY <1>2, <1>3, <1>4, <1>5 DEF m

-----------------------------------------------------------------------------
(* The table a miss is counted in.                                         *)

LEMMA WithoutKeeps ==
  ASSUME NEW t, NEW gone
  PROVE  /\ DOMAIN Without(t, gone) = DOMAIN t \ gone
         /\ \A k \in DOMAIN t \ gone : Without(t, gone)[k] = t[k]
  BY DEF Without

\* A sweep takes no pair in its cool-down.
LEMMA SweptKeeps ==
  ASSUME NEW t
  PROVE  /\ DOMAIN Swept(t) \subseteq DOMAIN t
         /\ \A k \in DOMAIN Swept(t) : Swept(t)[k] = t[k]
         /\ \A k \in DOMAIN t : IsLocked(t[k]) => k \in DOMAIN Swept(t)
<1>1. CASE gcAge < GCInterval
  BY <1>1 DEF Swept
<1>2. CASE ~(gcAge < GCInterval)
  <2> DEFINE gone == {k \in DOMAIN t : ~IsLocked(t[k]) /\ t[k].idle > IdleTTL}
  <2>1. Swept(t) = Without(t, gone)
    BY <1>2 DEF Swept
  <2>2. \A k \in DOMAIN t : IsLocked(t[k]) => k \notin gone
    OBVIOUS
  <2> HIDE DEF gone
  <2>3. DOMAIN Without(t, gone) = DOMAIN t \ gone
        /\ \A k \in DOMAIN t \ gone : Without(t, gone)[k] = t[k]
    BY WithoutKeeps
  <2> QED
    BY <2>1, <2>2, <2>3
<1> QED
  BY <1>1, <1>2

\* An eviction makes room for one, and takes a pair in its cool-down only when no
\* other is left.
LEMMA EvictionsKeep ==
  ASSUME NEW t, IsFiniteSet(DOMAIN t), Cardinality(DOMAIN t) <= MaxEntries, NEW S \in Evictions(t)
  PROVE  /\ S \subseteq DOMAIN t
         /\ Cardinality(DOMAIN t \ S) < MaxEntries
         /\ \A k \in S, l \in DOMAIN t \ S : IsLocked(t[k]) => IsLocked(t[l])
<1> DEFINE share == Cardinality(DOMAIN t) \div EvictFraction
           drop  == IF share = 0 THEN 1 ELSE share
<1>1. /\ S \subseteq DOMAIN t /\ Cardinality(S) = drop
      /\ \A k \in S, l \in DOMAIN t \ S : ~EvictedBefore(t, l, k)
  BY DEF Evictions
<1>2. Cardinality(DOMAIN t) \in Nat
  BY FS_CardinalityType
<1>3. share \in Nat
  <2>1. \A n \in Nat, e \in Nat \ {0} : n \div e \in Nat
    OBVIOUS
  <2> QED
    BY <1>2, <2>1, LockoutAssumption
<1>4. drop \in Nat \ {0}
  BY <1>3
<1>5. Cardinality(DOMAIN t \ S) = Cardinality(DOMAIN t) - Cardinality(DOMAIN t \cap S)
  BY FS_Difference
<1>6. DOMAIN t \cap S = S
  BY <1>1
<1>7. Cardinality(DOMAIN t \cap S) = drop
  BY <1>1, <1>6
<1> HIDE DEF drop, share
<1>8. Cardinality(DOMAIN t \ S) < MaxEntries
  BY <1>2, <1>4, <1>5, <1>7, LockoutAssumption
<1>9. \A k \in S, l \in DOMAIN t \ S : IsLocked(t[k]) => IsLocked(t[l])
  BY <1>1 DEF EvictedBefore
<1> QED
  BY <1>1, <1>8, <1>9

\* The table in which the miss of k is counted: part of the old one, with room
\* for k; a pair in its cool-down is missing only if all the others are in theirs,
\* and k was no old pair.
LEMMA RoomForOne ==
  ASSUME LockoutInv, NEW k, NEW t \in Room(Swept(entries), k)
  PROVE  /\ DOMAIN t \subseteq DOMAIN entries /\ \A l \in DOMAIN t : t[l] = entries[l]
         /\ IsFiniteSet(DOMAIN t) /\ Cardinality(DOMAIN t) <= MaxEntries
         /\ k \notin DOMAIN t => Cardinality(DOMAIN t) < MaxEntries
         /\ \A l \in DOMAIN entries : IsLocked(entries[l]) /\ l \notin DOMAIN t =>
              k \notin DOMAIN entries /\ \A m \in DOMAIN t : IsLocked(t[m])
<1> DEFINE s == Swept(entries)
<1>1. /\ DOMAIN s \subseteq DOMAIN entries /\ \A l \in DOMAIN s : s[l] = entries[l]
      /\ \A l \in DOMAIN entries : IsLocked(entries[l]) => l \in DOMAIN s
  BY SweptKeeps
<1>2. IsFiniteSet(DOMAIN entries) /\ Cardinality(DOMAIN entries) <= MaxEntries
  BY DEF LockoutInv, TableInv, TableIsBounded
<1>3. /\ IsFiniteSet(DOMAIN s) /\ Cardinality(DOMAIN s) <= Cardinality(DOMAIN entries)
      /\ Cardinality(DOMAIN s) = Cardinality(DOMAIN entries) => DOMAIN s = DOMAIN entries
      /\ Cardinality(DOMAIN s) \in Nat /\ Cardinality(DOMAIN entries) \in Nat /\ MaxEntries \in Nat
  BY <1>1, <1>2, FS_Subset, FS_CardinalityType, LockoutAssumption
<1> HIDE DEF s
<1>4. CASE k \in DOMAIN s \/ Cardinality(DOMAIN s) < MaxEntries
  <2>1. t = s
    BY <1>4 DEF Room, s
  <2> QED
    BY <1>1, <1>2, <1>3, <1>4, <2>1
<1>5. CASE k \notin DOMAIN s /\ ~(Cardinality(DOMAIN s) < MaxEntries)
  <2>1. PICK S \in Evictions(s) : t = Without(s, S)
    BY <1>5 DEF Room, s
  <2>2. DOMAIN s = DOMAIN entries
    BY <1>2, <1>3, <1>5
  <2>3. /\ Cardinality(DOMAIN s \ S) < MaxEntries
        /\ \A l \in S, m \in DOMAIN s \ S : IsLocked(s[l]) => IsLocked(s[m])
    BY <1>2, <1>3, EvictionsKeep
  <2>4. DOMAIN t = DOMAIN s \ S /\ \A l \in DOMAIN t : t[l] = s[l]
    <3>1. DOMAIN Without(s, S) = DOMAIN s \ S
      BY WithoutKeeps
    <3>2. \A l \in DOMAIN s \ S : Without(s, S)[l] = s[l]
      BY WithoutKeeps
    <3> QED
      BY <2>1, <3>1, <3>2
  <2>5. IsFiniteSet(DOMAIN t) /\ Cardinality(DOMAIN t) <= MaxEntries
    BY <1>3, <2>3, <2>4, FS_Subset, FS_CardinalityType
  <2> QED
    BY <1>1, <1>5, <2>2, <2>3, <2>4, <2>5
<1> QED
  BY <1>4, <1>5

-----------------------------------------------------------------------------
(* The steps.                                                              *)

LEMMA LockoutStart == LockoutInit => LockoutInv
<1> SUFFICES ASSUME LockoutInit PROVE LockoutInv
  OBVIOUS
<1>1. /\ forever \in BOOLEAN /\ DOMAIN entries = {} /\ gcAge = GCInterval
      /\ attempt = [a \in Attempt |-> <<>>]
  BY DEF LockoutInit
<1>2. LockoutTypeOK
  BY <1>1, LockoutAssumption DEF LockoutTypeOK
<1>3. CountInv /\ TableInv
  BY <1>1, FS_EmptySet, LockoutAssumption DEF CountInv, TableInv, TableIsBounded
<1> QED
  BY <1>2, <1>3 DEF LockoutInv

\* Pairs go away, the others stay as they are, no login begins.
LEMMA KeepLess ==
  ASSUME LockoutInv, UNCHANGED forever, gcAge' \in 0 .. GCInterval,
         DOMAIN entries' \subseteq DOMAIN entries,
         \A k \in DOMAIN entries' : entries'[k] = entries[k],
         attempt' \in [Attempt -> Key \cup {<<>>}],
         \A k \in DOMAIN entries' : Running(attempt', k) \subseteq Running(attempt, k) \/ ~IsLocked(entries[k])
  PROVE  LockoutInv'
<1>1. LockoutTypeOK'
  BY DEF LockoutInv, LockoutTypeOK
<1>2. TableInv'
  BY FS_Subset, FS_CardinalityType, LockoutAssumption DEF LockoutInv, TableInv, TableIsBounded
<1>3. CountInv'
  <2> SUFFICES ASSUME NEW k \in DOMAIN entries'
               PROVE  Bounded(entries'[k], Cardinality(Running(attempt', k)))
    BY DEF CountInv
  <2>1. entries[k] \in Entry /\ Bounded(entries[k], Cardinality(Running(attempt, k)))
    BY DEF LockoutInv, LockoutTypeOK, CountInv
  <2>2. Running(attempt, k) \in SUBSET Attempt /\ Running(attempt', k) \in SUBSET Attempt
    BY DEF Running
  <2>3. /\ Cardinality(Running(attempt, k)) \in Nat /\ Cardinality(Running(attempt', k)) \in Nat
        /\ Running(attempt', k) \subseteq Running(attempt, k) =>
             Cardinality(Running(attempt', k)) <= Cardinality(Running(attempt, k))
    BY <2>2, LoginsAreFinite
  <2> QED
    BY <2>1, <2>3, BoundedDown
<1> QED
  BY <1>1, <1>2, <1>3 DEF LockoutInv

LEMMA SweepIsTimed == LockoutInv /\ Sweep => gcAge' \in 0 .. GCInterval
  BY LockoutAssumption DEF LockoutInv, LockoutTypeOK, Sweep

LEMMA KeepLoginCheck ==
  ASSUME LockoutInv, NEW a \in Attempt, NEW k \in Key, LoginCheck(a, k) PROVE LockoutInv'
<1>1. /\ attempt[a] = <<>> /\ entries' = Swept(entries) /\ UNCHANGED forever
      /\ gcAge' \in 0 .. GCInterval
      /\ \/ UNCHANGED attempt
         \/ attempt' = [attempt EXCEPT ![a] = k] /\ ~Locked(entries, k)
  BY SweepIsTimed DEF LoginCheck
<1>2. attempt \in [Attempt -> Key \cup {<<>>}]
  BY DEF LockoutInv, LockoutTypeOK
<1>3. DOMAIN entries' \subseteq DOMAIN entries /\ \A l \in DOMAIN entries' : entries'[l] = entries[l]
  BY <1>1, SweptKeeps
<1>4. \A l \in DOMAIN entries' : Running(attempt', l) \subseteq Running(attempt, l) \/ ~IsLocked(entries[l])
  BY <1>1, <1>2, <1>3 DEF Running, Locked
<1>5. attempt' \in [Attempt -> Key \cup {<<>>}]
  BY <1>1, <1>2
<1> QED
  BY <1>1, <1>3, <1>4, <1>5, KeepLess

LEMMA EndsLogin ==
  ASSUME LockoutInv, NEW a \in Attempt, attempt' = [attempt EXCEPT ![a] = <<>>]
  PROVE  /\ attempt' \in [Attempt -> Key \cup {<<>>}]
         /\ \A k : Running(attempt', k) \subseteq Running(attempt, k) \/ k = <<>>
         /\ \A k \in Key : attempt[a] = k /\ k # <<>> => Running(attempt', k) = Running(attempt, k) \ {a}
  BY DEF LockoutInv, LockoutTypeOK, Running

LEMMA PairsAreNotEmpty == \A k \in Key : k # <<>>
  BY DEF Key

\* The miss is counted for its own pair and for one login that is over.
LEMMA KeepLoginWrong == ASSUME LockoutInv, NEW a \in Attempt, LoginWrong(a) PROVE LockoutInv'
<1> DEFINE k == attempt[a]
<1>1. /\ k # <<>> /\ k \in Key /\ UNCHANGED forever /\ gcAge' \in 0 .. GCInterval
      /\ attempt' = [attempt EXCEPT ![a] = <<>>] /\ RecordFailure(k)
  BY SweepIsTimed DEF LoginWrong, LockoutInv, LockoutTypeOK
<1>2. /\ attempt' \in [Attempt -> Key \cup {<<>>}]
      /\ \A l \in Key : Running(attempt', l) \subseteq Running(attempt, l)
      /\ Running(attempt', k) = Running(attempt, k) \ {a}
  BY <1>1, EndsLogin, PairsAreNotEmpty
<1>3. a \in Running(attempt, k)
  BY DEF Running
<1> HIDE DEF k
<1>4. PICK t \in Room(Swept(entries), k) :
        entries' = [l \in DOMAIN t \cup {k} |->
                      IF l = k THEN Missed(IF k \in DOMAIN t THEN t[k] ELSE NewEntry) ELSE t[l]]
  BY <1>1 DEF RecordFailure
<1> DEFINE e == IF k \in DOMAIN t THEN t[k] ELSE NewEntry
           p == Cardinality(Running(attempt, k))
<1>5. /\ DOMAIN t \subseteq DOMAIN entries /\ \A l \in DOMAIN t : t[l] = entries[l]
      /\ IsFiniteSet(DOMAIN t) /\ Cardinality(DOMAIN t) <= MaxEntries
      /\ k \notin DOMAIN t => Cardinality(DOMAIN t) < MaxEntries
  BY <1>4, RoomForOne
<1>6. p \in Nat /\ p > 0 /\ p <= Logins /\ Cardinality(Running(attempt', k)) = p - 1
  <2>1. Running(attempt, k) \in SUBSET Attempt
    BY DEF Running
  <2>2. IsFiniteSet(Running(attempt, k))
    BY <2>1, FS_Subset, LockoutAssumption
  <2>3. Cardinality(Running(attempt, k) \ {a}) = Cardinality(Running(attempt, k)) - 1
    BY <1>3, <2>2, FS_RemoveElement
  <2>4. Running(attempt, k) \ {a} \in SUBSET Attempt
    BY <2>1
  <2> QED
    BY <1>2, <2>1, <2>3, <2>4, LoginsAreFinite
<1>7. e \in Entry /\ Bounded(e, p)
  BY <1>5, <1>6, NewEntryIsBounded DEF LockoutInv, LockoutTypeOK, CountInv
<1>8. Missed(e) \in Entry /\ Bounded(Missed(e), p - 1)
  BY <1>6, <1>7, MissIsCounted DEF LockoutInv, LockoutTypeOK
<1>9. /\ DOMAIN entries' = DOMAIN t \cup {k}
      /\ entries'[k] = Missed(e)
      /\ \A l \in DOMAIN t \ {k} : entries'[l] = entries[l]
  BY <1>4, <1>5
<1> HIDE DEF e, p
<1>10. LockoutTypeOK'
  BY <1>1, <1>2, <1>5, <1>8, <1>9 DEF LockoutInv, LockoutTypeOK
<1>11. TableInv'
  <2> DEFINE D == DOMAIN t
  <2>1. /\ IsFiniteSet(D \cup {k})
        /\ Cardinality(D \cup {k}) = IF k \in D THEN Cardinality(D) ELSE Cardinality(D) + 1
        /\ Cardinality(D) \in Nat
    BY <1>5, FS_AddElement, FS_CardinalityType
  <2>2. IsFiniteSet(DOMAIN entries') /\ Cardinality(DOMAIN entries') <= MaxEntries
    BY <1>5, <1>9, <2>1, LockoutAssumption
  <2> QED
    BY <2>2 DEF TableInv, TableIsBounded
<1>12. CountInv'
  <2> SUFFICES ASSUME NEW l \in DOMAIN entries'
               PROVE  Bounded(entries'[l], Cardinality(Running(attempt', l)))
    BY DEF CountInv
  <2>1. CASE l = k
    BY <1>6, <1>8, <1>9, <2>1
  <2>2. CASE l # k
    <3>1. /\ entries'[l] = entries[l] /\ entries[l] \in Entry
          /\ Bounded(entries[l], Cardinality(Running(attempt, l))) /\ l \in Key
      BY <1>5, <1>9, <2>2 DEF LockoutInv, LockoutTypeOK, CountInv
    <3>2. Running(attempt', l) \in SUBSET Running(attempt, l) /\ Running(attempt, l) \in SUBSET Attempt
          /\ Running(attempt', l) \in SUBSET Attempt
      BY <1>2, <3>1 DEF Running
    <3>3. Cardinality(Running(attempt, l)) \in Nat /\ Cardinality(Running(attempt', l)) \in Nat
          /\ Cardinality(Running(attempt', l)) <= Cardinality(Running(attempt, l))
      BY <3>2, LoginsAreFinite
    <3> QED
      BY <3>1, <3>3, BoundedDown
  <2> QED
    BY <2>1, <2>2
<1> QED
  BY <1>10, <1>11, <1>12 DEF LockoutInv

LEMMA KeepLoginOver ==
  ASSUME LockoutInv, NEW a \in Attempt, LoginRight(a) \/ LoginLocked(a) PROVE LockoutInv'
<1>1. /\ UNCHANGED <<gcAge, forever>> /\ attempt' = [attempt EXCEPT ![a] = <<>>]
      /\ entries' = Without(entries, {attempt[a]}) \/ UNCHANGED entries
  BY DEF LoginRight, LoginLocked
<1>2. DOMAIN entries' \subseteq DOMAIN entries /\ \A l \in DOMAIN entries' : entries'[l] = entries[l]
  BY <1>1 DEF Without
<1>3. /\ attempt' \in [Attempt -> Key \cup {<<>>}]
      /\ \A l \in Key : Running(attempt', l) \subseteq Running(attempt, l)
  BY <1>1, EndsLogin, PairsAreNotEmpty
<1>4. DOMAIN entries' \subseteq Key /\ gcAge' \in 0 .. GCInterval
  BY <1>1, <1>2 DEF LockoutInv, LockoutTypeOK
<1> QED
  BY <1>1, <1>2, <1>3, <1>4, KeepLess

LEMMA KeepClearUsername == ASSUME LockoutInv, NEW n \in Name, ClearUsername(n) PROVE LockoutInv'
<1>1. /\ UNCHANGED <<gcAge, attempt, forever>>
      /\ entries' = Without(entries, {k \in DOMAIN entries : k[2] = n})
  BY DEF ClearUsername
<1>2. DOMAIN entries' \subseteq DOMAIN entries /\ \A l \in DOMAIN entries' : entries'[l] = entries[l]
  BY <1>1 DEF Without
<1>3. \A l : Running(attempt', l) = Running(attempt, l)
  BY <1>1 DEF Running
<1>4. gcAge' \in 0 .. GCInterval /\ attempt' \in [Attempt -> Key \cup {<<>>}]
  BY <1>1 DEF LockoutInv, LockoutTypeOK
<1> QED
  BY <1>1, <1>2, <1>3, <1>4, KeepLess

LEMMA KeepRestart == ASSUME LockoutInv, Restart PROVE LockoutInv'
<1>1. /\ UNCHANGED forever /\ DOMAIN entries' = {} /\ gcAge' = GCInterval
      /\ attempt' = [a \in Attempt |-> <<>>]
  BY DEF Restart
<1>2. gcAge' \in 0 .. GCInterval /\ attempt' \in [Attempt -> Key \cup {<<>>}]
  BY <1>1, LockoutAssumption
<1> QED
  BY <1>1, <1>2, KeepLess

LEMMA KeepTick == ASSUME LockoutInv, Tick PROVE LockoutInv'
<1>1. /\ entries' = [k \in DOMAIN entries |-> OlderEntry(entries[k])] /\ UNCHANGED <<attempt, forever>>
      /\ gcAge' = IF gcAge < GCInterval THEN gcAge + 1 ELSE gcAge
  BY DEF Tick, OlderEntry
<1>2. \A k \in DOMAIN entries : OlderEntry(entries[k]) \in Entry
  BY OlderIsBounded DEF LockoutInv, LockoutTypeOK
<1>3. gcAge' \in 0 .. GCInterval
  BY <1>1, LockoutAssumption DEF LockoutInv, LockoutTypeOK
<1>4. LockoutTypeOK'
  BY <1>1, <1>2, <1>3 DEF LockoutInv, LockoutTypeOK
<1>5. CountInv'
  <2> SUFFICES ASSUME NEW k \in DOMAIN entries'
               PROVE  Bounded(entries'[k], Cardinality(Running(attempt', k)))
    BY DEF CountInv
  <2>1. /\ entries'[k] = OlderEntry(entries[k]) /\ Running(attempt', k) = Running(attempt, k)
        /\ entries[k] \in Entry /\ Bounded(entries[k], Cardinality(Running(attempt, k)))
    BY <1>1 DEF LockoutInv, LockoutTypeOK, CountInv, Running
  <2>2. Cardinality(Running(attempt, k)) \in Nat
    <3>1. Running(attempt, k) \in SUBSET Attempt
      BY DEF Running
    <3> QED
      BY <3>1, LoginsAreFinite
  <2> QED
    BY <2>1, <2>2, OlderIsBounded
<1>6. TableInv'
  BY <1>1 DEF LockoutInv, TableInv, TableIsBounded
<1> QED
  BY <1>4, <1>5, <1>6 DEF LockoutInv

LEMMA LockoutStep == LockoutInv /\ [LockoutNext]_lockoutVars => LockoutInv'
<1> SUFFICES ASSUME LockoutInv, [LockoutNext]_lockoutVars PROVE LockoutInv'
  OBVIOUS
<1>1. CASE UNCHANGED lockoutVars
  BY <1>1 DEF lockoutVars, LockoutInv, LockoutTypeOK, CountInv, Running, TableInv, TableIsBounded
<1> QED
  BY <1>1, KeepLoginCheck, KeepLoginWrong, KeepLoginOver, KeepClearUsername, KeepRestart, KeepTick
  DEF LockoutNext

LEMMA LockoutInvariant == LockoutSpec => []LockoutInv
  BY LockoutStart, LockoutStep, PTL DEF LockoutSpec

-----------------------------------------------------------------------------
(* The theorems.                                                           *)

\* The table, the logins and the time of the sweep keep their types.
THEOREM LockoutTypeCorrect == LockoutSpec => []LockoutTypeOK
<1>1. LockoutInv => LockoutTypeOK
  BY DEF LockoutInv
<1> QED
  BY <1>1, LockoutInvariant, PTL

\* However many logins run at a time, no pair gets more wrong guesses in a cycle
\* than the policy and those logins together.
THEOREM GuessingIsLimited == LockoutSpec => []GuessesAreBounded
<1>1. LockoutInv => GuessesAreBounded
  BY DEF LockoutInv, CountInv, Bounded, GuessesAreBounded, Logins
<1> QED
  BY <1>1, LockoutInvariant, PTL

\* Whoever fills the table, it stays within its cap.
THEOREM TheTableIsCapped == LockoutSpec => []TableIsBounded
<1>1. LockoutInv => TableIsBounded
  BY DEF LockoutInv, TableInv
<1> QED
  BY <1>1, LockoutInvariant, PTL

\* A cool-down under way, in one step: it is served to its end but for the cases
\* CooldownsRunOut names.
RunsOut(k) ==
  IF k \in DOMAIN entries'
    THEN /\ entries'[k].until <= entries[k].until
         /\ entries'[k].until = entries[k].until \/ Tick
         /\ entries'[k].indefinite = entries[k].indefinite
    ELSE \/ Restart \/ ClearUsername(k[2])
         \/ \E a \in Attempt : attempt[a] = k /\ LoginRight(a)
         \/ \A l \in DOMAIN entries' : l \in DOMAIN entries => IsLocked(entries'[l])

LEMMA UnchangedRunsOut ==
  ASSUME LockoutInv, NEW k \in DOMAIN entries, k \in DOMAIN entries', entries'[k] = entries[k]
  PROVE  RunsOut(k)
<1>1. entries[k].until \in Int
  BY LockoutAssumption DEF LockoutInv, LockoutTypeOK, Entry
<1> QED
  BY <1>1 DEF RunsOut

\* A miss leaves a cool-down as long as it is, and evicts one only when every
\* pair but the new one is in one.
LEMMA MissRunsOut ==
  ASSUME LockoutInv, NEW a \in Attempt, LoginWrong(a), NEW l \in DOMAIN entries, IsLocked(entries[l])
  PROVE  RunsOut(l)
<1> DEFINE k == attempt[a]
<1>1. RecordFailure(k)
  BY DEF LoginWrong
<1> HIDE DEF k
<1>2. PICK t \in Room(Swept(entries), k) :
        entries' = [m \in DOMAIN t \cup {k} |->
                      IF m = k THEN Missed(IF k \in DOMAIN t THEN t[k] ELSE NewEntry) ELSE t[m]]
  BY <1>1 DEF RecordFailure
<1>3. /\ DOMAIN t \subseteq DOMAIN entries /\ \A m \in DOMAIN t : t[m] = entries[m]
      /\ l \notin DOMAIN t => k \notin DOMAIN entries /\ \A m \in DOMAIN t : IsLocked(t[m])
  BY <1>2, RoomForOne
<1>4. CASE l \notin DOMAIN t
  <2>1. l # k /\ l \notin DOMAIN entries'
    BY <1>2, <1>3, <1>4
  <2>2. \A m \in DOMAIN entries' : m \in DOMAIN entries => IsLocked(entries'[m])
    BY <1>2, <1>3, <1>4
  <2> QED
    BY <2>1, <2>2 DEF RunsOut
<1>5. CASE l \in DOMAIN t /\ l # k
  <2>1. l \in DOMAIN entries' /\ entries'[l] = entries[l]
    BY <1>2, <1>3, <1>5
  <2> QED
    BY <2>1, UnchangedRunsOut
<1>6. CASE l \in DOMAIN t /\ l = k
  <2>1. l \in DOMAIN entries' /\ entries'[l] = Missed(entries[l])
    BY <1>2, <1>3, <1>6
  <2>2. Missed(entries[l]) = [entries[l] EXCEPT !.idle = 0, !.tried = @ + 1]
    BY DEF Missed
  <2>3. entries[l] \in Entry /\ entries[l].until \in Int
    BY LockoutAssumption DEF LockoutInv, LockoutTypeOK, Entry
  <2>4. entries'[l].until = entries[l].until /\ entries'[l].indefinite = entries[l].indefinite
    BY <2>1, <2>2, <2>3 DEF Entry
  <2> QED
    BY <2>1, <2>3, <2>4 DEF RunsOut
<1> QED
  BY <1>4, <1>5, <1>6

LEMMA StepRunsOut ==
  ASSUME LockoutInv, [LockoutNext]_lockoutVars, NEW k \in DOMAIN entries, IsLocked(entries[k])
  PROVE  RunsOut(k)
<1>1. ASSUME NEW a \in Attempt, NEW l \in Key, LoginCheck(a, l) PROVE RunsOut(k)
  <2>1. k \in DOMAIN entries' /\ entries'[k] = entries[k]
    BY <1>1, SweptKeeps DEF LoginCheck
  <2> QED
    BY <2>1, UnchangedRunsOut
<1>2. ASSUME NEW a \in Attempt, LoginRight(a) PROVE RunsOut(k)
  <2>1. entries' = Without(entries, {attempt[a]})
    BY <1>2 DEF LoginRight
  <2>2. CASE k = attempt[a]
    BY <1>2, <2>1, <2>2 DEF RunsOut, Without
  <2>3. CASE k # attempt[a]
    BY <2>1, <2>3, UnchangedRunsOut DEF Without
  <2> QED
    BY <2>2, <2>3
<1>3. ASSUME NEW n \in Name, ClearUsername(n) PROVE RunsOut(k)
  <2>1. entries' = Without(entries, {l \in DOMAIN entries : l[2] = n})
    BY <1>3 DEF ClearUsername
  <2>2. CASE k[2] = n
    BY <1>3, <2>1, <2>2 DEF RunsOut, Without
  <2>3. CASE k[2] # n
    BY <2>1, <2>3, UnchangedRunsOut DEF Without
  <2> QED
    BY <2>2, <2>3
<1>4. CASE Restart
  <2>1. DOMAIN entries' = {}
    BY <1>4 DEF Restart
  <2> QED
    BY <1>4, <2>1 DEF RunsOut
<1>5. CASE Tick
  <2>1. entries' = [l \in DOMAIN entries |-> OlderEntry(entries[l])]
    BY <1>5 DEF Tick, OlderEntry
  <2>2. entries[k] \in Entry
    BY DEF LockoutInv, LockoutTypeOK
  <2> QED
    BY <1>5, <2>1, <2>2, OlderIsBounded DEF RunsOut
<1>6. CASE UNCHANGED entries
  BY <1>6, UnchangedRunsOut
<1> QED
  BY <1>1, <1>2, <1>3, <1>4, <1>5, <1>6, MissRunsOut DEF LockoutNext, LoginLocked, lockoutVars

\* A cool-down is never made longer, and ends early only by the ways out that
\* CooldownsRunOut names.
THEOREM CooldownsAreServed == LockoutSpec => CooldownsRunOut
<1>1. LockoutInv /\ [LockoutNext]_lockoutVars =>
        [\A k \in DOMAIN entries : IsLocked(entries[k]) => RunsOut(k)]_lockoutVars
  BY StepRunsOut
<1> QED
  BY <1>1, LockoutInvariant, PTL DEF LockoutSpec, CooldownsRunOut, RunsOut
=============================================================================
