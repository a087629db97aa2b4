---------------------------- MODULE AuthLimit_proof ----------------------------
(***************************************************************************)
(* Proofs about AuthLimit, for any policy, any finite set of handlers and  *)
(* any peers and accounts.                                                 *)
(***************************************************************************)
EXTENDS AuthLimit, FiniteSetTheorems, TLAPS

--------------------------------------------------------------------------------
(* The operations on one bucket.                                           *)

\* A threshold is a positive number.
LEMMA ThresholdType ==
    ASSUME NEW k \in Key
    PROVE  thresholdFor(k) \in Nat /\ thresholdFor(k) > 0
BY PolicyAssumption DEF thresholdFor

\* The zero time, as a number.
LEMMA NeverType == Never \in Int
BY DEF Never

\* Lock expiry keeps a bucket a bucket and raises no count.
LEMMA ExpireLockFacts ==
    ASSUME NEW k \in Key, NEW s \in State
    PROVE  /\ ExpireLock(k, s) \in State
           /\ ExpireLock(k, s).failures <= s.failures
           /\ ExpireLock(k, s).pending = s.pending
           /\ ExpireLock(k, s).lastSeen = s.lastSeen
<1>1. CASE s.lock # 0
  <2>1. ExpireLock(k, s) = s
    BY <1>1 DEF ExpireLock
  <2> QED
    BY <2>1 DEF State
<1>2. CASE s.lock = 0
  <2> DEFINE n == IF s.failures >= thresholdFor(k) THEN thresholdFor(k) - 1 ELSE s.failures
             t == [s EXCEPT !.lock = Never, !.failures = n]
  <2>1. thresholdFor(k) \in Nat /\ thresholdFor(k) > 0
    BY ThresholdType
  <2>2. n \in Nat /\ n <= s.failures
    BY <2>1 DEF State
  <2>3. ExpireLock(k, s) = t
    BY <1>2 DEF ExpireLock
  <2> HIDE DEF n
  <2>4. t \in State
    BY <2>2, NeverType, Zenon DEF State
  <2>5. t.failures = n /\ t.pending = s.pending /\ t.lastSeen = s.lastSeen
    BY DEF State
  <2> QED
    BY <2>2, <2>3, <2>4, <2>5
<1> QED
  BY <1>1, <1>2

\* So does the expiry of a streak.
LEMMA ExpireStreakFacts ==
    ASSUME NEW s \in State
    PROVE  /\ ExpireStreak(s) \in State
           /\ ExpireStreak(s).failures <= s.failures
           /\ ExpireStreak(s).pending = s.pending
           /\ ExpireStreak(s).lastSeen = s.lastSeen
<1> DEFINE t == [s EXCEPT !.failures = 0, !.lockLen = 0, !.lastFailure = Never]
<1>1. t \in State
  <2>1. 0 \in Nat
    OBVIOUS
  <2> QED
    BY <2>1, NeverType, Zenon DEF State
<1>2. t.failures = 0 /\ t.pending = s.pending /\ t.lastSeen = s.lastSeen
  BY DEF State
<1>3. ExpireStreak(s) = s \/ ExpireStreak(s) = t
  BY DEF ExpireStreak
<1>4. 0 <= s.failures /\ s.failures <= s.failures
  BY DEF State
<1> QED
  BY <1>1, <1>2, <1>3, <1>4

\* Reservations are dropped only from a bucket nobody touched for a Window, or when
\* they exceed the threshold.
LEMMA DropLeakedFacts ==
    ASSUME NEW k \in Key, NEW s \in State
    PROVE  /\ DropLeaked(k, s) \in State
           /\ DropLeaked(k, s).failures = s.failures
           /\ DropLeaked(k, s).pending <= s.pending
           /\ DropLeaked(k, s).lastSeen = s.lastSeen
           /\ s.lastSeen < Window /\ s.pending <= thresholdFor(k)
                 => DropLeaked(k, s).pending = s.pending
<1>1. thresholdFor(k) \in Nat /\ thresholdFor(k) > 0
  BY ThresholdType
<1> QED
  BY <1>1, PolicyAssumption DEF DropLeaked, State

\* refreshLocked keeps a bucket a bucket, never raises a count past the threshold,
\* and spares the reservations of a bucket touched within a Window.
LEMMA RefreshFacts ==
    ASSUME NEW k \in Key, NEW s \in State
    PROVE  /\ refresh(k, s) \in State
           /\ refresh(k, s).lastSeen = s.lastSeen
           /\ s.failures + s.pending <= thresholdFor(k)
                 => /\ refresh(k, s).failures + refresh(k, s).pending <= thresholdFor(k)
                    /\ s.lastSeen < Window => refresh(k, s).pending = s.pending
<1> DEFINE t == ExpireLock(k, s)
           u == ExpireStreak(t)
           v == DropLeaked(k, u)
<1>1. /\ t \in State /\ t.failures <= s.failures
      /\ t.pending = s.pending /\ t.lastSeen = s.lastSeen
  BY ExpireLockFacts
<1> HIDE DEF t
<1>2. /\ u \in State /\ u.failures <= t.failures
      /\ u.pending = t.pending /\ u.lastSeen = t.lastSeen
  BY <1>1, ExpireStreakFacts
<1> HIDE DEF u
<1>3. /\ v \in State /\ v.failures = u.failures
      /\ v.pending <= u.pending /\ v.lastSeen = u.lastSeen
      /\ u.lastSeen < Window /\ u.pending <= thresholdFor(k) => v.pending = u.pending
  BY <1>2, DropLeakedFacts
<1> HIDE DEF v
<1>4. refresh(k, s) = v
  BY DEF refresh, t, u, v
<1>5. /\ \A x \in {s, t, u, v} : x.failures \in Nat /\ x.pending \in Nat
      /\ thresholdFor(k) \in Nat
  BY <1>1, <1>2, <1>3, ThresholdType DEF State
<1> QED
  BY <1>1, <1>2, <1>3, <1>4, <1>5

\* The updates of one field.
LEMMA SmallUpdates ==
    ASSUME NEW s \in State
    PROVE  /\ Zero \in State
           /\ Touch(s) \in State
           /\ Reserve(s) \in State
           /\ Unreserve(s) \in State
BY DEF Zero, Touch, Reserve, Unreserve, State, Never

\* Success leaves no failure and returns one reservation.
LEMMA ClearFacts ==
    ASSUME NEW s \in State
    PROVE  /\ Clear(s) \in State
           /\ Clear(s).failures = 0
           /\ Clear(s).pending = Unreserve(s).pending
           /\ Clear(s).lastSeen = s.lastSeen
<1> DEFINE u == Unreserve(s)
<1>1. u \in State /\ u.lastSeen = s.lastSeen
  BY DEF Unreserve, State
<1>2. Clear(s) = [u EXCEPT !.failures = 0, !.lockLen = 0, !.lock = Never, !.lastFailure = Never]
  BY DEF Clear
<1> HIDE DEF u
<1>3. Clear(s) \in State
  <2>1. 0 \in Nat
    OBVIOUS
  <2> QED
    BY <1>1, <1>2, <2>1, NeverType, Zenon DEF State
<1>4. Clear(s).failures = 0 /\ Clear(s).pending = u.pending /\ Clear(s).lastSeen = u.lastSeen
  BY <1>1, <1>2 DEF State
<1> QED
  BY <1>1, <1>3, <1>4 DEF u

\* A failure moves one reservation to the failures, and may lock.
LEMMA CountFailureFacts ==
    ASSUME NEW k \in Key, NEW s \in State
    PROVE  /\ CountFailure(k, s) \in State
           /\ CountFailure(k, s).failures = s.failures + 1
           /\ CountFailure(k, s).pending = Unreserve(s).pending
           /\ CountFailure(k, s).lastSeen = s.lastSeen
<1> DEFINE u      == Unreserve(s)
           failed == [u EXCEPT !.failures = @ + 1, !.lastFailure = 0]
           len    == NextLockLen(s.lockLen)
           locked == [failed EXCEPT !.lockLen = len, !.lock = len]
<1>1. u \in State /\ u.lastSeen = s.lastSeen /\ u.failures = s.failures
  BY DEF Unreserve, State
<1>2. len \in Nat /\ len \in Int
  BY PolicyAssumption DEF NextLockLen, State
<1> HIDE DEF u, len
<1>3. failed \in State
  <2>1. 0 \in Int /\ u.failures + 1 \in Nat
    BY <1>1 DEF State
  <2> QED
    BY <1>1, <2>1, Zenon DEF State
<1>4. /\ failed.failures = s.failures + 1
      /\ failed.pending = u.pending /\ failed.lastSeen = s.lastSeen
  BY <1>1 DEF State
<1> HIDE DEF failed
<1>5. locked \in State
  BY <1>2, <1>3, Zenon DEF State
<1>6. /\ locked.failures = failed.failures
      /\ locked.pending = failed.pending /\ locked.lastSeen = failed.lastSeen
  BY <1>3 DEF State
<1>7. CountFailure(k, s) = failed \/ CountFailure(k, s) = locked
  BY DEF CountFailure, failed, locked, u, len
<1> HIDE DEF locked
<1> QED
  BY <1>3, <1>4, <1>5, <1>6, <1>7 DEF u

\* The passage of time ages a bucket and changes no count.
LEMMA AgedFacts ==
    ASSUME NEW s \in State
    PROVE  /\ Aged(s) \in State
           /\ Aged(s).failures = s.failures
           /\ Aged(s).pending = s.pending
           /\ Aged(s).lastSeen <= s.lastSeen + 1
<1> DEFINE lk == IF s.lock > 0 THEN s.lock - 1 ELSE s.lock
           lf == Older(s.lastFailure)
           ls == Older(s.lastSeen)
<1>1. lk \in Int /\ lf \in Int /\ ls \in Nat /\ ls <= s.lastSeen + 1
  BY PolicyAssumption DEF Older, State, Never
<1>2. Aged(s) = [s EXCEPT !.lock = lk, !.lastFailure = lf, !.lastSeen = ls]
  BY DEF Aged
<1> HIDE DEF lk, lf, ls
<1>3. Aged(s) \in State
  BY <1>1, <1>2, Zenon DEF State
<1>4. Aged(s).failures = s.failures /\ Aged(s).pending = s.pending /\ Aged(s).lastSeen = ls
  BY <1>2 DEF State
<1> QED
  BY <1>1, <1>3, <1>4

--------------------------------------------------------------------------------
(* The attempts.                                                           *)

\* What the program counter of an attempt says of the keys it holds.
AttemptOK(a) ==
    /\ a.pc = "idle" => a.lo > a.hi
    /\ a.pc # "idle" => /\ a.peer \in Peers
                        /\ a.age < Window
                        /\ a.hi <= KeyCount(a)
    /\ a.pc = "check" => a.lo = 1 /\ a.hi < KeyCount(a)
    /\ a.pc = "verify" => a.lo = 1 /\ a.hi = KeyCount(a)
    /\ a.pc \in {"fail", "success", "release"} => a.lo <= a.hi

AttemptsOK == \A h \in Handlers : AttemptOK(att[h])

TypeInv == TypeOK /\ AttemptsOK

\* The keys an attempt consults are keys.
LEMMA KeyAtType ==
    ASSUME NEW a \in Attempt, NEW i \in Int
    PROVE  KeyAt(a, i) \in Key
BY DEF Attempt, KeyAt, Key

\* The keys of one attempt are different buckets.
LEMMA KeyAtInjective ==
    ASSUME NEW a \in Attempt, a.peer \in Peers,
           NEW i \in 1 .. KeyCount(a), NEW j \in 1 .. KeyCount(a),
           KeyAt(a, i) = KeyAt(a, j)
    PROVE  i = j
<1>1. a.account = NoAccount => i = j
  BY DEF KeyCount
<1>2. CASE a.account # NoAccount
  <2>1. i \in 1 .. 3 /\ j \in 1 .. 3
    BY <1>2 DEF KeyCount
  <2>2. /\ KeyAt(a, i).peer = KeyAt(a, j).peer
        /\ KeyAt(a, i).account = KeyAt(a, j).account
    OBVIOUS
  <2>3. (i = 3 <=> j = 3) /\ (i = 1 <=> j = 1)
    BY <1>2, <2>2, NameAssumption DEF KeyAt
  <2> QED
    BY <2>1, <2>3
<1> QED
  BY <1>1, <1>2

\* The zero value of an attempt is well-formed.
LEMMA IdleFacts ==
    ASSUME NEW sf \in Surfaces
    PROVE  IdleAttempt(sf) \in Attempt /\ AttemptOK(IdleAttempt(sf))
BY DEF IdleAttempt, Attempt, AttemptOK

\* An attempt under resolution stays well-formed.
LEMMA ResolvedFacts ==
    ASSUME NEW a \in Attempt, a.pc \in {"fail", "success", "release"},
           a.peer \in Peers, a.age < Window, a.hi <= KeyCount(a)
    PROVE  Resolved(a) \in Attempt /\ AttemptOK(Resolved(a))
<1>1. CASE a.lo > a.hi
  BY <1>1, IdleFacts DEF Resolved, Attempt
<1>2. CASE ~(a.lo > a.hi)
  <2>1. Resolved(a) = a
    BY <1>2 DEF Resolved
  <2>2. a.lo <= a.hi
    BY <1>2 DEF Attempt
  <2> QED
    BY <2>1, <2>2 DEF AttemptOK
<1> QED
  BY <1>1, <1>2

\* Resolving one key: the attempt moves on to the next.
LEMMA AdvanceFacts ==
    ASSUME NEW a \in Attempt, AttemptOK(a), a.pc \in {"fail", "success", "release"}
    PROVE  /\ a.lo \in 1 .. KeyCount(a)
           /\ [a EXCEPT !.lo = @ + 1] \in Attempt
           /\ Resolved([a EXCEPT !.lo = @ + 1]) \in Attempt
           /\ AttemptOK(Resolved([a EXCEPT !.lo = @ + 1]))
<1> DEFINE b == [a EXCEPT !.lo = @ + 1]
<1>1. /\ a.lo <= a.hi /\ a.hi <= KeyCount(a) /\ a.peer \in Peers /\ a.age < Window
      /\ a.lo \in 1 .. 4 /\ a.hi \in 0 .. 3 /\ KeyCount(a) \in Nat
  BY DEF AttemptOK, Attempt, KeyCount
<1>2. a.lo + 1 \in 1 .. 4
  BY <1>1
<1>3. b \in Attempt
  BY <1>2, Zenon DEF Attempt
<1>4. b.pc = a.pc /\ b.peer = a.peer /\ b.age = a.age /\ b.hi = a.hi /\ b.account = a.account
  BY DEF Attempt
<1>5. b.hi <= KeyCount(b)
  BY <1>1, <1>4 DEF KeyCount
<1> HIDE DEF b
<1>6. Resolved(b) \in Attempt /\ AttemptOK(Resolved(b))
  BY <1>1, <1>3, <1>4, <1>5, ResolvedFacts
<1> QED
  BY <1>1, <1>3, <1>6 DEF b

\* One handler's attempt changes.
LEMMA OneAttempt ==
    ASSUME TypeInv, NEW h \in Handlers, NEW b \in Attempt, AttemptOK(b),
           att' = [att EXCEPT ![h] = b]
    PROVE  att' \in [Handlers -> Attempt] /\ AttemptsOK'
<1>1. att' \in [Handlers -> Attempt]
  BY DEF TypeInv, TypeOK
<1>2. \A g \in Handlers : att'[g] = b \/ att'[g] = att[g]
  BY DEF TypeInv, TypeOK
<1> QED
  BY <1>1, <1>2 DEF TypeInv, AttemptsOK

\* One locked operation on the map.
LEMMA UpdateType ==
    ASSUME TypeOK, NEW k \in Key, NEW gone, NEW s \in State, Update(k, gone, s)
    PROVE  keys' \subseteq Key /\ st' \in [Key -> State]
<1>1. Without(gone) \in [Key -> State]
  BY SmallUpdates DEF Without, TypeOK
<1> QED
  BY <1>1 DEF Update, TypeOK

\* Every action keeps the types and the shape of the attempts.
LEMMA TypeStep ==
    ASSUME TypeInv, [Next]_vars
    PROVE  TypeInv'
<1> USE DEF TypeInv
<1>1. ASSUME NEW h \in Handlers, NEW sf \in Surfaces, NEW p \in Peers,
             NEW ac \in Accounts \cup {NoAccount}, Begin(h, sf, p, ac)
      PROVE  TypeInv'
  <2> DEFINE b == [pc |-> "check", surface |-> sf, peer |-> p, account |-> ac,
                   lo |-> 1, hi |-> 0, age |-> 0]
  <2>1. b \in Attempt /\ AttemptOK(b)
    BY PolicyAssumption DEF Attempt, AttemptOK, KeyCount
  <2> HIDE DEF b
  <2>2. att' = [att EXCEPT ![h] = b] /\ UNCHANGED <<keys, st>>
    BY <1>1 DEF Begin, b
  <2> QED
    BY <2>1, <2>2, OneAttempt DEF TypeOK
<1>2. ASSUME NEW h \in Handlers, CheckGranted(h)
      PROVE  TypeInv'
  <2> DEFINE a == att[h]
             k == KeyAt(a, a.hi + 1)
             s == refresh(k, st[k])
             c == [a EXCEPT !.hi = a.hi + 1]
             pc == IF a.hi + 1 = KeyCount(a) THEN "verify" ELSE "check"
             b == [c EXCEPT !.pc = pc]
  <2>1. a \in Attempt /\ AttemptOK(a) /\ a.pc = "check"
    BY <1>2 DEF TypeOK, AttemptsOK, CheckGranted
  <2>2. PICK gone \in Evictions(k) : Update(k, gone, Touch(Reserve(s)))
    BY <1>2 DEF CheckGranted
  <2>3. att' = [att EXCEPT ![h] = b]
    BY <1>2, <2>1 DEF CheckGranted, TypeOK
  <2> HIDE DEF a
  <2>4. /\ a.lo = 1 /\ a.hi < KeyCount(a) /\ a.peer \in Peers /\ a.age < Window
        /\ KeyCount(a) \in {1, 3} /\ a.hi \in 0 .. 3
    BY <2>1 DEF AttemptOK, Attempt, KeyCount
  <2>5. k \in Key
    BY <2>1, <2>4, KeyAtType
  <2>6. Touch(Reserve(s)) \in State
    BY <2>5, RefreshFacts, SmallUpdates DEF TypeOK
  <2>7. keys' \subseteq Key /\ st' \in [Key -> State]
    BY <2>2, <2>5, <2>6, UpdateType
  <2>8. c \in Attempt
    <3>1. a.hi + 1 \in 0 .. 3
      BY <2>4
    <3> QED
      BY <2>1, <3>1, Zenon DEF Attempt
  <2>9. b \in Attempt
    BY <2>8 DEF Attempt
  <2>10. /\ b.pc = pc /\ b.lo = a.lo /\ b.hi = a.hi + 1 /\ b.peer = a.peer
         /\ b.age = a.age /\ b.account = a.account
    BY <2>1 DEF Attempt
  <2>11. KeyCount(b) = KeyCount(a)
    BY <2>10 DEF KeyCount
  <2> HIDE DEF b
  <2>12. AttemptOK(b)
    BY <2>4, <2>10, <2>11 DEF AttemptOK
  <2> QED
    BY <2>3, <2>7, <2>9, <2>12, OneAttempt DEF TypeOK
<1>3. ASSUME NEW h \in Handlers, CheckDenied(h)
      PROVE  TypeInv'
  <2> DEFINE a == att[h]
             k == KeyAt(a, a.hi + 1)
             s == refresh(k, st[k])
             b == [a EXCEPT !.pc = "release"]
  <2>1. a \in Attempt /\ AttemptOK(a) /\ a.pc = "check"
    BY <1>3 DEF TypeOK, AttemptsOK, CheckDenied
  <2>2. PICK gone \in Evictions(k) : Update(k, gone, Touch(s))
    BY <1>3 DEF CheckDenied
  <2>3. att' = [att EXCEPT ![h] = Resolved(b)]
    BY <1>3 DEF CheckDenied
  <2> HIDE DEF a
  <2>4. k \in Key
    BY <2>1, KeyAtType DEF Attempt
  <2>5. Touch(s) \in State
    BY <2>4, RefreshFacts, SmallUpdates DEF TypeOK
  <2>6. keys' \subseteq Key /\ st' \in [Key -> State]
    BY <2>2, <2>4, <2>5, UpdateType
  <2>7. /\ b \in Attempt /\ b.pc = "release" /\ b.peer \in Peers /\ b.age < Window
        /\ b.hi <= KeyCount(b)
    BY <2>1 DEF Attempt, AttemptOK, KeyCount
  <2> HIDE DEF b
  <2>8. Resolved(b) \in Attempt /\ AttemptOK(Resolved(b))
    BY <2>7, ResolvedFacts
  <2> QED
    BY <2>3, <2>6, <2>8, OneAttempt DEF TypeOK
<1>4. ASSUME NEW h \in Handlers, NEW verdict \in {"fail", "success", "release"},
             Verify(h, verdict)
      PROVE  TypeInv'
  <2> DEFINE a == att[h]
             b == [a EXCEPT !.pc = verdict]
  <2>1. a \in Attempt /\ AttemptOK(a) /\ a.pc = "verify"
    BY <1>4 DEF TypeOK, AttemptsOK, Verify
  <2>2. att' = [att EXCEPT ![h] = b] /\ UNCHANGED <<keys, st>>
    BY <1>4 DEF Verify
  <2> HIDE DEF a
  <2>3. b \in Attempt /\ AttemptOK(b)
    BY <2>1 DEF Attempt, AttemptOK, KeyCount
  <2> QED
    BY <2>2, <2>3, OneAttempt DEF TypeOK
<1>5. ASSUME NEW h \in Handlers, Fail(h) \/ Success(h) \/ Release(h)
      PROVE  TypeInv'
  <2> DEFINE a == att[h]
             k == KeyAt(a, a.lo)
             b == Resolved([a EXCEPT !.lo = @ + 1])
  <2>1. a \in Attempt /\ AttemptOK(a) /\ a.pc \in {"fail", "success", "release"}
    BY <1>5 DEF TypeOK, AttemptsOK, Fail, Success, Release
  <2>2. att' = [att EXCEPT ![h] = b]
    BY <1>5 DEF Fail, Success, Release
  <2>3. b \in Attempt /\ AttemptOK(b)
    BY <2>1, AdvanceFacts
  <2>4. k \in Key
    BY <2>1, KeyAtType DEF Attempt
  <2>5. keys' \subseteq Key /\ st' \in [Key -> State]
    <3>1. CASE Fail(h)
      <4>1. PICK gone \in Evictions(k) :
                Update(k, gone, Touch(CountFailure(k, refresh(k, st[k]))))
        BY <3>1 DEF Fail
      <4>2. Touch(CountFailure(k, refresh(k, st[k]))) \in State
        BY <2>4, RefreshFacts, CountFailureFacts, SmallUpdates DEF TypeOK
      <4> QED
        BY <2>4, <4>1, <4>2, UpdateType
    <3>2. CASE Success(h) \/ Release(h)
      <4>1. Touch(Clear(st[k])) \in State /\ Touch(Unreserve(st[k])) \in State
        BY <2>4, ClearFacts, SmallUpdates DEF TypeOK
      <4>2. /\ UNCHANGED keys
            /\ \/ st' = st
               \/ st' = [st EXCEPT ![k] = Touch(Clear(st[k]))]
               \/ st' = [st EXCEPT ![k] = Touch(Unreserve(st[k]))]
        BY <3>2 DEF Success, Release
      <4> QED
        BY <2>4, <4>1, <4>2 DEF TypeOK
    <3> QED
      BY <1>5, <3>1, <3>2
  <2> HIDE DEF b
  <2> QED
    BY <2>2, <2>3, <2>5, OneAttempt DEF TypeOK
<1>6. ASSUME NEW h \in Handlers, Leak(h)
      PROVE  TypeInv'
  <2> DEFINE a == att[h]
             b == [a EXCEPT !.lo = 4]
  <2>1. a \in Attempt
    BY DEF TypeOK
  <2>2. att' = [att EXCEPT ![h] = Resolved(b)] /\ UNCHANGED <<keys, st>>
    BY <1>6 DEF Leak
  <2>3. Resolved(b) = IdleAttempt(a.surface) /\ a.surface \in Surfaces
    BY <2>1 DEF Resolved, Attempt
  <2>4. Resolved(b) \in Attempt /\ AttemptOK(Resolved(b))
    BY <2>3, IdleFacts
  <2> QED
    BY <2>2, <2>4, OneAttempt DEF TypeOK
<1>7. ASSUME NEW sf, NEW p, NEW ac, SelfState(sf, p, ac)
      PROVE  TypeInv'
  <2>1. UNCHANGED <<keys, att>>
    BY <1>7 DEF SelfState
  <2>2. \A k \in Key : refresh(k, st[k]) \in State /\ st[k] \in State
    BY RefreshFacts DEF TypeOK
  <2>3. st' \in [Key -> State]
    BY <1>7, <2>2 DEF SelfState
  <2> QED
    BY <2>1, <2>3 DEF TypeOK, AttemptsOK
<1>8. ASSUME NEW D, ClearMatching(D)
      PROVE  TypeInv'
  <2>1. Without(D) \in [Key -> State]
    BY SmallUpdates DEF Without, TypeOK
  <2> QED
    BY <1>8, <2>1 DEF ClearMatching, TypeOK, AttemptsOK
<1>9. ASSUME Tick
      PROVE  TypeInv'
  <2>1. \A k \in Key : Aged(st[k]) \in State /\ st[k] \in State
    BY AgedFacts DEF TypeOK
  <2>2. keys' \subseteq Key /\ st' \in [Key -> State]
    BY <1>9, <2>1 DEF Tick, TypeOK
  <2>3. ASSUME NEW h \in Handlers
        PROVE  att'[h] \in Attempt /\ AttemptOK(att'[h])
    <3> DEFINE a == att[h]
               b == [a EXCEPT !.age = @ + 1]
    <3>1. a \in Attempt /\ AttemptOK(a)
      BY DEF TypeOK, AttemptsOK
    <3>2. att'[h] = IF a.pc = "idle" THEN a ELSE b
      BY <1>9 DEF Tick
    <3>3. a.pc # "idle" => a.age + 1 < Window
      BY <1>9 DEF Tick
    <3> HIDE DEF a
    <3>4. a.pc # "idle" => b \in Attempt /\ AttemptOK(b)
      BY <3>1, <3>3 DEF Attempt, AttemptOK, KeyCount
    <3> QED
      BY <3>1, <3>2, <3>4
  <2>4. att' = [h \in Handlers |-> att'[h]]
    BY <1>9 DEF Tick
  <2> QED
    BY <2>2, <2>3, <2>4 DEF TypeOK, AttemptsOK
<1>10. CASE UNCHANGED vars
  BY <1>10 DEF vars, TypeOK, AttemptsOK
<1> QED
  BY <1>1, <1>2, <1>3, <1>4, <1>5, <1>6, <1>7, <1>8, <1>9, <1>10
     DEF Next, handleAuthLimitClear, ClearPeer, ClearAccount

\* The empty limiter is well-typed.
LEMMA TypeInit == Init => TypeInv
<1> SUFFICES ASSUME Init PROVE TypeInv
  OBVIOUS
<1>1. \A h \in Handlers : att[h] \in Attempt /\ AttemptOK(att[h])
  BY IdleFacts DEF Init
<1>2. st \in [Key -> State] /\ keys \subseteq Key
  BY SmallUpdates DEF Init, Zero, State, Never
<1>3. att = [h \in Handlers |-> att[h]]
  BY DEF Init
<1> QED
  BY <1>1, <1>2, <1>3 DEF TypeInv, TypeOK, AttemptsOK

\* The state has its type in every reachable state, operator clears and leaking
\* handlers included: no interleaving resolves a key an attempt does not hold.
THEOREM TypeCorrect == Spec => []TypeOK
<1>1. TypeInv => TypeOK
  BY DEF TypeInv
<1> QED
  BY <1>1, TypeInit, TypeStep, PTL DEF Spec

--------------------------------------------------------------------------------
(* Admission.                                                              *)

\* Every attempt that holds a key is counted in the bucket, and the bucket never
\* counts more than the threshold.
Covered(k) ==
    /\ Cardinality(Holders(k)) <= st[k].pending
    /\ st[k].failures + st[k].pending <= thresholdFor(k)

AllCovered == \A k \in Key : Covered(k)

\* A bucket has been touched since each attempt that holds it began: refresh never
\* takes a live reservation for a leaked one.
SeenByHolders ==
    \A h \in Handlers, k \in Key : Holds(att[h], k) => st[k].lastSeen <= att[h].age

IInv == TypeInv /\ AllCovered /\ SeenByHolders

\* Counting holders.
LEMMA CountDrop ==
    ASSUME NEW S, IsFiniteSet(S), NEW T, NEW x \in S, T \subseteq S \ {x}
    PROVE  Cardinality(S) \in Nat /\ Cardinality(S) > 0
           /\ Cardinality(T) \in Nat /\ Cardinality(T) <= Cardinality(S) - 1
<1>1. /\ IsFiniteSet(S \ {x}) /\ Cardinality(S \ {x}) = Cardinality(S) - 1
      /\ Cardinality(S) \in Nat
  BY FS_RemoveElement, FS_CardinalityType
<1>2. Cardinality(T) <= Cardinality(S \ {x}) /\ IsFiniteSet(T)
  BY <1>1, FS_Subset
<1>3. Cardinality(S \ {x}) \in Nat /\ Cardinality(T) \in Nat
  BY <1>1, <1>2, FS_CardinalityType
<1> QED
  BY <1>1, <1>2, <1>3

\* One more holder adds at most one to the count.
LEMMA CountAdd ==
    ASSUME NEW S, IsFiniteSet(S), NEW T, NEW x, T \subseteq S \cup {x}
    PROVE  Cardinality(S) \in Nat /\ Cardinality(T) \in Nat
           /\ Cardinality(T) <= Cardinality(S) + 1
<1>1. /\ IsFiniteSet(S \cup {x}) /\ Cardinality(S \cup {x}) <= Cardinality(S) + 1
      /\ Cardinality(S) \in Nat
  <2>1. /\ IsFiniteSet(S \cup {x})
        /\ Cardinality(S \cup {x}) = IF x \in S THEN Cardinality(S) ELSE Cardinality(S) + 1
    BY FS_AddElement
  <2> QED
    BY <2>1, FS_CardinalityType
<1>2. Cardinality(T) <= Cardinality(S \cup {x}) /\ IsFiniteSet(T)
  BY <1>1, FS_Subset
<1>3. Cardinality(S \cup {x}) \in Nat /\ Cardinality(T) \in Nat
  BY <1>1, <1>2, FS_CardinalityType
<1> QED
  BY <1>1, <1>2, <1>3

\* The attempts holding a key are finitely many.
LEMMA HoldersFinite ==
    ASSUME NEW k
    PROVE  /\ IsFiniteSet(Holders(k)) /\ Cardinality(Holders(k)) \in Nat
           /\ IsFiniteSet(Holders(k)') /\ Cardinality(Holders(k)') \in Nat
<1>1. Holders(k) \subseteq Handlers /\ Holders(k)' \subseteq Handlers
  BY DEF Holders
<1>2. IsFiniteSet(Holders(k)) /\ IsFiniteSet(Holders(k)')
  BY <1>1, NameAssumption, FS_Subset
<1> QED
  BY <1>2, FS_CardinalityType

\* A refresh costs no live attempt its reservation.
LEMMA RefreshCovered ==
    ASSUME IInv, NEW k \in Key
    PROVE  /\ refresh(k, st[k]) \in State
           /\ Cardinality(Holders(k)) <= refresh(k, st[k]).pending
           /\ refresh(k, st[k]).failures + refresh(k, st[k]).pending <= thresholdFor(k)
           /\ refresh(k, st[k]).lastSeen = st[k].lastSeen
<1> DEFINE s == refresh(k, st[k])
<1>1. st[k] \in State /\ Covered(k)
  BY DEF IInv, TypeInv, TypeOK, AllCovered
<1>2. /\ s \in State /\ s.lastSeen = st[k].lastSeen
      /\ s.failures + s.pending <= thresholdFor(k)
      /\ st[k].lastSeen < Window => s.pending = st[k].pending
  BY <1>1, RefreshFacts DEF Covered
<1> HIDE DEF s
<1>3. Cardinality(Holders(k)) <= s.pending
  <2>1. CASE Holders(k) = {}
    <3>1. Cardinality(Holders(k)) = 0
      BY <2>1, FS_EmptySet
    <3> QED
      BY <1>2, <3>1 DEF State
  <2>2. CASE Holders(k) # {}
    <3>1. PICK h \in Handlers : Holds(att[h], k)
      BY <2>2 DEF Holders
    <3>2. att[h] \in Attempt /\ AttemptOK(att[h]) /\ st[k].lastSeen <= att[h].age
      BY <3>1 DEF IInv, TypeInv, TypeOK, AttemptsOK, SeenByHolders
    <3>3. att[h].pc # "idle"
      BY <3>1, <3>2 DEF AttemptOK, Holds, Attempt
    <3>4. st[k].lastSeen < Window
      BY <1>1, <3>2, <3>3, PolicyAssumption DEF AttemptOK, Attempt, State
    <3> QED
      BY <1>1, <1>2, <3>4 DEF Covered
  <2> QED
    BY <2>1, <2>2
<1> QED
  BY <1>2, <1>3 DEF s

\* A step of handler h that touches the bucket of k, evicts only buckets without
\* reservations and gains h no other key keeps the invariant, if it does at k.
LEMMA BucketStep ==
    ASSUME IInv, TypeInv', NEW h \in Handlers, NEW k \in Key,
           \A j \in Key \ {k} : st'[j] = st[j] \/ (st'[j] = Zero /\ st[j].pending = 0),
           \A g \in Handlers \ {h} : att'[g] = att[g],
           \A j \in Key \ {k} : Holds(att'[h], j) => Holds(att[h], j) /\ att'[h].age = att[h].age,
           Covered(k)', st'[k].lastSeen = 0
    PROVE  AllCovered' /\ SeenByHolders'
<1>1. ASSUME NEW j \in Key, j # k
      PROVE  Covered(j)'
  <2>1. Holders(j)' \subseteq Holders(j)
    BY <1>1 DEF Holders
  <2>2. Cardinality(Holders(j)') <= Cardinality(Holders(j))
    BY <2>1, HoldersFinite, FS_Subset
  <2>3. Covered(j) /\ st[j] \in State
    BY DEF IInv, AllCovered, TypeInv, TypeOK
  <2>4. CASE st'[j] = st[j]
    BY <2>2, <2>3, <2>4, HoldersFinite DEF Covered, State
  <2>5. CASE st'[j] = Zero /\ st[j].pending = 0
    <3>1. Zero.pending = 0 /\ Zero.failures = 0
      BY DEF Zero
    <3> QED
      BY <2>2, <2>3, <2>5, <3>1, HoldersFinite, ThresholdType DEF Covered
  <2> QED
    BY <1>1, <2>4, <2>5
<1>2. ASSUME NEW g \in Handlers, NEW j \in Key, Holds(att'[g], j)
      PROVE  st'[j].lastSeen <= att'[g].age
  <2>1. att'[g] \in Attempt /\ att'[g].age \in Nat
    BY DEF TypeInv, TypeOK, Attempt
  <2>2. CASE j = k
    BY <2>1, <2>2
  <2>3. CASE j # k
    <3>1. Holds(att[g], j) /\ att'[g].age = att[g].age
      BY <1>2, <2>3
    <3>2. st[j].lastSeen <= att[g].age
      BY <3>1 DEF IInv, SeenByHolders
    <3>3. Zero.lastSeen = 0
      BY DEF Zero
    <3> QED
      BY <2>1, <2>3, <3>1, <3>2, <3>3
  <2> QED
    BY <2>2, <2>3
<1> QED
  BY <1>1, <1>2 DEF AllCovered, SeenByHolders

\* A step that leaves the buckets alone and gains no handler a key.
LEMMA QuietStep ==
    ASSUME IInv, st' = st, NEW h \in Handlers,
           \A g \in Handlers \ {h} : att'[g] = att[g],
           \A j \in Key : Holds(att'[h], j) => Holds(att[h], j) /\ att'[h].age = att[h].age
    PROVE  AllCovered' /\ SeenByHolders'
<1>1. ASSUME NEW j \in Key
      PROVE  Covered(j)'
  <2>1. Holders(j)' \subseteq Holders(j)
    BY DEF Holders
  <2>2. Cardinality(Holders(j)') <= Cardinality(Holders(j))
    BY <2>1, HoldersFinite, FS_Subset
  <2>3. Covered(j) /\ st[j] \in State
    BY DEF IInv, AllCovered, TypeInv, TypeOK
  <2> QED
    BY <2>2, <2>3, HoldersFinite DEF Covered, State
<1>2. ASSUME NEW g \in Handlers, NEW j \in Key, Holds(att'[g], j)
      PROVE  st'[j].lastSeen <= att'[g].age
  <2>1. Holds(att[g], j) /\ att'[g].age = att[g].age
    BY <1>2
  <2> QED
    BY <2>1 DEF IInv, SeenByHolders
<1> QED
  BY <1>1, <1>2 DEF AllCovered, SeenByHolders

\* evictOneLocked takes no bucket that has a reservation.
LEMMA EvictionFacts ==
    ASSUME TypeOK, NEW k \in Key, NEW gone \in Evictions(k), NEW s \in State, Update(k, gone, s)
    PROVE  /\ st'[k] = s
           /\ \A j \in Key \ {k} : st'[j] = st[j] \/ (st'[j] = Zero /\ st[j].pending = 0)
<1>1. \A v \in Victims : st[v].pending = 0
  BY DEF Victims, Oldest, Idle, LockedIdle
<1>2. \A v \in gone : st[v].pending = 0
  BY <1>1 DEF Evictions
<1>3. st' = [Without(gone) EXCEPT ![k] = s]
  BY DEF Update
<1>4. Without(gone) = [j \in Key |-> IF j \in gone THEN Zero ELSE st[j]]
  BY DEF Without
<1> QED
  BY <1>2, <1>3, <1>4

\* An attempt whose resolution is over holds nothing.
LEMMA ResolvedHolds ==
    ASSUME NEW a \in Attempt, NEW j, Holds(Resolved(a), j)
    PROVE  Holds(a, j) /\ Resolved(a).age = a.age
<1>1. CASE a.lo > a.hi
  BY <1>1 DEF Resolved, Holds, IdleAttempt
<1>2. CASE ~(a.lo > a.hi)
  BY <1>2 DEF Resolved
<1> QED
  BY <1>1, <1>2

\* Resolving a key gives up that key, and only gives up.
LEMMA AdvanceHolds ==
    ASSUME NEW a \in Attempt, AttemptOK(a), a.pc \in {"fail", "success", "release"},
           NEW b, b = Resolved([a EXCEPT !.lo = @ + 1])
    PROVE  /\ Holds(a, KeyAt(a, a.lo))
           /\ ~Holds(b, KeyAt(a, a.lo))
           /\ \A j : Holds(b, j) => Holds(a, j) /\ b.age = a.age
<1> DEFINE c == [a EXCEPT !.lo = @ + 1]
<1>1. c \in Attempt /\ a.lo \in 1 .. KeyCount(a)
  BY AdvanceFacts
<1>2. /\ c.lo = a.lo + 1 /\ c.hi = a.hi /\ c.age = a.age
      /\ c.surface = a.surface /\ c.peer = a.peer /\ c.account = a.account
  BY DEF Attempt
<1>3. /\ a.lo \in 1 .. 4 /\ a.hi \in 0 .. 3 /\ a.lo <= a.hi /\ a.hi <= KeyCount(a)
      /\ a.peer \in Peers /\ KeyCount(a) \in Nat
  BY DEF Attempt, AttemptOK, KeyCount
<1> HIDE DEF c
<1>4. \A i : KeyAt(c, i) = KeyAt(a, i)
  BY <1>2 DEF KeyAt
<1>5. \A j : Holds(c, j) <=> \E i \in a.lo + 1 .. a.hi : j = KeyAt(a, i)
  BY <1>2, <1>4 DEF Holds
<1>6. \A j : Holds(c, j) => Holds(a, j)
  BY <1>3, <1>5 DEF Holds
<1>7. ~Holds(c, KeyAt(a, a.lo))
  <2> SUFFICES ASSUME NEW i \in a.lo + 1 .. a.hi, KeyAt(a, a.lo) = KeyAt(a, i) PROVE FALSE
    BY <1>5
  <2>1. i \in 1 .. KeyCount(a) /\ i # a.lo
    BY <1>3
  <2> QED
    BY <1>1, <1>3, <2>1, KeyAtInjective
<1>8. Holds(a, KeyAt(a, a.lo))
  BY <1>3 DEF Holds
<1>9. b = Resolved(c)
  BY DEF c
<1>10. \A j : Holds(b, j) => Holds(c, j) /\ b.age = c.age
  BY <1>1, <1>9, ResolvedHolds
<1> QED
  BY <1>2, <1>6, <1>7, <1>8, <1>10

\* A touch changes the time of the last use and nothing else.
LEMMA TouchFacts ==
    ASSUME NEW s \in State
    PROVE  /\ Touch(s).lastSeen = 0 /\ Touch(s).failures = s.failures
           /\ Touch(s).pending = s.pending /\ Touch(s) \in State
BY DEF Touch, State

\* Without operator clears, every action keeps the reservations covered.
LEMMA AdmissionStep ==
    ASSUME IInv, [Next]_vars, ~OperatorClears
    PROVE  IInv'
<1>t. TypeInv /\ TypeInv' /\ TypeOK
  BY TypeStep DEF IInv, TypeInv
<1> SUFFICES AllCovered' /\ SeenByHolders'
  BY <1>t DEF IInv
<1>a. \A h \in Handlers : att[h] \in Attempt /\ AttemptOK(att[h])
  BY <1>t DEF TypeInv, TypeOK, AttemptsOK
<1>f. DOMAIN att = Handlers /\ \A k \in Key : st[k] \in State
  BY <1>t DEF TypeOK
<1>1. ASSUME NEW h \in Handlers, NEW sf \in Surfaces, NEW p \in Peers,
             NEW ac \in Accounts \cup {NoAccount}, Begin(h, sf, p, ac)
      PROVE  AllCovered' /\ SeenByHolders'
  <2>1. st' = st /\ \A g \in Handlers \ {h} : att'[g] = att[g]
    BY <1>1, <1>f DEF Begin
  <2>2. att'[h].lo = 1 /\ att'[h].hi = 0
    BY <1>1, <1>f DEF Begin
  <2>3. \A j : ~Holds(att'[h], j)
    BY <2>2 DEF Holds
  <2> QED
    BY <2>1, <2>3, QuietStep
<1>2. ASSUME NEW h \in Handlers, CheckGranted(h)
      PROVE  AllCovered' /\ SeenByHolders'
  <2> DEFINE a == att[h]
             b == att'[h]
  <2>5. PICK k \in Key : k = KeyAt(a, a.hi + 1)
    BY <1>a, KeyAtType DEF Attempt
  <2> DEFINE s == refresh(k, st[k])
             r == Touch(Reserve(s))
  <2>1. a \in Attempt /\ AttemptOK(a) /\ a.pc = "check" /\ Grants(k, s)
    BY <1>2, <1>a, <2>5 DEF CheckGranted
  <2>2. PICK gone \in Evictions(k) : Update(k, gone, r)
    BY <1>2, <2>5 DEF CheckGranted
  <2>3. \A g \in Handlers \ {h} : att'[g] = att[g]
    BY <1>2, <1>f DEF CheckGranted
  <2>4. /\ b.lo = a.lo /\ b.hi = a.hi + 1 /\ b.age = a.age
        /\ b.surface = a.surface /\ b.peer = a.peer /\ b.account = a.account
    BY <1>2, <1>f, <2>1 DEF CheckGranted, Attempt
  <2> HIDE DEF a, b
  <2>6. \A j : Holds(b, j) => Holds(a, j) \/ j = k
    <3>1. \A i : KeyAt(b, i) = KeyAt(a, i)
      BY <2>4 DEF KeyAt
    <3>2. a.lo \in Int /\ a.hi \in Int
      BY <2>1 DEF Attempt
    <3> QED
      BY <2>4, <2>5, <3>1, <3>2 DEF Holds
  <2>7. /\ s \in State /\ Cardinality(Holders(k)) <= s.pending
        /\ s.failures + s.pending <= thresholdFor(k)
    BY <2>5, RefreshCovered
  <2>8. s.failures + s.pending < thresholdFor(k)
    BY <2>1 DEF Grants
  <2> HIDE DEF s
  <2>9. /\ r \in State /\ r.lastSeen = 0 /\ r.failures = s.failures /\ r.pending = s.pending + 1
    <3>1. Reserve(s) \in State
      BY <2>7, SmallUpdates
    <3>2. Reserve(s).failures = s.failures /\ Reserve(s).pending = s.pending + 1
      BY <2>7 DEF Reserve, State
    <3> QED
      BY <3>1, <3>2, TouchFacts
  <2> HIDE DEF r
  <2>10. /\ st'[k] = r
         /\ \A j \in Key \ {k} : st'[j] = st[j] \/ (st'[j] = Zero /\ st[j].pending = 0)
    BY <1>t, <2>2, <2>5, <2>9, EvictionFacts
  <2>11. Holders(k)' \subseteq Holders(k) \cup {h}
    BY <2>3, <2>6 DEF Holders, a, b
  <2>12. Cardinality(Holders(k)') <= Cardinality(Holders(k)) + 1
    BY <2>11, HoldersFinite, CountAdd
  <2>13. Covered(k)'
    BY <2>5, <2>7, <2>8, <2>9, <2>10, <2>12, HoldersFinite, ThresholdType DEF Covered, State
  <2>14. \A j \in Key \ {k} : Holds(att'[h], j) => Holds(att[h], j) /\ att'[h].age = att[h].age
    BY <2>4, <2>6 DEF a, b
  <2> QED
    BY <1>t, <2>3, <2>5, <2>9, <2>10, <2>13, <2>14, BucketStep
<1>3. ASSUME NEW h \in Handlers, CheckDenied(h)
      PROVE  AllCovered' /\ SeenByHolders'
  <2> DEFINE a == att[h]
             c == [a EXCEPT !.pc = "release"]
  <2>5. PICK k \in Key : k = KeyAt(a, a.hi + 1)
    BY <1>a, KeyAtType DEF Attempt
  <2> DEFINE s == refresh(k, st[k])
             r == Touch(s)
  <2>1. a \in Attempt
    BY <1>a
  <2>2. PICK gone \in Evictions(k) : Update(k, gone, r)
    BY <1>3, <2>5 DEF CheckDenied
  <2>3. (\A g \in Handlers \ {h} : att'[g] = att[g]) /\ att'[h] = Resolved(c)
    BY <1>3, <1>f DEF CheckDenied
  <2>4. c \in Attempt /\ c.age = a.age /\ \A j : Holds(c, j) <=> Holds(a, j)
    <3>1. /\ c \in Attempt /\ c.age = a.age /\ c.lo = a.lo /\ c.hi = a.hi
          /\ c.surface = a.surface /\ c.peer = a.peer /\ c.account = a.account
      BY <2>1 DEF Attempt
    <3>2. \A i : KeyAt(c, i) = KeyAt(a, i)
      BY <3>1 DEF KeyAt
    <3> QED
      BY <3>1, <3>2 DEF Holds
  <2> HIDE DEF c
  <2>6. \A j : Holds(att'[h], j) => Holds(att[h], j) /\ att'[h].age = att[h].age
    BY <2>3, <2>4, ResolvedHolds
  <2>7. /\ s \in State /\ Cardinality(Holders(k)) <= s.pending
        /\ s.failures + s.pending <= thresholdFor(k)
    BY <2>5, RefreshCovered
  <2> HIDE DEF s
  <2>8. r \in State /\ r.lastSeen = 0 /\ r.failures = s.failures /\ r.pending = s.pending
    BY <2>7, TouchFacts
  <2> HIDE DEF r
  <2>9. /\ st'[k] = r
        /\ \A j \in Key \ {k} : st'[j] = st[j] \/ (st'[j] = Zero /\ st[j].pending = 0)
    BY <1>t, <2>2, <2>5, <2>8, EvictionFacts
  <2>10. Holders(k)' \subseteq Holders(k)
    BY <2>3, <2>6 DEF Holders
  <2>11. Cardinality(Holders(k)') <= Cardinality(Holders(k))
    BY <2>10, HoldersFinite, FS_Subset
  <2>12. Covered(k)'
    BY <2>5, <2>7, <2>8, <2>9, <2>11, HoldersFinite, ThresholdType DEF Covered, State
  <2> QED
    BY <1>t, <2>3, <2>5, <2>6, <2>8, <2>9, <2>12, BucketStep
<1>4. ASSUME NEW h \in Handlers, NEW verdict \in {"fail", "success", "release"},
             Verify(h, verdict)
      PROVE  AllCovered' /\ SeenByHolders'
  <2> DEFINE a == att[h]
             b == att'[h]
  <2>1. st' = st /\ \A g \in Handlers \ {h} : att'[g] = att[g]
    BY <1>4, <1>f DEF Verify
  <2>2. /\ b.lo = a.lo /\ b.hi = a.hi /\ b.age = a.age
        /\ b.surface = a.surface /\ b.peer = a.peer /\ b.account = a.account
    BY <1>4, <1>a, <1>f DEF Verify, Attempt
  <2> HIDE DEF a, b
  <2>3. \A i : KeyAt(b, i) = KeyAt(a, i)
    BY <2>2 DEF KeyAt
  <2>4. \A j : Holds(b, j) => Holds(a, j)
    BY <2>2, <2>3 DEF Holds
  <2> QED
    BY <2>1, <2>2, <2>4, QuietStep DEF a, b
<1>5. ASSUME NEW h \in Handlers, Fail(h) \/ Success(h) \/ Release(h)
      PROVE  AllCovered' /\ SeenByHolders'
  <2> DEFINE a == att[h]
  <2>1. a \in Attempt /\ AttemptOK(a) /\ a.pc \in {"fail", "success", "release"}
    BY <1>5, <1>a DEF Fail, Success, Release
  <2>2. PICK k \in Key : k = KeyAt(a, a.lo)
    BY <2>1, KeyAtType DEF Attempt
  <2>3. /\ \A g \in Handlers \ {h} : att'[g] = att[g]
        /\ att'[h] = Resolved([a EXCEPT !.lo = @ + 1])
    BY <1>5, <1>f DEF Fail, Success, Release
  <2>4. /\ Holds(a, k) /\ ~Holds(att'[h], k)
        /\ \A j : Holds(att'[h], j) => Holds(a, j) /\ att'[h].age = a.age
    BY <2>1, <2>2, <2>3, AdvanceHolds
  <2>5. h \in Holders(k) /\ Holders(k)' \subseteq Holders(k) \ {h}
    BY <2>3, <2>4 DEF Holders
  <2>6. /\ Cardinality(Holders(k)') <= Cardinality(Holders(k)) - 1
        /\ Cardinality(Holders(k)) > 0
    BY <2>5, HoldersFinite, CountDrop
  <2>7. CASE Fail(h)
    <3> DEFINE s == refresh(k, st[k])
               r == Touch(CountFailure(k, s))
    <3>1. PICK gone \in Evictions(k) : Update(k, gone, r)
      BY <2>2, <2>7 DEF Fail
    <3>2. /\ s \in State /\ Cardinality(Holders(k)) <= s.pending
          /\ s.failures + s.pending <= thresholdFor(k)
      BY RefreshCovered
    <3> HIDE DEF s
    <3>3. s.failures \in Nat /\ s.pending \in Nat /\ s.pending > 0
      BY <2>6, <3>2, HoldersFinite DEF State
    <3>4. Unreserve(s).pending = s.pending - 1
      BY <3>2, <3>3 DEF Unreserve, State
    <3>5. /\ r \in State /\ r.lastSeen = 0 /\ r.failures = s.failures + 1
          /\ r.pending = s.pending - 1
      BY <3>2, <3>4, CountFailureFacts, TouchFacts
    <3> HIDE DEF r
    <3>6. /\ st'[k] = r
          /\ \A j \in Key \ {k} : st'[j] = st[j] \/ (st'[j] = Zero /\ st[j].pending = 0)
      BY <1>t, <3>1, <3>5, EvictionFacts
    <3>7. Covered(k)'
      BY <2>6, <3>2, <3>3, <3>5, <3>6, HoldersFinite, ThresholdType DEF Covered
    <3> QED
      BY <1>t, <2>3, <2>4, <3>5, <3>6, <3>7, BucketStep
  <2>8. CASE (Success(h) \/ Release(h)) /\ k \notin keys
    <3>1. st' = st
      BY <2>2, <2>8 DEF Success, Release
    <3> QED
      BY <2>3, <2>4, <3>1, QuietStep
  <2>9. CASE (Success(h) \/ Release(h)) /\ k \in keys
    <3> DEFINE s == st[k]
    <3>1. s \in State /\ Covered(k)
      BY <1>f DEF IInv, AllCovered
    <3>2. \/ st' = [st EXCEPT ![k] = Touch(Clear(s))]
          \/ st' = [st EXCEPT ![k] = Touch(Unreserve(s))]
      BY <2>2, <2>9 DEF Success, Release
    <3>3. /\ st'[k] = Touch(Clear(s)) \/ st'[k] = Touch(Unreserve(s))
          /\ \A j \in Key \ {k} : st'[j] = st[j]
      BY <1>t, <3>2 DEF TypeOK
    <3> HIDE DEF s
    <3>4. /\ s.failures \in Nat /\ s.pending \in Nat
          /\ Cardinality(Holders(k)) <= s.pending
          /\ s.failures + s.pending <= thresholdFor(k)
      BY <3>1 DEF Covered, State, s
    <3>5. s.pending > 0
      BY <2>6, <3>4, HoldersFinite
    <3>6. /\ Unreserve(s) \in State /\ Unreserve(s).pending = s.pending - 1
          /\ Unreserve(s).failures = s.failures
      BY <3>1, <3>5 DEF Unreserve, State
    <3>7. Clear(s) \in State /\ Clear(s).pending = s.pending - 1 /\ Clear(s).failures = 0
      BY <3>1, <3>6, ClearFacts
    <3>8. /\ st'[k].lastSeen = 0 /\ st'[k].pending = s.pending - 1
          /\ st'[k].failures = 0 \/ st'[k].failures = s.failures
      BY <3>3, <3>6, <3>7, TouchFacts
    <3>9. Covered(k)'
      BY <2>6, <3>4, <3>5, <3>8, HoldersFinite, ThresholdType DEF Covered
    <3> QED
      BY <1>t, <2>3, <2>4, <3>3, <3>8, <3>9, BucketStep
  <2> QED
    BY <1>5, <2>7, <2>8, <2>9
<1>6. ASSUME NEW h \in Handlers, Leak(h)
      PROVE  AllCovered' /\ SeenByHolders'
  <2> DEFINE b == [att[h] EXCEPT !.lo = 4]
  <2>1. st' = st /\ (\A g \in Handlers \ {h} : att'[g] = att[g]) /\ att'[h] = Resolved(b)
    BY <1>6, <1>f DEF Leak
  <2>2. Resolved(b) = IdleAttempt(b.surface)
    BY <1>a DEF Resolved, Attempt
  <2>3. \A j : ~Holds(att'[h], j)
    BY <2>1, <2>2 DEF Holds, IdleAttempt
  <2> QED
    BY <2>1, <2>3, QuietStep
<1>7. ASSUME NEW sf, NEW p, NEW ac, SelfState(sf, p, ac)
      PROVE  AllCovered' /\ SeenByHolders'
  <2>1. att' = att
    BY <1>7 DEF SelfState
  <2>2. ASSUME NEW k \in Key
        PROVE  Covered(k)' /\ st'[k].lastSeen = st[k].lastSeen
    <3>1. st'[k] = st[k] \/ st'[k] = refresh(k, st[k])
      BY <1>7 DEF SelfState
    <3>2. Holders(k)' = Holders(k)
      BY <2>1 DEF Holders
    <3>3. Covered(k)
      BY DEF IInv, AllCovered
    <3> QED
      BY <3>1, <3>2, <3>3, RefreshCovered DEF Covered
  <2> QED
    BY <2>1, <2>2 DEF IInv, AllCovered, SeenByHolders
<1>8. ASSUME NEW D, ClearMatching(D)
      PROVE  FALSE
  BY <1>8 DEF ClearMatching
<1>9. ASSUME Tick
      PROVE  AllCovered' /\ SeenByHolders'
  <2>1. ASSUME NEW h \in Handlers, NEW j
        PROVE  Holds(att'[h], j) => Holds(att[h], j) /\ att'[h].age = att[h].age + 1
    <3> DEFINE a == att[h]
               b == [a EXCEPT !.age = @ + 1]
    <3>1. att'[h] = IF a.pc = "idle" THEN a ELSE b
      BY <1>9 DEF Tick
    <3>2. a \in Attempt /\ AttemptOK(a)
      BY <1>a
    <3> HIDE DEF a
    <3>3. a.pc = "idle" => ~Holds(a, j)
      BY <3>2 DEF AttemptOK, Holds, Attempt
    <3>4. /\ b.lo = a.lo /\ b.hi = a.hi /\ b.age = a.age + 1
          /\ b.surface = a.surface /\ b.peer = a.peer /\ b.account = a.account
      BY <3>2 DEF Attempt
    <3> HIDE DEF b
    <3>5. \A i : KeyAt(b, i) = KeyAt(a, i)
      BY <3>4 DEF KeyAt
    <3>6. Holds(b, j) => Holds(a, j)
      BY <3>4, <3>5 DEF Holds
    <3> QED
      BY <3>1, <3>3, <3>4, <3>6 DEF a
  <2>2. ASSUME NEW k \in Key
        PROVE  /\ st'[k].failures = st[k].failures /\ st'[k].pending = st[k].pending
               /\ st'[k].lastSeen \in Nat /\ st'[k].lastSeen <= st[k].lastSeen + 1
    <3>1. st'[k] = st[k] \/ st'[k] = Aged(st[k])
      BY <1>9 DEF Tick
    <3>2. st[k] \in State
      BY <1>f
    <3> QED
      BY <3>1, <3>2, AgedFacts DEF State
  <2>3. ASSUME NEW k \in Key
        PROVE  Covered(k)'
    <3>1. Holders(k)' \subseteq Holders(k)
      BY <2>1 DEF Holders
    <3>2. Cardinality(Holders(k)') <= Cardinality(Holders(k))
      BY <3>1, HoldersFinite, FS_Subset
    <3>3. Covered(k) /\ st[k] \in State
      BY <1>f DEF IInv, AllCovered
    <3> QED
      BY <2>2, <3>2, <3>3, HoldersFinite DEF Covered, State
  <2>4. ASSUME NEW h \in Handlers, NEW k \in Key, Holds(att'[h], k)
        PROVE  st'[k].lastSeen <= att'[h].age
    <3>1. st[k].lastSeen <= att[h].age /\ att'[h].age = att[h].age + 1
      BY <2>1, <2>4 DEF IInv, SeenByHolders
    <3>2. st[k].lastSeen \in Nat /\ att[h].age \in Nat
      BY <1>a, <1>f DEF State, Attempt
    <3> QED
      BY <2>2, <3>1, <3>2
  <2> QED
    BY <2>3, <2>4 DEF AllCovered, SeenByHolders
<1>10. CASE UNCHANGED vars
  BY <1>10 DEF vars, IInv, AllCovered, Covered, Holders, SeenByHolders
<1> QED
  BY <1>1, <1>2, <1>3, <1>4, <1>5, <1>6, <1>7, <1>8, <1>9, <1>10
     DEF Next, handleAuthLimitClear, ClearPeer, ClearAccount

\* The empty limiter has nothing to cover.
LEMMA AdmissionInit == Init => IInv
<1> SUFFICES ASSUME Init PROVE IInv
  OBVIOUS
<1>1. TypeInv
  BY TypeInit
<1>2. \A h \in Handlers : \A k : ~Holds(att[h], k)
  BY DEF Init, Holds, IdleAttempt
<1>3. \A k : Holders(k) = {}
  BY <1>2 DEF Holders
<1>4. \A k \in Key : Cardinality(Holders(k)) = 0
  BY <1>3, FS_EmptySet
<1>5. \A k \in Key : st[k].pending = 0 /\ st[k].failures = 0
  BY DEF Init, Zero
<1> QED
  BY <1>1, <1>2, <1>4, <1>5, ThresholdType DEF IInv, AllCovered, Covered, SeenByHolders

\* I-R10 of SECURITY.md for every policy and any number of concurrent handlers,
\* leaking ones included: unless the operator clears buckets, the failures counted
\* against a key and the attempts past its Check never exceed its threshold.
THEOREM AdmissionBounded == ~OperatorClears => (Spec => []AdmissionBound)
<1>1. ASSUME IInv PROVE AdmissionBound
  <2>1. ASSUME NEW k \in Key
        PROVE  st[k].failures + Cardinality(Holders(k)) <= thresholdFor(k)
    <3>1. Covered(k) /\ st[k] \in State
      BY <1>1 DEF IInv, AllCovered, TypeInv, TypeOK
    <3> QED
      BY <3>1, HoldersFinite, ThresholdType DEF Covered, State
  <2> QED
    BY <2>1 DEF AdmissionBound
<1>2. ASSUME ~OperatorClears PROVE Spec => []AdmissionBound
  <2>1. IInv /\ [Next]_vars => IInv'
    BY <1>2, AdmissionStep
  <2> QED
    BY <1>1, <2>1, AdmissionInit, PTL DEF Spec
<1> QED
  BY <1>2

--------------------------------------------------------------------------------
(* Locks.                                                                  *)

\* A bucket is locked by its failures: with AllCovered, a locked bucket has no
\* holder, so no Success can reach it.
LockInv == \A k \in Key : IsLocked(st[k]) => st[k].failures >= thresholdFor(k)

\* What a step may do to the lock of a key.
LockKept(k) ==
    /\ IsLocked(st'[k]) => st'[k].failures >= thresholdFor(k)
    /\ k \in keys /\ IsLocked(st[k]) /\ st'[k].lock = Never => k \notin keys' /\ Idle = {}

\* refreshLocked leaves a lock in force alone and sets none.
LEMMA RefreshLock ==
    ASSUME NEW k \in Key, NEW s \in State
    PROVE  /\ IsLocked(s) => /\ refresh(k, s).lock = s.lock
                              /\ refresh(k, s).failures = s.failures
           /\ ~IsLocked(s) => ~IsLocked(refresh(k, s))
<1> DEFINE t == ExpireLock(k, s)
           u == ExpireStreak(t)
           v == DropLeaked(k, u)
<1>1. t \in State
  BY ExpireLockFacts
<1>2. /\ IsLocked(s) => t = s
      /\ ~IsLocked(s) => t.lock <= 0
  BY DEF IsLocked, ExpireLock, State, Never
<1> HIDE DEF t
<1>3. u \in State
  BY <1>1, ExpireStreakFacts
<1>4. /\ t.lock > 0 => u = t
      /\ u.lock = t.lock
  BY <1>1 DEF ExpireStreak, State, Never
<1> HIDE DEF u
<1>5. v.lock = u.lock /\ v.failures = u.failures
  BY <1>3 DEF DropLeaked, State
<1>6. refresh(k, s) = v
  BY DEF refresh, t, u, v
<1> HIDE DEF v
<1>7. s.lock \in Int /\ t.lock \in Int
  BY <1>1 DEF State
<1> QED
  BY <1>2, <1>4, <1>5, <1>6, <1>7 DEF IsLocked

\* A step on the bucket of k that respects its lock respects every lock: an eviction
\* takes a locked bucket only when there is no unlocked, unreserved one.
LEMMA BucketLock ==
    ASSUME TypeOK, LockInv, NEW k \in Key, NEW gone \in Evictions(k), NEW s \in State,
           Update(k, gone, s),
           IsLocked(s) => s.failures >= thresholdFor(k),
           IsLocked(st[k]) => s.lock # Never
    PROVE  \A j \in Key : LockKept(j)
<1>1. \A v \in gone : v \in keys /\ v # k /\ (IsLocked(st[v]) => Idle = {})
  BY DEF Evictions, Victims, Oldest, Idle, LockedIdle
<1>2. /\ st' = [Without(gone) EXCEPT ![k] = s]
      /\ keys' = (keys \ gone) \cup {k}
      /\ Without(gone) = [j \in Key |-> IF j \in gone THEN Zero ELSE st[j]]
  BY DEF Update, Without
<1>3. ~IsLocked(Zero)
  BY DEF IsLocked, Zero, Never
<1>4. \A j \in Key : IsLocked(st[j]) => st[j].lock # Never
  BY DEF TypeOK, State, IsLocked, Never
<1>5. st'[k] = s
  BY <1>2
<1>6. ASSUME NEW j \in Key, j # k, j \in gone
      PROVE  LockKept(j)
  <2>1. st'[j] = Zero /\ j \notin keys'
    BY <1>2, <1>6
  <2> QED
    BY <1>1, <1>3, <1>6, <2>1 DEF LockKept
<1>7. ASSUME NEW j \in Key, j # k, j \notin gone
      PROVE  LockKept(j)
  <2>1. st'[j] = st[j]
    BY <1>2, <1>7
  <2> QED
    BY <1>4, <2>1 DEF LockKept, LockInv
<1>8. LockKept(k)
  BY <1>5 DEF LockKept
<1> QED
  BY <1>6, <1>7, <1>8

\* A step that leaves every lock and every failure count as it is.
LEMMA QuietLock ==
    ASSUME TypeOK, LockInv, NEW k \in Key, st'[k].lock = st[k].lock,
           st'[k].failures = st[k].failures
    PROVE  LockKept(k)
BY DEF LockKept, LockInv, IsLocked, TypeOK, State, Never

\* Without operator clears, every action leaves the locks to the clock.
LEMMA LockStep ==
    ASSUME IInv, LockInv, [Next]_vars, ~OperatorClears, NEW j \in Key
    PROVE  LockKept(j)
<1>t. TypeOK /\ \A k \in Key : st[k] \in State
  BY DEF IInv, TypeInv, TypeOK
<1>a. \A h \in Handlers : att[h] \in Attempt /\ AttemptOK(att[h])
  BY DEF IInv, TypeInv, TypeOK, AttemptsOK
<1>u. CASE st' = st
  BY <1>t, <1>u, QuietLock
<1>1. ASSUME NEW h \in Handlers, CheckGranted(h) \/ CheckDenied(h)
      PROVE  LockKept(j)
  <2> DEFINE k == KeyAt(att[h], att[h].hi + 1)
             s == refresh(k, st[k])
  <2>1. k \in Key
    BY <1>a, KeyAtType DEF Attempt
  <2>2. PICK gone \in Evictions(k), r \in {Touch(Reserve(s)), Touch(s)} : Update(k, gone, r)
    BY <1>1 DEF CheckGranted, CheckDenied
  <2> HIDE DEF k
  <2>3. s \in State
    BY <1>t, <2>1, RefreshFacts
  <2>4. /\ IsLocked(st[k]) => s.lock = st[k].lock /\ s.failures = st[k].failures
        /\ ~IsLocked(st[k]) => ~IsLocked(s)
    BY <1>t, <2>1, RefreshLock
  <2> HIDE DEF s
  <2>5. r \in State /\ r.lock = s.lock /\ r.failures = s.failures
    <3>1. \A x \in State : /\ Touch(x) \in State /\ Touch(x).lock = x.lock
                           /\ Touch(x).failures = x.failures
      BY DEF Touch, State
    <3>2. /\ Reserve(s) \in State /\ Reserve(s).lock = s.lock
          /\ Reserve(s).failures = s.failures
      BY <2>3 DEF Reserve, State
    <3>3. r = Touch(Reserve(s)) \/ r = Touch(s)
      BY <2>2
    <3> QED
      BY <2>3, <3>1, <3>2, <3>3
  <2>6. /\ IsLocked(r) => r.failures >= thresholdFor(k)
        /\ IsLocked(st[k]) => r.lock # Never
    BY <1>t, <2>1, <2>4, <2>5 DEF LockInv, IsLocked, State, Never
  <2> QED
    BY <1>t, <2>1, <2>2, <2>5, <2>6, BucketLock
<1>2. ASSUME NEW h \in Handlers, Fail(h)
      PROVE  LockKept(j)
  <2> DEFINE k == KeyAt(att[h], att[h].lo)
             s == refresh(k, st[k])
             r == Touch(CountFailure(k, s))
  <2>1. k \in Key
    BY <1>a, KeyAtType DEF Attempt
  <2>2. PICK gone \in Evictions(k) : Update(k, gone, r)
    BY <1>2 DEF Fail
  <2> HIDE DEF k
  <2>3. s \in State
    BY <1>t, <2>1, RefreshFacts
  <2>4. /\ IsLocked(st[k]) => s.lock = st[k].lock /\ s.failures = st[k].failures
        /\ ~IsLocked(st[k]) => ~IsLocked(s)
    BY <1>t, <2>1, RefreshLock
  <2>5. IsLocked(s) => s.failures >= thresholdFor(k)
    BY <2>1, <2>4 DEF LockInv
  <2>6. thresholdFor(k) \in Nat /\ s.failures \in Nat /\ s.lock \in Int
    BY <2>1, <2>3, ThresholdType DEF State
  <2> HIDE DEF s
  <2>7. /\ CountFailure(k, s) \in State
        /\ CountFailure(k, s).failures = s.failures + 1
    BY <2>1, <2>3, CountFailureFacts
  <2>8. \/ /\ s.failures + 1 >= thresholdFor(k)
           /\ CountFailure(k, s).lock \in Nat
        \/ /\ ~(s.failures + 1 >= thresholdFor(k))
           /\ CountFailure(k, s).lock = s.lock
    <3> DEFINE failed == [Unreserve(s) EXCEPT !.failures = @ + 1, !.lastFailure = 0]
               len    == NextLockLen(s.lockLen)
    <3>1. len \in Nat
      BY <2>3, PolicyAssumption DEF NextLockLen, State
    <3>2. Unreserve(s) \in State /\ Unreserve(s).failures = s.failures /\ Unreserve(s).lock = s.lock
      BY <2>3 DEF Unreserve, State
    <3>3. failed.failures = s.failures + 1 /\ failed.lock = s.lock
      BY <3>2 DEF State
    <3>4. [failed EXCEPT !.lockLen = len, !.lock = len].lock = len
      <4>1. DOMAIN Unreserve(s) = DOMAIN failed /\ "lock" \in DOMAIN failed
        BY <3>2 DEF State
      <4> QED
        BY <4>1
    <3>5. CountFailure(k, s) =
            IF failed.failures >= thresholdFor(k)
            THEN [failed EXCEPT !.lockLen = len, !.lock = len] ELSE failed
      BY DEF CountFailure
    <3> HIDE DEF failed, len
    <3> QED
      BY <3>1, <3>3, <3>4, <3>5
  <2>9. r \in State /\ r.failures = s.failures + 1 /\ r.lock = CountFailure(k, s).lock
    BY <2>7 DEF Touch, State
  <2> HIDE DEF r
  <2>10. IsLocked(r) => r.failures >= thresholdFor(k)
    BY <2>5, <2>6, <2>8, <2>9 DEF IsLocked
  <2>11. IsLocked(st[k]) => r.lock # Never
    BY <2>4, <2>5, <2>6, <2>8, <2>9 DEF IsLocked, Never
  <2> QED
    BY <1>t, <2>1, <2>2, <2>9, <2>10, <2>11, BucketLock
<1>3. ASSUME NEW h \in Handlers, Success(h)
      PROVE  LockKept(j)
  <2> DEFINE a == att[h]
             k == KeyAt(a, a.lo)
  <2>1. a \in Attempt /\ AttemptOK(a) /\ a.pc = "success"
    BY <1>3, <1>a DEF Success
  <2>2. k \in Key
    BY <2>1, KeyAtType DEF Attempt
  <2>3. h \in Holders(k)
    BY <2>1, AdvanceHolds DEF Holders
  <2>4. ~IsLocked(st[k])
    <3>1. Covered(k)
      BY <2>2 DEF IInv, AllCovered
    <3>2. Cardinality(Holders(k)) > 0
      BY <2>3, HoldersFinite, CountDrop
    <3>3. /\ Cardinality(Holders(k)) \in Nat /\ thresholdFor(k) \in Nat
          /\ st[k].failures \in Nat /\ st[k].pending \in Nat
      BY <1>t, <2>2, HoldersFinite, ThresholdType DEF State
    <3>4. ~(st[k].failures >= thresholdFor(k))
      BY <3>1, <3>2, <3>3 DEF Covered
    <3> QED
      BY <2>2, <3>4 DEF LockInv
  <2>5. st' = st \/ st' = [st EXCEPT ![k] = Touch(Clear(st[k]))]
    BY <1>3 DEF Success
  <2> HIDE DEF k
  <2>6. CASE j = k
    <3>1. Clear(st[k]) \in State /\ Clear(st[k]).lock = Never
      <4>1. Clear(st[k]) \in State /\ Unreserve(st[k]) \in State
        BY <1>t, <2>2, ClearFacts, SmallUpdates
      <4>2. "lock" \in DOMAIN Unreserve(st[k])
        BY <4>1 DEF State
      <4> QED
        BY <4>1, <4>2 DEF Clear
    <3>2. Touch(Clear(st[k])).lock = Never
      BY <3>1 DEF Touch, State
    <3>3. st'[k] = st[k] \/ st'[k] = Touch(Clear(st[k]))
      BY <1>t, <2>2, <2>5 DEF TypeOK
    <3>4. ~IsLocked(st'[k])
      BY <2>4, <3>2, <3>3 DEF IsLocked, Never
    <3> QED
      BY <2>4, <2>6, <3>4 DEF LockKept
  <2>7. CASE j # k
    <3>1. st'[j] = st[j]
      BY <1>t, <2>5, <2>7 DEF TypeOK
    <3> QED
      BY <1>t, <3>1, QuietLock
  <2> QED
    BY <2>6, <2>7
<1>4. ASSUME NEW h \in Handlers, Release(h)
      PROVE  LockKept(j)
  <2> DEFINE k == KeyAt(att[h], att[h].lo)
  <2>1. st' = st \/ st' = [st EXCEPT ![k] = Touch(Unreserve(st[k]))]
    BY <1>4 DEF Release
  <2>2. st'[j] = st[j] \/ st'[j] = Touch(Unreserve(st[j]))
    BY <1>t, <2>1 DEF TypeOK
  <2>3. st'[j].lock = st[j].lock /\ st'[j].failures = st[j].failures
    BY <1>t, <2>2 DEF Touch, Unreserve, State
  <2> QED
    BY <1>t, <2>3, QuietLock
<1>5. ASSUME NEW sf, NEW p, NEW ac, SelfState(sf, p, ac)
      PROVE  LockKept(j)
  <2>1. st'[j] = st[j] \/ st'[j] = refresh(j, st[j])
    BY <1>5 DEF SelfState
  <2>2. CASE IsLocked(st[j])
    BY <1>t, <2>1, <2>2, RefreshLock, QuietLock
  <2>3. CASE ~IsLocked(st[j])
    BY <1>t, <2>1, <2>3, RefreshLock DEF LockKept
  <2> QED
    BY <2>2, <2>3
<1>6. ASSUME NEW D, ClearMatching(D)
      PROVE  FALSE
  BY <1>6 DEF ClearMatching
<1>7. ASSUME Tick
      PROVE  LockKept(j)
  <2>1. st'[j] = st[j] \/ st'[j] = Aged(st[j])
    BY <1>7 DEF Tick
  <2>2. /\ Aged(st[j]).failures = st[j].failures
        /\ Aged(st[j]).lock = IF st[j].lock > 0 THEN st[j].lock - 1 ELSE st[j].lock
    BY <1>t DEF Aged, State
  <2>3. CASE st'[j] = st[j]
    BY <1>t, <2>3, QuietLock
  <2>4. CASE st'[j] = Aged(st[j])
    BY <1>t, <2>2, <2>4 DEF LockKept, LockInv, IsLocked, State, Never
  <2> QED
    BY <2>1, <2>3, <2>4
<1>8. ASSUME NEW h \in Handlers, NEW sf, NEW p, NEW ac, Begin(h, sf, p, ac)
      PROVE  LockKept(j)
  BY <1>8, <1>u DEF Begin
<1>9. ASSUME NEW h \in Handlers, NEW verdict, Verify(h, verdict) \/ Leak(h)
      PROVE  LockKept(j)
  BY <1>9, <1>u DEF Verify, Leak
<1>10. CASE UNCHANGED vars
  BY <1>10, <1>u DEF vars
<1> QED
  BY <1>1, <1>2, <1>3, <1>4, <1>5, <1>6, <1>7, <1>8, <1>9, <1>10
     DEF Next, handleAuthLimitClear, ClearPeer, ClearAccount

\* I-R1, I-R3 and I-R6 of SECURITY.md for every policy, map bound and number of
\* handlers: unless the operator clears buckets, a lock in force ends only by the
\* clock, or by an eviction that had no unlocked, unreserved bucket to take.
THEOREM LocksEndByTime == ~OperatorClears => (Spec => LockEndsByTime)
<1> SUFFICES ASSUME ~OperatorClears PROVE Spec => LockEndsByTime
  OBVIOUS
<1>1. Init => IInv /\ LockInv
  <2>1. Init => LockInv
    BY DEF Init, LockInv, IsLocked, Zero, Never
  <2> QED
    BY <2>1, AdmissionInit
<1>2. IInv /\ LockInv /\ [Next]_vars => (IInv /\ LockInv)'
  <2> SUFFICES ASSUME IInv, LockInv, [Next]_vars PROVE (IInv /\ LockInv)'
    OBVIOUS
  <2>1. IInv'
    BY AdmissionStep
  <2>2. \A k \in Key : LockKept(k)
    BY LockStep
  <2> QED
    BY <2>1, <2>2 DEF LockKept, LockInv
<1>3. IInv /\ LockInv /\ [Next]_vars
        => [\A k \in keys : IsLocked(st[k]) /\ st'[k].lock = Never
               => k \notin keys' /\ Idle = {}]_vars
  <2> SUFFICES ASSUME IInv, LockInv, [Next]_vars,
                      NEW k \in keys, IsLocked(st[k]), st'[k].lock = Never
               PROVE  k \notin keys' /\ Idle = {}
    OBVIOUS
  <2>1. k \in Key
    BY DEF IInv, TypeInv, TypeOK
  <2> QED
    BY <2>1, LockStep DEF LockKept
<1> QED
  BY <1>1, <1>2, <1>3, PTL DEF Spec, LockEndsByTime

--------------------------------------------------------------------------------
(* Reservations.                                                           *)

\* A key without a bucket counts nothing.
Unused == \A k \in Key : k \notin keys => st[k] = Zero

\* The converse of Covered: what a bucket counts, attempts really hold.
BackedInv == TypeInv /\ NoPhantomReservation /\ Unused

\* refreshLocked adds no reservation.
LEMMA RefreshPending ==
    ASSUME NEW k \in Key, NEW s \in State
    PROVE  refresh(k, s) \in State /\ refresh(k, s).pending <= s.pending
<1> DEFINE t == ExpireLock(k, s)
           u == ExpireStreak(t)
<1>1. t \in State /\ t.pending = s.pending
  BY ExpireLockFacts
<1> HIDE DEF t
<1>2. u \in State /\ u.pending = t.pending
  BY <1>1, ExpireStreakFacts
<1> HIDE DEF u
<1>3. DropLeaked(k, u) \in State /\ DropLeaked(k, u).pending <= u.pending
  BY <1>2, DropLeakedFacts
<1>4. refresh(k, s) = DropLeaked(k, u)
  BY DEF refresh, t, u
<1> QED
  BY <1>1, <1>2, <1>3, <1>4

\* Resolving a key gives up no other key.
LEMMA AdvanceKeeps ==
    ASSUME NEW a \in Attempt, AttemptOK(a), a.pc \in {"fail", "success", "release"},
           NEW b, b = Resolved([a EXCEPT !.lo = @ + 1]),
           NEW j, j # KeyAt(a, a.lo), Holds(a, j)
    PROVE  Holds(b, j)
<1> DEFINE c == [a EXCEPT !.lo = @ + 1]
<1>1. /\ c.lo = a.lo + 1 /\ c.hi = a.hi
      /\ c.surface = a.surface /\ c.peer = a.peer /\ c.account = a.account
  BY DEF Attempt
<1>2. b = Resolved(c)
  BY DEF c
<1> HIDE DEF c
<1>3. a.lo \in Int /\ a.hi \in Int
  BY DEF Attempt
<1>4. PICK i \in a.lo .. a.hi : j = KeyAt(a, i)
  BY DEF Holds
<1>5. i \in a.lo + 1 .. a.hi
  BY <1>3, <1>4
<1>6. j = KeyAt(c, i)
  BY <1>1, <1>4 DEF KeyAt
<1>7. b = c
  BY <1>1, <1>2, <1>3, <1>5 DEF Resolved
<1> QED
  BY <1>1, <1>5, <1>6, <1>7 DEF Holds

\* A bucket that gains no reservation and loses no holder stays backed.
LEMMA StillBacked ==
    ASSUME BackedInv, TypeInv', NEW j \in Key, st'[j].pending <= st[j].pending,
           \A h \in Handlers : Holds(att[h], j) => Holds(att'[h], j)
    PROVE  st'[j].pending <= Cardinality(Holders(j)')
<1>1. Holders(j) \subseteq Holders(j)'
  BY DEF Holders
<1>2. Cardinality(Holders(j)) <= Cardinality(Holders(j)')
  BY <1>1, HoldersFinite, FS_Subset
<1>3. st[j].pending <= Cardinality(Holders(j))
  BY DEF BackedInv, NoPhantomReservation
<1>4. st[j].pending \in Nat /\ st'[j].pending \in Nat
  BY DEF BackedInv, TypeInv, TypeOK, State
<1> QED
  BY <1>2, <1>3, <1>4, HoldersFinite

\* What one locked operation leaves without a bucket counts nothing.
LEMMA UpdateUnused ==
    ASSUME BackedInv, NEW k \in Key, NEW gone, NEW s, Update(k, gone, s)
    PROVE  Unused'
<1>1. keys' = (keys \ gone) \cup {k}
  BY DEF Update
<1>2. \A j \in Key : j # k => st'[j] = IF j \in gone THEN Zero ELSE st[j]
  BY DEF Update, Without
<1> QED
  BY <1>1, <1>2 DEF Unused, BackedInv

\* Without leaking handlers, every action keeps the reservations backed.
LEMMA BackedStep ==
    ASSUME BackedInv, [Next]_vars, ~HandlersLeak
    PROVE  BackedInv'
<1>t. TypeInv /\ TypeInv' /\ TypeOK
  BY TypeStep DEF BackedInv, TypeInv
<1> SUFFICES (\A j \in Key : st'[j].pending <= Cardinality(Holders(j)')) /\ Unused'
  BY <1>t DEF BackedInv, NoPhantomReservation
<1>a. \A h \in Handlers : att[h] \in Attempt /\ AttemptOK(att[h])
  BY <1>t DEF TypeInv, TypeOK, AttemptsOK
<1>f. DOMAIN att = Handlers /\ \A k \in Key : st[k] \in State
  BY <1>t DEF TypeOK
<1>n. \A k \in Key : st[k].pending \in Nat /\ st[k].pending <= Cardinality(Holders(k))
  BY <1>f DEF State, BackedInv, NoPhantomReservation
<1>z. Zero.pending = 0
  BY DEF Zero
<1> DEFINE Goal == (\A j \in Key : st'[j].pending <= Cardinality(Holders(j)')) /\ Unused'
<1>q. ASSUME st' = st, keys' = keys, NEW h \in Handlers,
             \A g \in Handlers \ {h} : att'[g] = att[g],
             \A j \in Key : Holds(att[h], j) => Holds(att'[h], j)
      PROVE  Goal
  <2>1. \A j \in Key : \A g \in Handlers : Holds(att[g], j) => Holds(att'[g], j)
    BY <1>q
  <2>2. \A j \in Key : st'[j].pending <= st[j].pending
    BY <1>q, <1>n
  <2>3. Unused'
    BY <1>q DEF Unused, BackedInv
  <2> QED
    BY <1>t, <2>1, <2>2, <2>3, StillBacked
<1>1. ASSUME NEW h \in Handlers, NEW sf \in Surfaces, NEW p \in Peers,
             NEW ac \in Accounts \cup {NoAccount}, Begin(h, sf, p, ac)
      PROVE  Goal
  <2>1. st' = st /\ keys' = keys /\ \A g \in Handlers \ {h} : att'[g] = att[g]
    BY <1>1, <1>f DEF Begin
  <2>2. \A j : ~Holds(att[h], j)
    BY <1>1, <1>a DEF Begin, AttemptOK, Holds, Attempt
  <2> QED
    BY <2>1, <2>2, <1>q
<1>2. ASSUME NEW h \in Handlers, CheckGranted(h)
      PROVE  Goal
  <2> DEFINE a == att[h]
             b == att'[h]
  <2>1. PICK k \in Key : k = KeyAt(a, a.hi + 1)
    BY <1>a, KeyAtType DEF Attempt
  <2> DEFINE s == refresh(k, st[k])
             r == Touch(Reserve(s))
  <2>2. a \in Attempt /\ AttemptOK(a) /\ a.pc = "check"
    BY <1>2, <1>a DEF CheckGranted
  <2>3. PICK gone \in Evictions(k) : Update(k, gone, r)
    BY <1>2, <2>1 DEF CheckGranted
  <2>4. \A g \in Handlers \ {h} : att'[g] = att[g]
    BY <1>2, <1>f DEF CheckGranted
  <2>5. /\ b.lo = a.lo /\ b.hi = a.hi + 1
        /\ b.surface = a.surface /\ b.peer = a.peer /\ b.account = a.account
    BY <1>2, <1>f, <2>2 DEF CheckGranted, Attempt
  <2> HIDE DEF a, b
  <2>6. /\ a.lo = 1 /\ a.hi \in 0 .. 3 /\ a.hi < KeyCount(a) /\ a.peer \in Peers
        /\ KeyCount(a) \in Nat
    BY <2>2 DEF AttemptOK, Attempt, KeyCount
  <2>7. \A i : KeyAt(b, i) = KeyAt(a, i)
    BY <2>5 DEF KeyAt
  <2>8. /\ Holds(b, k)
        /\ \A j : Holds(a, j) => Holds(b, j)
    BY <2>1, <2>5, <2>6, <2>7 DEF Holds
  <2>9. ~Holds(a, k)
    <3> SUFFICES ASSUME NEW i \in a.lo .. a.hi, k = KeyAt(a, i) PROVE FALSE
      BY DEF Holds
    <3>1. i \in 1 .. KeyCount(a) /\ a.hi + 1 \in 1 .. KeyCount(a) /\ i # a.hi + 1
      BY <2>6
    <3> QED
      BY <2>1, <2>2, <2>6, <3>1, KeyAtInjective
  <2>10. s \in State /\ s.pending <= st[k].pending
    BY <1>f, RefreshPending
  <2> HIDE DEF s
  <2>11. r \in State /\ r.pending = s.pending + 1
    <3>1. Reserve(s) \in State /\ Reserve(s).pending = s.pending + 1
      BY <2>10, SmallUpdates DEF Reserve, State
    <3> QED
      BY <3>1, TouchFacts
  <2> HIDE DEF r
  <2>12. /\ st'[k] = r
         /\ \A j \in Key \ {k} : st'[j] = st[j] \/ (st'[j] = Zero /\ st[j].pending = 0)
    BY <1>t, <2>3, <2>11, EvictionFacts
  <2>13. h \notin Holders(k) /\ Holders(k) \cup {h} \subseteq Holders(k)'
    BY <2>4, <2>8, <2>9 DEF Holders, a, b
  <2>14. Cardinality(Holders(k)) + 1 <= Cardinality(Holders(k)')
    <3>1. Cardinality(Holders(k) \cup {h}) = Cardinality(Holders(k)) + 1
      BY <2>13, HoldersFinite, FS_AddElement
    <3>2. Cardinality(Holders(k) \cup {h}) <= Cardinality(Holders(k)')
      BY <2>13, HoldersFinite, FS_Subset
    <3> QED
      BY <3>1, <3>2
  <2>15. s.pending \in Nat
    BY <2>10 DEF State
  <2>16. st'[k].pending <= Cardinality(Holders(k)')
    BY <1>n, <2>10, <2>11, <2>12, <2>14, <2>15, HoldersFinite
  <2>17. ASSUME NEW j \in Key, j # k
         PROVE  st'[j].pending <= Cardinality(Holders(j)')
    <3>1. st'[j].pending <= st[j].pending
      BY <1>n, <1>z, <2>12, <2>17
    <3>2. \A g \in Handlers : Holds(att[g], j) => Holds(att'[g], j)
      BY <2>4, <2>8 DEF a, b
    <3> QED
      BY <1>t, <3>1, <3>2, StillBacked
  <2> QED
    BY <2>3, <2>16, <2>17, UpdateUnused
<1>3. ASSUME NEW h \in Handlers, CheckDenied(h)
      PROVE  Goal
  <2> DEFINE a == att[h]
             c == [a EXCEPT !.pc = "release"]
  <2>1. PICK k \in Key : k = KeyAt(a, a.hi + 1)
    BY <1>a, KeyAtType DEF Attempt
  <2> DEFINE s == refresh(k, st[k])
             r == Touch(s)
  <2>2. a \in Attempt
    BY <1>a
  <2>3. PICK gone \in Evictions(k) : Update(k, gone, r)
    BY <1>3, <2>1 DEF CheckDenied
  <2>4. (\A g \in Handlers \ {h} : att'[g] = att[g]) /\ att'[h] = Resolved(c)
    BY <1>3, <1>f DEF CheckDenied
  <2>5. \A j : Holds(a, j) => Holds(Resolved(c), j)
    <3>1. /\ c.lo = a.lo /\ c.hi = a.hi /\ a.lo \in Int /\ a.hi \in Int
          /\ c.surface = a.surface /\ c.peer = a.peer /\ c.account = a.account
      BY <2>2 DEF Attempt
    <3> HIDE DEF c, a
    <3>2. \A i : KeyAt(c, i) = KeyAt(a, i)
      BY <3>1 DEF KeyAt
    <3>3. \A j : Holds(a, j) => Holds(c, j) /\ ~(c.lo > c.hi)
      BY <3>1, <3>2 DEF Holds
    <3> QED
      BY <3>3 DEF Resolved
  <2>6. s \in State /\ s.pending <= st[k].pending
    BY <1>f, RefreshPending
  <2> HIDE DEF s
  <2>7. r \in State /\ r.pending = s.pending
    BY <2>6, TouchFacts
  <2> HIDE DEF r
  <2>8. /\ st'[k] = r
        /\ \A j \in Key \ {k} : st'[j] = st[j] \/ (st'[j] = Zero /\ st[j].pending = 0)
    BY <1>t, <2>3, <2>7, EvictionFacts
  <2>9. ASSUME NEW j \in Key
        PROVE  st'[j].pending <= Cardinality(Holders(j)')
    <3>1. st'[j].pending <= st[j].pending
      BY <1>n, <1>z, <2>6, <2>7, <2>8
    <3>2. \A g \in Handlers : Holds(att[g], j) => Holds(att'[g], j)
      BY <2>4, <2>5
    <3> QED
      BY <1>t, <3>1, <3>2, StillBacked
  <2> QED
    BY <2>3, <2>9, UpdateUnused
<1>4. ASSUME NEW h \in Handlers, NEW verdict \in {"fail", "success", "release"},
             Verify(h, verdict)
      PROVE  Goal
  <2> DEFINE a == att[h]
             b == att'[h]
  <2>1. st' = st /\ keys' = keys /\ \A g \in Handlers \ {h} : att'[g] = att[g]
    BY <1>4, <1>f DEF Verify
  <2>2. /\ b.lo = a.lo /\ b.hi = a.hi
        /\ b.surface = a.surface /\ b.peer = a.peer /\ b.account = a.account
    BY <1>4, <1>a, <1>f DEF Verify, Attempt
  <2> HIDE DEF a, b
  <2>3. \A i : KeyAt(b, i) = KeyAt(a, i)
    BY <2>2 DEF KeyAt
  <2>4. \A j : Holds(a, j) => Holds(b, j)
    BY <2>2, <2>3 DEF Holds
  <2> QED
    BY <2>1, <2>4, <1>q DEF a, b
<1>5. ASSUME NEW h \in Handlers, Fail(h) \/ Success(h) \/ Release(h)
      PROVE  Goal
  <2> DEFINE a == att[h]
  <2>1. a \in Attempt /\ AttemptOK(a) /\ a.pc \in {"fail", "success", "release"}
    BY <1>5, <1>a DEF Fail, Success, Release
  <2>2. PICK k \in Key : k = KeyAt(a, a.lo)
    BY <2>1, KeyAtType DEF Attempt
  <2>3. /\ \A g \in Handlers \ {h} : att'[g] = att[g]
        /\ att'[h] = Resolved([a EXCEPT !.lo = @ + 1])
    BY <1>5, <1>f DEF Fail, Success, Release
  <2>4. \A j : j # k /\ Holds(a, j) => Holds(att'[h], j)
    BY <2>1, <2>2, <2>3, AdvanceKeeps
  <2>5. Holders(k) \ {h} \subseteq Holders(k)'
    BY <2>3 DEF Holders
  <2>6. Cardinality(Holders(k)) - 1 <= Cardinality(Holders(k)')
    <3>1. /\ Cardinality(Holders(k) \ {h}) \in Nat
          /\ Cardinality(Holders(k)) - 1 <= Cardinality(Holders(k) \ {h})
      <4>1. /\ IsFiniteSet(Holders(k) \ {h})
            /\ Cardinality(Holders(k) \ {h}) = IF h \in Holders(k)
                                               THEN Cardinality(Holders(k)) - 1
                                               ELSE Cardinality(Holders(k))
        BY HoldersFinite, FS_RemoveElement
      <4>2. Cardinality(Holders(k) \ {h}) \in Nat
        BY <4>1, FS_CardinalityType
      <4> QED
        BY <4>1, <4>2, HoldersFinite
    <3>2. Cardinality(Holders(k) \ {h}) <= Cardinality(Holders(k)')
      BY <2>5, HoldersFinite, FS_Subset
    <3> QED
      BY <3>1, <3>2, HoldersFinite
  <2>7. ASSUME NEW j \in Key, j # k, st'[j].pending <= st[j].pending
        PROVE  st'[j].pending <= Cardinality(Holders(j)')
    <3>1. \A g \in Handlers : Holds(att[g], j) => Holds(att'[g], j)
      BY <2>3, <2>4, <2>7
    <3> QED
      BY <1>t, <2>7, <3>1, StillBacked
  <2>8. ASSUME NEW s \in State, s.pending <= st[k].pending
        PROVE  /\ Unreserve(s).pending \in Nat
               /\ Unreserve(s).pending <= Cardinality(Holders(k)')
    <3>1. /\ Unreserve(s).pending = IF s.pending > 0 THEN s.pending - 1 ELSE s.pending
          /\ s.pending \in Nat
      BY DEF Unreserve, State
    <3>2. st[k].pending \in Nat /\ st[k].pending <= Cardinality(Holders(k))
      BY <1>n
    <3> QED
      BY <2>6, <2>8, <3>1, <3>2, HoldersFinite
  <2>9. CASE Fail(h)
    <3> DEFINE s == refresh(k, st[k])
               r == Touch(CountFailure(k, s))
    <3>1. PICK gone \in Evictions(k) : Update(k, gone, r)
      BY <2>2, <2>9 DEF Fail
    <3>2. s \in State /\ s.pending <= st[k].pending
      BY <1>f, RefreshPending
    <3> HIDE DEF s
    <3>3. r \in State /\ r.pending = Unreserve(s).pending
      BY <3>2, CountFailureFacts, TouchFacts
    <3> HIDE DEF r
    <3>4. /\ st'[k] = r
          /\ \A j \in Key \ {k} : st'[j] = st[j] \/ (st'[j] = Zero /\ st[j].pending = 0)
      BY <1>t, <3>1, <3>3, EvictionFacts
    <3>5. \A j \in Key \ {k} : st'[j].pending <= st[j].pending
      BY <1>n, <1>z, <3>4
    <3>6. st'[k].pending <= Cardinality(Holders(k)')
      BY <2>8, <3>2, <3>3, <3>4
    <3> QED
      BY <2>7, <3>1, <3>5, <3>6, UpdateUnused
  <2>10. CASE (Success(h) \/ Release(h)) /\ k \notin keys
    <3>1. st' = st /\ keys' = keys
      BY <2>2, <2>10 DEF Success, Release
    <3>2. st'[k].pending = 0
      BY <1>z, <2>10, <3>1 DEF Unused, BackedInv
    <3>3. st'[k].pending <= Cardinality(Holders(k)')
      BY <3>2, HoldersFinite
    <3>4. \A j \in Key : st'[j].pending <= st[j].pending
      BY <1>n, <3>1
    <3>5. Unused'
      BY <3>1 DEF Unused, BackedInv
    <3> QED
      BY <2>7, <3>3, <3>4, <3>5
  <2>11. CASE (Success(h) \/ Release(h)) /\ k \in keys
    <3> DEFINE s == st[k]
    <3>1. /\ keys' = keys
          /\ \/ st' = [st EXCEPT ![k] = Touch(Clear(s))]
             \/ st' = [st EXCEPT ![k] = Touch(Unreserve(s))]
      BY <2>2, <2>11 DEF Success, Release
    <3>2. /\ st'[k] = Touch(Clear(s)) \/ st'[k] = Touch(Unreserve(s))
          /\ \A j \in Key \ {k} : st'[j] = st[j]
      BY <1>t, <3>1 DEF TypeOK
    <3>3. s \in State /\ s.pending <= st[k].pending
      BY <1>f, <1>n
    <3>4. st'[k].pending = Unreserve(s).pending
      BY <3>2, <3>3, ClearFacts, SmallUpdates, TouchFacts
    <3>5. st'[k].pending <= Cardinality(Holders(k)')
      BY <2>8, <3>3, <3>4
    <3>6. \A j \in Key \ {k} : st'[j].pending <= st[j].pending
      BY <1>n, <3>2
    <3>7. Unused'
      BY <2>11, <3>1, <3>2 DEF Unused, BackedInv
    <3> QED
      BY <2>7, <3>5, <3>6, <3>7
  <2> QED
    BY <1>5, <2>9, <2>10, <2>11
<1>6. ASSUME NEW h \in Handlers, Leak(h)
      PROVE  FALSE
  BY <1>6 DEF Leak
<1>7. ASSUME NEW sf, NEW p, NEW ac, SelfState(sf, p, ac)
      PROVE  Goal
  <2>1. /\ att' = att /\ keys' = keys
        /\ \A j \in Key : st'[j] = st[j] \/ (j \in keys /\ st'[j] = refresh(j, st[j]))
    BY <1>7 DEF SelfState
  <2>2. \A j \in Key : st'[j].pending <= st[j].pending
    BY <1>f, <1>n, <2>1, RefreshPending
  <2>3. Unused'
    BY <2>1 DEF Unused, BackedInv
  <2> QED
    BY <1>t, <2>1, <2>2, <2>3, StillBacked
<1>8. ASSUME NEW D, ClearMatching(D)
      PROVE  Goal
  <2>1. /\ att' = att /\ keys' = keys \ D
        /\ \A j \in Key : st'[j] = IF j \in D THEN Zero ELSE st[j]
    BY <1>8 DEF ClearMatching, Without
  <2>2. \A j \in Key : st'[j].pending <= st[j].pending
    BY <1>n, <1>z, <2>1
  <2>3. Unused'
    BY <2>1 DEF Unused, BackedInv
  <2> QED
    BY <1>t, <2>1, <2>2, <2>3, StillBacked
<1>9. ASSUME Tick
      PROVE  Goal
  <2>1. ASSUME NEW h \in Handlers, NEW j, Holds(att[h], j)
        PROVE  Holds(att'[h], j)
    <3> DEFINE a == att[h]
               b == [a EXCEPT !.age = @ + 1]
    <3>1. att'[h] = IF a.pc = "idle" THEN a ELSE b
      BY <1>9 DEF Tick
    <3>2. a \in Attempt
      BY <1>a
    <3>3. /\ b.lo = a.lo /\ b.hi = a.hi
          /\ b.surface = a.surface /\ b.peer = a.peer /\ b.account = a.account
      BY <3>2 DEF Attempt
    <3> HIDE DEF b, a
    <3>4. \A i : KeyAt(b, i) = KeyAt(a, i)
      BY <3>3 DEF KeyAt
    <3>5. Holds(a, j) => Holds(b, j)
      BY <3>3, <3>4 DEF Holds
    <3> QED
      BY <2>1, <3>1, <3>5 DEF a
  <2>2. /\ keys' = keys
        /\ \A j \in Key : st'[j] = IF j \in keys THEN Aged(st[j]) ELSE st[j]
    BY <1>9 DEF Tick
  <2>3. \A j \in Key : st'[j].pending <= st[j].pending
    BY <1>f, <1>n, <2>2, AgedFacts
  <2>4. Unused'
    BY <2>2 DEF Unused, BackedInv
  <2> QED
    BY <1>t, <2>1, <2>3, <2>4, StillBacked
<1>10. CASE UNCHANGED vars
  <2>1. st' = st /\ keys' = keys /\ att' = att
    BY <1>10 DEF vars
  <2> QED
    BY <1>n, <2>1 DEF Unused, BackedInv, Holders
<1> QED
  BY <1>1, <1>2, <1>3, <1>4, <1>5, <1>6, <1>7, <1>8, <1>9, <1>10
     DEF Next, handleAuthLimitClear, ClearPeer, ClearAccount

\* The empty limiter counts nothing.
LEMMA BackedInit == Init => BackedInv
<1> SUFFICES ASSUME Init PROVE BackedInv
  OBVIOUS
<1>1. \A k \in Key : st[k] = Zero /\ st[k].pending = 0
  BY DEF Init, Zero
<1> QED
  BY <1>1, TypeInit, HoldersFinite DEF BackedInv, NoPhantomReservation, Unused

\* Every pending count is covered by attempts under way, for every policy, any number
\* of handlers, and with an operator who clears buckets under running attempts: as
\* long as the handlers resolve their attempts (the deferred Release of localdav and
\* webui), no order of denials, rollbacks, failures, successes, refreshes and
\* evictions leaves a reservation that nobody will return.
THEOREM ReservationsAreHeld == ~HandlersLeak => (Spec => []NoPhantomReservation)
<1> SUFFICES ASSUME ~HandlersLeak PROVE Spec => []NoPhantomReservation
  OBVIOUS
<1>1. BackedInv /\ [Next]_vars => BackedInv'
  BY BackedStep
<1>2. BackedInv => NoPhantomReservation
  BY DEF BackedInv
<1> QED
  BY <1>1, <1>2, BackedInit, PTL DEF Spec

--------------------------------------------------------------------------------
(* The size of the map.                                                    *)

\* The keys some attempt holds.
Held == {k \in Key : \E h \in Handlers : Holds(att[h], k)}

\* How many keys the handlers can hold at once.
HeldBound == 2 * Cardinality(Handlers) + Cardinality(Surfaces) * Cardinality(Accounts)

MapInv == BackedInv /\ IsFiniteSet(keys) /\ MapBound

\* evictOneLocked has something to take whenever there is an unreserved bucket: among
\* finitely many buckets one is the oldest.  (Take the bucket whose set of older ones
\* is minimal under inclusion.)
LEMMA SomeOldest ==
    ASSUME TypeOK, NEW S, S \subseteq Key, IsFiniteSet(S), S # {}
    PROVE  Oldest(S) # {}
<1> DEFINE older(k) == {j \in S : ~(st[j].lastSeen <= st[k].lastSeen)}
           all == {older(k) : k \in S}
<1>1. IsWellFoundedOn(StrictSubsetOrdering(S), FiniteSubsetsOf(S))
  BY FS_StrictSubsetOrderingWellFounded
<1>2. all \subseteq FiniteSubsetsOf(S) /\ all # {}
  <2>1. FiniteSubsetsOf(S) = SUBSET S
    BY FS_FiniteSubsetsOfFinite
  <2>2. \A k : older(k) \in SUBSET S
    OBVIOUS
  <2> HIDE DEF older
  <2> QED
    BY <2>1, <2>2
<1>3. PICK x \in all : \A y \in all : ~(<<y, x>> \in StrictSubsetOrdering(S))
  BY <1>1, <1>2, WFMin
<1>4. PICK k \in S : x = older(k)
  BY <1>3
<1>5. \A j \in S : st[j].lastSeen \in Nat
  BY DEF TypeOK, State
<1>6. ASSUME NEW j \in S, ~(st[j].lastSeen <= st[k].lastSeen)
      PROVE  FALSE
  <2>1. j \in older(k) /\ j \notin older(j)
    BY <1>5, <1>6
  <2>2. older(j) \subseteq older(k)
    BY <1>5, <1>6
  <2>3. older(j) \in all /\ older(j) \in SUBSET S /\ older(k) \in SUBSET S
    OBVIOUS
  <2>4. <<older(j), older(k)>> \in StrictSubsetOrdering(S)
    <3> HIDE DEF older
    <3> QED
      BY <2>1, <2>2, <2>3 DEF StrictSubsetOrdering
  <2> QED
    BY <1>3, <1>4, <2>3, <2>4
<1> QED
  BY <1>6 DEF Oldest

\* The image of a finite set under a function is no larger.
LEMMA ImageBound ==
    ASSUME NEW S, IsFiniteSet(S), NEW f, f \in [S -> {f[x] : x \in S}]
    PROVE  /\ IsFiniteSet({f[x] : x \in S})
           /\ Cardinality({f[x] : x \in S}) \in Nat
           /\ Cardinality({f[x] : x \in S}) <= Cardinality(S)
<1> DEFINE T == {f[x] : x \in S}
<1>1. f \in Surjection(S, T)
  BY DEF Surjection
<1> HIDE DEF T
<1>2. IsFiniteSet(T) /\ Cardinality(T) <= Cardinality(S)
  BY <1>1, FS_Surjection
<1>3. Cardinality(T) \in Nat
  BY <1>2, FS_CardinalityType
<1> QED
  BY <1>2, <1>3 DEF T

\* Two finite sets together are no larger than their sum.
LEMMA UnionBound ==
    ASSUME NEW S, IsFiniteSet(S), NEW T, IsFiniteSet(T)
    PROVE  /\ IsFiniteSet(S \cup T)
           /\ Cardinality(S \cup T) \in Nat
           /\ Cardinality(S \cup T) <= Cardinality(S) + Cardinality(T)
<1>1. /\ IsFiniteSet(S \cup T)
      /\ Cardinality(S \cup T) = Cardinality(S) + Cardinality(T) - Cardinality(S \cap T)
  BY FS_Union
<1>2. IsFiniteSet(S \cap T)
  BY FS_Intersection
<1>3. /\ Cardinality(S) \in Nat /\ Cardinality(T) \in Nat
      /\ Cardinality(S \cap T) \in Nat /\ Cardinality(S \cup T) \in Nat
  BY <1>1, <1>2, FS_CardinalityType
<1> QED
  BY <1>1, <1>3

\* Each handler holds one peer bucket and one pair bucket; the account ceilings are
\* one for each surface and account, however many handlers hold them.
LEMMA HeldIsBounded ==
    ASSUME TypeInv, IsFiniteSet(Surfaces), IsFiniteSet(Accounts)
    PROVE  /\ IsFiniteSet(Held) /\ Cardinality(Held) \in Nat
           /\ Cardinality(Held) <= HeldBound
<1> DEFINE f    == [h \in Handlers |-> KeyAt(att[h], 1)]
           g    == [h \in Handlers |-> KeyAt(att[h], 2)]
           c    == [x \in Surfaces \X Accounts |->
                      [surface |-> x[1], peer |-> NoPeer, account |-> x[2]]]
           F    == {f[h] : h \in Handlers}
           G    == {g[h] : h \in Handlers}
           C    == {c[x] : x \in Surfaces \X Accounts}
<1>1. /\ IsFiniteSet(Surfaces \X Accounts)
      /\ Cardinality(Surfaces \X Accounts) = Cardinality(Surfaces) * Cardinality(Accounts)
  BY FS_Product
<1>2. /\ IsFiniteSet(Handlers) /\ Cardinality(Handlers) \in Nat
      /\ Cardinality(Surfaces \X Accounts) \in Nat
  BY <1>1, NameAssumption, FS_CardinalityType
<1>3. IsFiniteSet(F) /\ Cardinality(F) \in Nat /\ Cardinality(F) <= Cardinality(Handlers)
  <2>1. f \in [Handlers -> F]
    OBVIOUS
  <2> HIDE DEF f
  <2> QED
    BY <1>2, <2>1, ImageBound
<1>4. IsFiniteSet(G) /\ Cardinality(G) \in Nat /\ Cardinality(G) <= Cardinality(Handlers)
  <2>1. g \in [Handlers -> G]
    OBVIOUS
  <2> HIDE DEF g
  <2> QED
    BY <1>2, <2>1, ImageBound
<1>5. /\ IsFiniteSet(C) /\ Cardinality(C) \in Nat
      /\ Cardinality(C) <= Cardinality(Surfaces \X Accounts)
  <2>1. c \in [Surfaces \X Accounts -> C]
    OBVIOUS
  <2> HIDE DEF c
  <2> QED
    BY <1>1, <2>1, ImageBound
<1>6. Held \subseteq (F \cup G) \cup C
  <2> SUFFICES ASSUME NEW k \in Key, NEW h \in Handlers, Holds(att[h], k)
               PROVE  k \in (F \cup G) \cup C
    BY DEF Held
  <2> DEFINE a == att[h]
  <2>1. a \in Attempt /\ AttemptOK(a)
    BY DEF TypeInv, TypeOK, AttemptsOK
  <2>2. PICK i \in a.lo .. a.hi : k = KeyAt(a, i)
    BY DEF Holds
  <2> HIDE DEF a
  <2>3. a.lo \in 1 .. 4 /\ a.hi \in 0 .. 3 /\ a.lo <= a.hi
    BY <2>1, <2>2 DEF Attempt
  <2>4. a.pc # "idle" /\ a.hi <= KeyCount(a)
    BY <2>1, <2>3 DEF AttemptOK
  <2>5. i = 1 \/ i = 2 \/ i = 3
    BY <2>2, <2>3
  <2>6. CASE i = 1
    <3>1. f[h] = k
      BY <2>2, <2>6 DEF a
    <3> QED
      BY <3>1
  <2>7. CASE i = 2
    <3>1. g[h] = k
      BY <2>2, <2>7 DEF a
    <3> QED
      BY <3>1
  <2>8. CASE i = 3
    <3>1. a.account # NoAccount
      BY <2>2, <2>3, <2>4, <2>8 DEF KeyCount
    <3>2. a.surface \in Surfaces /\ a.account \in Accounts
      BY <2>1, <3>1 DEF Attempt
    <3>3. k = [surface |-> a.surface, peer |-> NoPeer, account |-> a.account]
      BY <2>2, <2>8 DEF KeyAt
    <3>4. /\ <<a.surface, a.account>> \in Surfaces \X Accounts
          /\ c[<<a.surface, a.account>>] = k
      BY <3>2, <3>3
    <3> QED
      BY <3>4
  <2> QED
    BY <2>5, <2>6, <2>7, <2>8
<1> HIDE DEF F, G, C
<1>7. /\ IsFiniteSet(F \cup G) /\ Cardinality(F \cup G) \in Nat
      /\ Cardinality(F \cup G) <= Cardinality(F) + Cardinality(G)
  BY <1>3, <1>4, UnionBound
<1>8. /\ IsFiniteSet((F \cup G) \cup C) /\ Cardinality((F \cup G) \cup C) \in Nat
      /\ Cardinality((F \cup G) \cup C) <= Cardinality(F \cup G) + Cardinality(C)
  BY <1>5, <1>7, UnionBound
<1>9. IsFiniteSet(Held) /\ Cardinality(Held) <= Cardinality((F \cup G) \cup C)
  BY <1>6, <1>8, FS_Subset
<1>10. Cardinality(Held) \in Nat
  BY <1>9, FS_CardinalityType
<1>11. Cardinality(Held) <= 2 * Cardinality(Handlers) + Cardinality(Surfaces \X Accounts)
  BY <1>2, <1>3, <1>4, <1>5, <1>7, <1>8, <1>9, <1>10
<1> QED
  BY <1>1, <1>9, <1>10, <1>11 DEF HeldBound

\* One locked operation whose key is held, before it or after it, or has a bucket
\* already: the map grows past MaxKeys only when every bucket in it is held.
LEMMA MapUpdate ==
    ASSUME MapInv, TypeInv', NEW k \in Key, NEW gone \in Evictions(k), NEW s,
           Update(k, gone, s), IsFiniteSet(Surfaces), IsFiniteSet(Accounts),
           \/ k \in keys
           \/ k \in Held
           \/ Held \subseteq Held' /\ k \in Held'
    PROVE  IsFiniteSet(keys') /\ MapBound'
<1>t. TypeOK /\ TypeInv /\ keys \subseteq Key
  BY DEF MapInv, BackedInv, TypeInv, TypeOK
<1>1. /\ keys' = (keys \ gone) \cup {k}
      /\ IsFiniteSet(keys) /\ Cardinality(keys) \in Nat
  BY FS_CardinalityType DEF Update, MapInv
<1>2. /\ Cardinality(keys) <= MaxKeys \/ Cardinality(keys) <= HeldBound
      /\ MapBound' <=> Cardinality(keys') <= MaxKeys \/ Cardinality(keys') <= HeldBound
  BY DEF MapInv, MapBound, HeldBound
<1>3. CASE k \in keys
  <2>1. gone = {}
    BY <1>3 DEF Evictions
  <2>2. keys' = keys
    BY <1>1, <1>3, <2>1
  <2> QED
    BY <1>1, <1>2, <2>2
<1>4. CASE k \notin keys /\ Cardinality(keys) < MaxKeys
  <2>1. gone = {}
    BY <1>4 DEF Evictions
  <2>2. keys' = keys \cup {k}
    BY <1>1, <2>1
  <2>3. IsFiniteSet(keys') /\ Cardinality(keys') = Cardinality(keys) + 1
    BY <1>1, <1>4, <2>2, FS_AddElement
  <2> QED
    BY <1>1, <1>2, <1>4, <2>3, PolicyAssumption
<1>5. CASE k \notin keys /\ ~(Cardinality(keys) < MaxKeys) /\ Victims # {}
  <2>1. PICK v \in Victims : gone = {v}
    BY <1>5 DEF Evictions
  <2>2. v \in keys
    BY DEF Victims, Oldest, Idle, LockedIdle
  <2>3. /\ IsFiniteSet(keys \ {v})
        /\ Cardinality(keys \ {v}) = Cardinality(keys) - 1
    BY <1>1, <2>2, FS_RemoveElement
  <2>4. /\ IsFiniteSet((keys \ {v}) \cup {k})
        /\ Cardinality((keys \ {v}) \cup {k}) = Cardinality(keys \ {v}) + 1
    BY <1>5, <2>3, FS_AddElement
  <2>5. IsFiniteSet(keys') /\ Cardinality(keys') = Cardinality(keys)
    BY <1>1, <2>1, <2>3, <2>4
  <2> QED
    BY <1>2, <2>5
<1>6. CASE k \notin keys /\ ~(Cardinality(keys) < MaxKeys) /\ Victims = {}
  <2>1. gone = {}
    BY <1>6 DEF Evictions
  <2>2. keys' = keys \cup {k}
    BY <1>1, <2>1
  <2>3. Idle = {} /\ LockedIdle = {}
    <3>1. /\ Idle \subseteq keys /\ LockedIdle \subseteq keys
      BY DEF Idle, LockedIdle
    <3>2. IsFiniteSet(Idle) /\ IsFiniteSet(LockedIdle)
      BY <1>1, <3>1, FS_Subset
    <3>3. Idle # {} => Oldest(Idle) # {}
      BY <1>t, <3>1, <3>2, SomeOldest
    <3>4. LockedIdle # {} => Oldest(LockedIdle) # {}
      BY <1>t, <3>1, <3>2, SomeOldest
    <3> QED
      BY <1>6, <3>3, <3>4 DEF Victims
  <2>4. keys \subseteq Held
    <3> SUFFICES ASSUME NEW j \in keys PROVE j \in Held
      OBVIOUS
    <3>1. st[j].pending # 0
      BY <2>3 DEF Idle, LockedIdle
    <3>2. st[j].pending \in Nat /\ st[j].pending <= Cardinality(Holders(j))
      BY <1>t DEF MapInv, BackedInv, NoPhantomReservation, TypeOK, State
    <3>3. Cardinality(Holders(j)) # 0
      BY <3>1, <3>2
    <3>4. Holders(j) # {}
      BY <3>3, FS_EmptySet
    <3> QED
      BY <1>t, <3>4 DEF Holders, Held
  <2>5. keys' \subseteq Held \/ keys' \subseteq Held'
    BY <1>6, <2>2, <2>4
  <2>6. /\ IsFiniteSet(Held) /\ Cardinality(Held) \in Nat
        /\ Cardinality(Held) <= HeldBound
    BY <1>t, HeldIsBounded
  <2>7. /\ IsFiniteSet(Held') /\ Cardinality(Held') \in Nat
        /\ Cardinality(Held') <= HeldBound
    <3>1. (TypeInv => /\ IsFiniteSet(Held) /\ Cardinality(Held) \in Nat
                      /\ Cardinality(Held) <= HeldBound)'
      BY HeldIsBounded, PTL
    <3> QED
      BY <3>1 DEF HeldBound
  <2>8. /\ IsFiniteSet(keys')
        /\ Cardinality(keys') <= Cardinality(Held) \/ Cardinality(keys') <= Cardinality(Held')
    BY <2>5, <2>6, <2>7, FS_Subset
  <2>9. Cardinality(keys') \in Nat /\ HeldBound \in Int
    <3>1. /\ Cardinality(Handlers) \in Nat /\ Cardinality(Surfaces) \in Nat
          /\ Cardinality(Accounts) \in Nat
      BY NameAssumption, FS_CardinalityType
    <3> QED
      BY <2>8, <3>1, FS_CardinalityType DEF HeldBound
  <2> QED
    BY <1>2, <2>6, <2>7, <2>8, <2>9
<1> QED
  BY <1>3, <1>4, <1>5, <1>6

\* Without leaking handlers, every action keeps the map within its bound.
LEMMA MapStep ==
    ASSUME MapInv, [Next]_vars, ~HandlersLeak, IsFiniteSet(Surfaces), IsFiniteSet(Accounts)
    PROVE  MapInv'
<1>t. TypeInv /\ TypeOK /\ BackedInv /\ TypeInv' /\ BackedInv'
  BY BackedStep DEF MapInv, BackedInv, TypeInv
<1> SUFFICES IsFiniteSet(keys') /\ MapBound'
  BY <1>t DEF MapInv
<1>a. \A h \in Handlers : att[h] \in Attempt /\ AttemptOK(att[h])
  BY <1>t DEF TypeInv, TypeOK, AttemptsOK
<1>f. DOMAIN att = Handlers /\ \A k \in Key : st[k] \in State
  BY <1>t DEF TypeOK
<1>q. ASSUME keys' = keys
      PROVE  IsFiniteSet(keys') /\ MapBound'
  BY <1>q DEF MapInv, MapBound
<1>1. ASSUME NEW h \in Handlers, CheckGranted(h)
      PROVE  IsFiniteSet(keys') /\ MapBound'
  <2> DEFINE a == att[h]
             b == att'[h]
  <2>1. PICK k \in Key : k = KeyAt(a, a.hi + 1)
    BY <1>a, KeyAtType DEF Attempt
  <2>2. PICK gone \in Evictions(k) : \E s : Update(k, gone, s)
    BY <1>1, <2>1 DEF CheckGranted
  <2>3. a \in Attempt /\ AttemptOK(a) /\ a.pc = "check"
    BY <1>1, <1>a DEF CheckGranted
  <2>4. \A g \in Handlers \ {h} : att'[g] = att[g]
    BY <1>1, <1>f DEF CheckGranted
  <2>5. /\ b.lo = a.lo /\ b.hi = a.hi + 1
        /\ b.surface = a.surface /\ b.peer = a.peer /\ b.account = a.account
    BY <1>1, <1>f, <2>3 DEF CheckGranted, Attempt
  <2> HIDE DEF a, b
  <2>6. a.lo = 1 /\ a.hi \in 0 .. 3
    BY <2>3 DEF AttemptOK, Attempt
  <2>7. \A i : KeyAt(b, i) = KeyAt(a, i)
    BY <2>5 DEF KeyAt
  <2>8. Holds(b, k) /\ \A j : Holds(a, j) => Holds(b, j)
    BY <2>1, <2>5, <2>6, <2>7 DEF Holds
  <2>9. Held \subseteq Held' /\ k \in Held'
    BY <2>4, <2>8 DEF Held, a, b
  <2> QED
    BY <1>t, <2>2, <2>9, MapUpdate
<1>2. ASSUME NEW h \in Handlers, CheckDenied(h)
      PROVE  IsFiniteSet(keys') /\ MapBound'
  <2>1. PICK k \in Key : k = KeyAt(att[h], att[h].hi + 1)
    BY <1>a, KeyAtType DEF Attempt
  <2>2. PICK gone \in Evictions(k) : \E s : Update(k, gone, s)
    BY <1>2, <2>1 DEF CheckDenied
  <2>3. ~Grants(k, refresh(k, st[k]))
    BY <1>2, <2>1 DEF CheckDenied
  <2>4. k \in keys
    <3> SUFFICES ASSUME k \notin keys PROVE FALSE
      OBVIOUS
    <3>1. st[k] = Zero
      BY <1>t DEF BackedInv, Unused
    <3>2. ExpireLock(k, Zero) = Zero /\ ExpireStreak(Zero) = Zero
      BY PolicyAssumption DEF ExpireLock, ExpireStreak, Zero, Never
    <3>3. /\ Zero \in State /\ Zero.failures = 0 /\ Zero.pending = 0 /\ Zero.lock = Never
      BY <1>f, SmallUpdates DEF Zero
    <3>4. /\ DropLeaked(k, Zero).failures = 0 /\ DropLeaked(k, Zero).pending = 0
          /\ DropLeaked(k, Zero).lock = Never
      BY <3>3, ThresholdType DEF DropLeaked, State
    <3>5. refresh(k, st[k]) = DropLeaked(k, Zero)
      BY <3>1, <3>2 DEF refresh
    <3> QED
      BY <2>3, <3>4, <3>5, ThresholdType DEF Grants, IsLocked, Never
  <2> QED
    BY <1>t, <2>2, <2>4, MapUpdate
<1>3. ASSUME NEW h \in Handlers, Fail(h)
      PROVE  IsFiniteSet(keys') /\ MapBound'
  <2>1. PICK k \in Key : k = KeyAt(att[h], att[h].lo)
    BY <1>a, KeyAtType DEF Attempt
  <2>2. PICK gone \in Evictions(k) : \E s : Update(k, gone, s)
    BY <1>3, <2>1 DEF Fail
  <2>3. Holds(att[h], k)
    BY <1>3, <1>a, <2>1, AdvanceHolds DEF Fail
  <2>4. k \in Held
    BY <2>3 DEF Held
  <2> QED
    BY <1>t, <2>2, <2>4, MapUpdate
<1>4. ASSUME NEW D, ClearMatching(D)
      PROVE  IsFiniteSet(keys') /\ MapBound'
  <2>1. keys' \subseteq keys
    BY <1>4 DEF ClearMatching
  <2>2. IsFiniteSet(keys)
    BY DEF MapInv
  <2>3. IsFiniteSet(keys') /\ Cardinality(keys') <= Cardinality(keys)
    BY <2>1, <2>2, FS_Subset
  <2>4. Cardinality(keys) \in Nat /\ Cardinality(keys') \in Nat
    BY <2>2, <2>3, FS_CardinalityType
  <2>5. HeldBound \in Int
    BY NameAssumption, FS_CardinalityType DEF HeldBound
  <2>6. /\ Cardinality(keys) <= MaxKeys \/ Cardinality(keys) <= HeldBound
        /\ MapBound' <=> Cardinality(keys') <= MaxKeys \/ Cardinality(keys') <= HeldBound
    BY DEF MapInv, MapBound, HeldBound
  <2> QED
    BY <2>3, <2>4, <2>5, <2>6, PolicyAssumption
<1>5. ASSUME NEW h \in Handlers, NEW sf, NEW p, NEW ac, NEW verdict,
             Begin(h, sf, p, ac) \/ Verify(h, verdict) \/ Success(h) \/ Release(h) \/ Leak(h)
      PROVE  keys' = keys
  BY <1>5 DEF Begin, Verify, Success, Release, Leak
<1>6. ASSUME NEW sf, NEW p, NEW ac, SelfState(sf, p, ac) \/ Tick \/ UNCHANGED vars
      PROVE  keys' = keys
  BY <1>6 DEF SelfState, Tick, vars
<1> QED
  BY <1>1, <1>2, <1>3, <1>4, <1>5, <1>6, <1>q
     DEF Next, handleAuthLimitClear, ClearPeer, ClearAccount

\* I-R3 of SECURITY.md for every policy and any number of handlers, with the operator
\* clearing buckets or not: the map is no larger than MaxKeys or than what the
\* handlers can hold at once.  (The bound counts surfaces and accounts, so there must
\* be finitely many of each; peers may be any number.)
THEOREM MapIsBounded ==
    IsFiniteSet(Surfaces) /\ IsFiniteSet(Accounts) /\ ~HandlersLeak => (Spec => []MapBound)
<1> SUFFICES ASSUME IsFiniteSet(Surfaces), IsFiniteSet(Accounts), ~HandlersLeak
             PROVE  Spec => []MapBound
  OBVIOUS
<1>1. Init => MapInv
  <2> SUFFICES ASSUME Init PROVE MapInv
    OBVIOUS
  <2>1. keys = {}
    BY DEF Init
  <2>2. IsFiniteSet(keys) /\ Cardinality(keys) = 0
    BY <2>1, FS_EmptySet
  <2> QED
    BY <2>2, BackedInit, PolicyAssumption DEF MapInv, MapBound
<1>2. MapInv /\ [Next]_vars => MapInv'
  BY MapStep
<1>3. MapInv => MapBound
  BY DEF MapInv
<1> QED
  BY <1>1, <1>2, <1>3, PTL DEF Spec
================================================================================
