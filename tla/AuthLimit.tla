------------------------------- MODULE AuthLimit -------------------------------
(***************************************************************************)
(* The in-memory rate limiter of internal/authlimit: a map of buckets, one *)
(* per {surface, peer, account} key, guarded by one mutex.  A request      *)
(* handler calls Attempt, which takes the mutex once per consulted key, so *)
(* the steps of two handlers interleave between keys; it then verifies a   *)
(* credential outside the mutex and resolves the attempt with Fail,        *)
(* Success or Release, again one key at a time.                            *)
(*                                                                         *)
(* Times are kept as ages and remaining times instead of instants, capped  *)
(* at Window, so that the clock runs for ever in a finite state space:     *)
(*   lock         remaining lock, 0 when it ran out but was not yet        *)
(*                refreshed away, Never for the zero time                  *)
(*   lastFailure  age of the last failure, Never for the zero time         *)
(*   lastSeen     age of the last touch                                    *)
(* Two buckets both older than Window compare as equally old; the choice   *)
(* between them is then nondeterministic, as it is in the code for equal   *)
(* instants (map iteration order).                                         *)
(***************************************************************************)
EXTENDS Integers, FiniteSets

CONSTANTS
    Surfaces, Peers, Accounts,  \* what the keys are made of
    NoPeer, NoAccount,          \* the empty strings of Key.Peer, Key.Account
    FailuresBeforeLock, AccountFailuresBeforeLock,
    Window, LockStart, LockMax, MaxKeys,
    Handlers,                   \* request handlers that may run at once
    OperatorClears,             \* may an operator use ClearPeer/ClearAccount?
    HandlersLeak                \* may a handler end without resolving?

\* Policy.normalize: no field is zero or negative, LockMax >= LockStart.
ASSUME PolicyAssumption ==
    /\ FailuresBeforeLock \in Nat \ {0}
    /\ AccountFailuresBeforeLock \in Nat \ {0}
    /\ Window \in Nat \ {0}
    /\ LockStart \in Nat \ {0}
    /\ LockMax \in Nat /\ LockMax >= LockStart
    /\ MaxKeys \in Nat \ {0}

ASSUME NameAssumption ==
    /\ NoPeer \notin Peers
    /\ NoAccount \notin Accounts
    /\ IsFiniteSet(Handlers)
    /\ OperatorClears \in BOOLEAN
    /\ HandlersLeak \in BOOLEAN

VARIABLES
    keys,   \* the keys that have a bucket
    st,     \* the bucket of every key (Zero where there is none)
    att     \* what each handler's Attempt is doing

vars == <<keys, st, att>>

Never == -1

Key == [surface : Surfaces, peer : Peers \cup {NoPeer},
        account : Accounts \cup {NoAccount}]

State == [failures : Nat, pending : Nat, lock : Int, lockLen : Nat,
          lastFailure : Int, lastSeen : Nat]

Zero == [failures |-> 0, pending |-> 0, lock |-> Never, lockLen |-> 0,
         lastFailure |-> Never, lastSeen |-> 0]

thresholdFor(k) ==
    IF k.peer = NoPeer /\ k.account # NoAccount
    THEN AccountFailuresBeforeLock ELSE FailuresBeforeLock

IsLocked(s) == s.lock > 0

--------------------------------------------------------------------------------
(* The handlers.  An attempt reserves its keys in order; it holds a        *)
(* reservation on the keys number lo..hi.                                  *)

Attempt == [pc : {"idle", "check", "verify", "fail", "success", "release"},
            surface : Surfaces, peer : Peers \cup {NoPeer},
            account : Accounts \cup {NoAccount}, lo : 1..4, hi : 0..3, age : Nat]

IdleAttempt(sf) ==
    [pc |-> "idle", surface |-> sf, peer |-> NoPeer, account |-> NoAccount,
     lo |-> 1, hi |-> 0, age |-> 0]

\* The keys Attempt consults: the peer bucket, this peer against this account,
\* and the ceiling of the account; the last two only for a named account.
KeyAt(a, i) ==
    [surface |-> a.surface,
     peer    |-> IF i = 3 THEN NoPeer ELSE a.peer,
     account |-> IF i = 1 THEN NoAccount ELSE a.account]

KeyCount(a) == IF a.account = NoAccount THEN 1 ELSE 3

Holds(a, k) == \E i \in a.lo .. a.hi : k = KeyAt(a, i)

Holders(k) == {h \in Handlers : Holds(att[h], k)}

\* The attempt with its resolution advanced: over when nothing is held any more.
Resolved(a) == IF a.lo > a.hi THEN IdleAttempt(a.surface) ELSE a

--------------------------------------------------------------------------------
(* The operations under the mutex, as functions of a bucket.               *)

\* Mutant of ExpireLock: the lock is lifted one unit of time early.
ExpireLockEarly(k, s) ==
    IF s.lock \in {0, 1}
    THEN [s EXCEPT !.lock = Never,
                   !.failures = IF @ >= thresholdFor(k) THEN thresholdFor(k) - 1 ELSE @]
    ELSE s

\* refreshLocked: lock expiry leaves exactly one attempt, a stale streak is
\* forgotten, a reservation on a bucket untouched for a Window is dropped.
ExpireLock(k, s) ==
    IF s.lock = 0
    THEN [s EXCEPT !.lock = Never,
                   !.failures = IF @ >= thresholdFor(k) THEN thresholdFor(k) - 1 ELSE @]
    ELSE s

ExpireStreak(s) ==
    IF s.lock = Never /\ s.lastFailure >= Window
    THEN [s EXCEPT !.failures = 0, !.lockLen = 0, !.lastFailure = Never]
    ELSE s

DropLeaked(k, s) ==
    LET kept == IF s.lock = Never /\ s.lastSeen >= Window THEN 0 ELSE s.pending
    IN  [s EXCEPT !.pending = IF kept > thresholdFor(k) THEN thresholdFor(k) ELSE kept]

refresh(k, s) == DropLeaked(k, ExpireStreak(ExpireLock(k, s)))

Touch(s) == [s EXCEPT !.lastSeen = 0]

\* Mutant of Grants: reservations are not counted.
GrantsUnreserved(k, s) == ~IsLocked(s) /\ s.failures < thresholdFor(k)

\* The decision of Check on a refreshed bucket.
Grants(k, s) == ~IsLocked(s) /\ s.failures + s.pending < thresholdFor(k)

Reserve(s) == [s EXCEPT !.pending = @ + 1]

\* Mutant of Unreserve: no floor at zero.
UnreserveBelowZero(s) == [s EXCEPT !.pending = @ - 1]

Unreserve(s) == [s EXCEPT !.pending = IF @ > 0 THEN @ - 1 ELSE @]

NextLockLen(len) ==
    IF len = 0 THEN LockStart ELSE IF 2 * len > LockMax THEN LockMax ELSE 2 * len

\* failReport on a refreshed bucket.
CountFailure(k, s) ==
    LET failed == [Unreserve(s) EXCEPT !.failures = @ + 1, !.lastFailure = 0]
        len    == NextLockLen(s.lockLen)
    IN  IF failed.failures >= thresholdFor(k)
        THEN [failed EXCEPT !.lockLen = len, !.lock = len]
        ELSE failed

\* Mutant of Clear: the reservation is not returned.
ClearKeepsReservation(s) ==
    [s EXCEPT !.failures = 0, !.lockLen = 0, !.lock = Never, !.lastFailure = Never]

\* Success: not refreshed first, and whatever lock there is goes.
Clear(s) == [Unreserve(s) EXCEPT !.failures = 0, !.lockLen = 0, !.lock = Never,
                                 !.lastFailure = Never]

\* The buckets evictOneLocked may pick: the oldest one that is neither locked
\* nor reserved, else the oldest locked one that is not reserved, else none.
Oldest(S) == {k \in S : \A j \in S : st[j].lastSeen <= st[k].lastSeen}

Idle == {k \in keys : st[k].pending = 0 /\ ~IsLocked(st[k])}

LockedIdle == {k \in keys : st[k].pending = 0 /\ IsLocked(st[k])}

\* Mutant of Victims: a locked bucket is never taken.
VictimsNeverLocked == Oldest(Idle)

Victims == IF Idle # {} THEN Oldest(Idle) ELSE Oldest(LockedIdle)

\* What getOrCreateLocked removes to make room for k: a set of at most one key.
Evictions(k) ==
    IF k \in keys \/ Cardinality(keys) < MaxKeys \/ Victims = {}
    THEN {{}} ELSE {{v} : v \in Victims}

Without(D) == [j \in Key |-> IF j \in D THEN Zero ELSE st[j]]

\* One locked operation on the bucket of k: evict, create, then apply Op.
Update(k, gone, s) ==
    /\ keys' = (keys \ gone) \cup {k}
    /\ st' = [Without(gone) EXCEPT ![k] = s]

--------------------------------------------------------------------------------
Init ==
    /\ keys = {}
    /\ st = [k \in Key |-> Zero]
    /\ att \in [Handlers -> {IdleAttempt(sf) : sf \in Surfaces}]

\* A request arrives: Attempt(surface, remoteAddr, account) is entered.
Begin(h, sf, p, ac) ==
    /\ att[h].pc = "idle"
    /\ att' = [att EXCEPT ![h] = [pc |-> "check", surface |-> sf, peer |-> p,
                                  account |-> ac, lo |-> 1, hi |-> 0, age |-> 0]]
    /\ UNCHANGED <<keys, st>>

\* Check grants the next key of the attempt; after the last one the handler
\* goes on to verify the credential.
CheckGranted(h) ==
    LET a == att[h]
        k == KeyAt(a, a.hi + 1)
        s == refresh(k, st[k])
    IN  /\ a.pc = "check"
        /\ Grants(k, s)
        /\ \E gone \in Evictions(k) : Update(k, gone, Touch(Reserve(s)))
        /\ att' = [att EXCEPT ![h].hi = @ + 1,
                              ![h].pc = IF a.hi + 1 = KeyCount(a) THEN "verify" ELSE "check"]

\* Check denies: the bucket is still created, refreshed and touched, and the
\* reservations on the earlier keys are to be released.
CheckDenied(h) ==
    LET a == att[h]
        k == KeyAt(a, a.hi + 1)
        s == refresh(k, st[k])
    IN  /\ a.pc = "check"
        /\ ~Grants(k, s)
        /\ \E gone \in Evictions(k) : Update(k, gone, Touch(s))
        /\ att' = [att EXCEPT ![h] = Resolved([a EXCEPT !.pc = "release"])]

\* The credential is judged: wrong, right, or not judged at all (a keychain
\* error, a panic, an early return: the deferred Release runs).
Verify(h, verdict) ==
    /\ att[h].pc = "verify"
    /\ att' = [att EXCEPT ![h].pc = verdict]
    /\ UNCHANGED <<keys, st>>

\* Attempt.Fail on the next key.
Fail(h) ==
    LET a == att[h]
        k == KeyAt(a, a.lo)
    IN  /\ a.pc = "fail"
        /\ \E gone \in Evictions(k) :
              Update(k, gone, Touch(CountFailure(k, refresh(k, st[k]))))
        /\ att' = [att EXCEPT ![h] = Resolved([a EXCEPT !.lo = @ + 1])]

\* Attempt.Success on the next key; a bucket that is gone stays gone.
Success(h) ==
    LET a == att[h]
        k == KeyAt(a, a.lo)
    IN  /\ a.pc = "success"
        /\ st' = IF k \in keys THEN [st EXCEPT ![k] = Touch(Clear(@))] ELSE st
        /\ att' = [att EXCEPT ![h] = Resolved([a EXCEPT !.lo = @ + 1])]
        /\ UNCHANGED keys

\* release on the next key: for a denied Attempt and for Attempt.Release.
Release(h) ==
    LET a == att[h]
        k == KeyAt(a, a.lo)
    IN  /\ a.pc = "release"
        /\ st' = IF k \in keys THEN [st EXCEPT ![k] = Touch(Unreserve(@))] ELSE st
        /\ att' = [att EXCEPT ![h] = Resolved([a EXCEPT !.lo = @ + 1])]
        /\ UNCHANGED keys

\* A handler that runs neither Fail, Success nor Release (the package allows
\* for it; the handlers of localdav and webui defer Release).
Leak(h) ==
    /\ HandlersLeak
    /\ att[h].pc = "verify"
    /\ att' = [att EXCEPT ![h] = Resolved([att[h] EXCEPT !.lo = 4])]
    /\ UNCHANGED <<keys, st>>

\* SelfState: the banner poll refreshes the caller's own buckets, touches none.
SelfState(sf, p, ac) ==
    LET own == {k \in keys : k.surface = sf /\ k.peer = p /\ k.account \in {NoAccount, ac}}
    IN  /\ st' = [k \in Key |-> IF k \in own THEN refresh(k, st[k]) ELSE st[k]]
        /\ UNCHANGED <<keys, att>>

\* clearMatchingLocked for ClearPeer and ClearAccount.
ClearMatching(D) ==
    /\ OperatorClears
    /\ keys' = keys \ D
    /\ st' = Without(D)
    /\ UNCHANGED att

ClearPeer(p) == ClearMatching({k \in keys : k.peer = p})

ClearAccount(ac) == ClearMatching({k \in keys : k.account = ac})

\* POST /api/auth-limits/clear names exactly one peer or one account.
handleAuthLimitClear ==
    \/ \E p \in Peers : ClearPeer(p)
    \/ \E ac \in Accounts : ClearAccount(ac)

\* Time passes.  No attempt is under way for a whole Window (a verification
\* takes milliseconds, authlimit.go:238-239, Window is minutes).
Older(age) == IF age = Never THEN Never ELSE IF age < Window THEN age + 1 ELSE age

Aged(s) == [s EXCEPT !.lock = IF @ > 0 THEN @ - 1 ELSE @,
                     !.lastFailure = Older(@), !.lastSeen = Older(@)]

Tick ==
    /\ \A h \in Handlers : att[h].pc # "idle" => att[h].age + 1 < Window
    /\ st' = [k \in Key |-> IF k \in keys THEN Aged(st[k]) ELSE st[k]]
    /\ att' = [h \in Handlers |-> IF att[h].pc = "idle" THEN att[h]
                                  ELSE [att[h] EXCEPT !.age = @ + 1]]
    /\ UNCHANGED keys

Next ==
    \/ \E h \in Handlers :
          \/ \E sf \in Surfaces, p \in Peers, ac \in Accounts \cup {NoAccount} :
                Begin(h, sf, p, ac)
          \/ CheckGranted(h)
          \/ CheckDenied(h)
          \/ \E verdict \in {"fail", "success", "release"} : Verify(h, verdict)
          \/ Fail(h)
          \/ Success(h)
          \/ Release(h)
          \/ Leak(h)
    \/ \E sf \in Surfaces, p \in Peers, ac \in Accounts \cup {NoAccount} : SelfState(sf, p, ac)
    \/ handleAuthLimitClear
    \/ Tick

Spec == Init /\ [][Next]_vars

\* Time passes, requests keep coming, and a handler that runs goes on running:
\* each is a goroutine that waits for nothing but the mutex.
Step(h) ==
    \/ \E sf \in Surfaces, p \in Peers, ac \in Accounts \cup {NoAccount} : Begin(h, sf, p, ac)
    \/ CheckGranted(h) \/ CheckDenied(h) \/ Fail(h) \/ Success(h) \/ Release(h)
    \/ \E verdict \in {"fail", "success", "release"} : Verify(h, verdict)

FairSpec == Spec /\ WF_vars(Tick) /\ \A h \in Handlers : WF_vars(Step(h))

--------------------------------------------------------------------------------
(* Properties.                                                             *)

TypeOK ==
    /\ keys \subseteq Key
    /\ st \in [Key -> State]
    /\ att \in [Handlers -> Attempt]

\* I-R10 of SECURITY.md: however the handlers interleave, the failures counted
\* against a key plus the attempts that are past its Check and not yet resolved
\* never exceed its threshold, so a lock cycle sees at most threshold
\* verifications.  (Without operator clears.)
AdmissionBound ==
    \A k \in Key : st[k].failures + Cardinality(Holders(k)) <= thresholdFor(k)

\* The reservations a bucket counts are covered by attempts really under way:
\* no interleaving of denials, rollbacks, failures and successes leaves a
\* pending count nobody will return.  (Without leaking handlers.)
NoPhantomReservation ==
    \A k \in Key : st[k].pending <= Cardinality(Holders(k))

\* I-R3 of SECURITY.md: the map outgrows MaxKeys only while every bucket in it is
\* reserved, so it never holds more keys than the handlers can reserve at once: a
\* peer bucket and a pair bucket each, and the account ceilings, which they share.
MapBound ==
    LET ceilings == Cardinality(Surfaces) * Cardinality(Accounts)
    IN  \/ Cardinality(keys) <= MaxKeys
        \/ Cardinality(keys) <= 2 * Cardinality(Handlers) + ceilings

\* I-R1, I-R3 and I-R6 of SECURITY.md: a lock in force is lifted by the clock, or
\* lost to an eviction that had no unlocked, unreserved bucket to take instead; no
\* Success, Release or refresh lifts it.
LockEndsByTime ==
    [][\A k \in keys : IsLocked(st[k]) /\ st'[k].lock = Never
          => k \notin keys' /\ Idle = {}]_vars

\* "a leaked reservation self-heals instead of becoming a permanent, cross-peer
\* denial" (authlimit.go:26-28), for keys that keep being asked for.
LeakHeals ==
    \A k \in Key : (st[k].pending > Cardinality(Holders(k)))
                      ~> (st[k].pending <= Cardinality(Holders(k)))

================================================================================
