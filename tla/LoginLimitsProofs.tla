---------------------------- MODULE LoginLimitsProofs ----------------------------
(***************************************************************************)
(* What holds of LoginLimits for any number of logins and addresses and    *)
(* any limits.                                                             *)
(***************************************************************************)
EXTENDS LoginLimits, TLAPS

\* Below the threshold there is no lock, and every failure was judged in the clear.
StreakIsEarned ==
    entry.failures < Threshold => entry.lockedUntil = Never /\ fresh >= entry.failures

IdealIsPast == \A a \in Address : ideal[a].last <= now

\* The failures of the streak that were judged in the clear: the last guesses.
Run == IF entry.failures < Threshold THEN entry.failures ELSE Threshold

\* When the streak began.
RunStart == IF Run = 0 THEN now ELSE guesses[Len(guesses) - Run + 1]

\* For how long a lock surely lasts.
Ration == Duration - Lag

GuessesAreInOrder ==
    \A i, j \in 1 .. Len(guesses) : guesses[i] <= now /\ (i <= j => guesses[i] <= guesses[j])

ReadingsAreRecent ==
    \A r \in Request : req[r].pc \in {"wrong", "right"} => now - req[r].at <= Lag

\* A guess of an earlier streak is as old as a lock, at the start of this one.
StreaksAreApart ==
    /\ Run <= Len(guesses)
    /\ \A i \in 1 .. Len(guesses) - Run : RunStart - guesses[i] >= Ration

\* A lock outlasts every guess before it.
LockCoversGuesses ==
    /\ entry.failures >= Threshold => entry.lockedUntil # Never
    /\ entry.lockedUntil # Never =>
         \A i \in 1 .. Len(guesses) : entry.lockedUntil >= guesses[i] + Ration

\* The sweeper judges the entry by its last failure, which no guess is long after.
EntryKeepsPace ==
    entry.failures # 0 => \A i \in 1 .. Len(guesses) : entry.lastFailure + Lag >= guesses[i]

RationInv ==
    /\ GuessesAreInOrder /\ ReadingsAreRecent /\ StreaksAreApart
    /\ LockCoversGuesses /\ EntryKeepsPace /\ GuessesAreRationed

LimitsInv == TypeOK /\ StreakIsEarned /\ RationInv /\ IdealIsPast /\ SweepIsInvisible

-----------------------------------------------------------------------------
(* Types.                                                                  *)

LEMMA NoEntryType ==
  NoEntry \in Entry /\ NoEntry.failures = 0 /\ NoEntry.lockedUntil = Never
  /\ NoEntry.lastFailure = Never
  BY DEF NoEntry, Entry, Never

LEMMA TakenType ==
  ASSUME NEW v \in Visitor, now \in Time, v.last <= now
  PROVE  Taken(v) \in Visitor /\ Taken(v).last = now
<1>1. Level(v, now) \in 0 .. Events
  BY LimitsAssumption DEF LimitsAssumption, Level, Visitor, Time
<1> QED
  BY <1>1, LimitsAssumption DEF LimitsAssumption, Taken, Visitor

\* What a failure leaves of the entry.
LEMMA FailedType ==
  ASSUME entry \in Entry, NEW t \in {Never} \cup Time
  PROVE  /\ Failed(entry, t) \in Entry
         /\ Failed(entry, t).failures \in {1, entry.failures + 1}
         /\ Failed(entry, t).lastFailure = t
         /\ Failed(entry, t).lockedUntil \in {Never, entry.lockedUntil, t + Duration}
<1>1. Streak(entry, t) \in {entry, NoEntry} /\ Duration \in Nat /\ t \in Nat
  BY LimitsAssumption DEF LimitsAssumption, Streak, Never, Time
<1>2. Streak(entry, t) \in Entry
  BY <1>1, NoEntryType
<1> QED
  BY <1>1, <1>2, NoEntryType DEF Failed, Entry, Never

LEMMA TypeOKInit == Init => TypeOK
<1> SUFFICES ASSUME Init PROVE TypeOK
  OBVIOUS
<1>1. 1 \in Time /\ Full \in Visitor /\ Idle \in Login /\ Idle.at = Never
  BY LimitsAssumption DEF LimitsAssumption, Time, Full, Visitor, Idle, Login
<1>2. bucket = [a \in {} |-> Full] /\ DOMAIN bucket = {}
  BY DEF Init
<1>3. /\ entry \in Entry /\ entry.lastFailure <= now /\ entry.lockedUntil <= now + Duration
      /\ (entry.failures = 0) = (entry = NoEntry)
  BY NoEntryType, LimitsAssumption DEF LimitsAssumption, Init, Never
<1>4. ideal \in [Address -> Visitor] /\ req \in [Request -> Login] /\ guesses \in Seq(Time)
  BY <1>1 DEF Init
<1>a. Idle.at <= 1
  BY <1>1 DEF Never
<1>5. \A r \in Request : req[r].at <= now
  BY <1>a DEF Init
<1> QED
  BY <1>1, <1>2, <1>3, <1>4, <1>5 DEF Init, TypeOK

\* Only the request of the login changes.
LEMMA RequestType ==
  ASSUME TypeOK, NEW r \in Request, NEW to \in Login, to.at <= now,
         req' = [req EXCEPT ![r] = to], now' = now
  PROVE  req' \in [Request -> Login] /\ \A x \in Request : req'[x].at <= now'
  BY DEF TypeOK

LEMMA IdleType == Idle \in Login /\ Idle.at = Never
  BY DEF Idle, Login

LEMMA ArriveKeepsType == ASSUME TypeOK, NEW r \in Request, Arrive(r) PROVE TypeOK'
<1>1. PICK a \in Address :
        /\ bucket' = [x \in DOMAIN bucket \cup {a} |-> IF x = a THEN Taken(Bucket(a)) ELSE bucket[x]]
        /\ ideal' = [ideal EXCEPT ![a] = Taken(@)]
        /\ \/ req' = [req EXCEPT ![r].pc = "bcrypt"]
           \/ UNCHANGED req
  BY DEF Arrive
<1>2. UNCHANGED <<now, entry, sweeper, guesses, fresh>>
  BY DEF Arrive
<1>3. Bucket(a) \in Visitor /\ Bucket(a).last <= now
  BY LimitsAssumption DEF LimitsAssumption, TypeOK, Bucket, Visitor, Time
<1>4. Taken(Bucket(a)) \in Visitor /\ Taken(Bucket(a)).last = now
  BY <1>3, TakenType DEF TypeOK
<1>5. \A x \in DOMAIN bucket' : bucket'[x] \in Visitor /\ bucket'[x].last <= now'
  BY <1>1, <1>2, <1>4 DEF TypeOK, Time
<1>6. DOMAIN bucket' \subseteq Address
  BY <1>1 DEF TypeOK
<1>7. req' \in [Request -> Login] /\ \A x \in Request : req'[x].at <= now'
  <2>1. CASE req' = [req EXCEPT ![r].pc = "bcrypt"]
    <3> DEFINE to == [req[r] EXCEPT !.pc = "bcrypt"]
    <3>1. to \in Login /\ to.at <= now
      BY DEF TypeOK, Login
    <3>2. req' = [req EXCEPT ![r] = to]
      BY <2>1
    <3> QED
      BY <1>2, <3>1, <3>2, RequestType
  <2>2. CASE UNCHANGED req
    BY <1>2, <2>2 DEF TypeOK
  <2> QED
    BY <1>1, <2>1, <2>2
<1>8. ideal' \in [Address -> Visitor]
  <2>1. a \in Address /\ ideal[a] \in Visitor
    BY DEF TypeOK
  <2>2. Taken(ideal[a]) \in Visitor
    <3>1. Level(ideal[a], now) > 0 => Level(ideal[a], now) - 1 \in 0 .. Events
      BY <2>1, LimitsAssumption DEF LimitsAssumption, TypeOK, Level, Visitor, Time
    <3> QED
      BY <3>1, LimitsAssumption DEF LimitsAssumption, TypeOK, Taken, Visitor
  <2> QED
    BY <1>1, <2>2 DEF TypeOK
<1> QED
  BY <1>2, <1>5, <1>6, <1>7, <1>8 DEF TypeOK

LEMMA FailKeepsType == ASSUME TypeOK, NEW r \in Request, Fail(r) PROVE TypeOK'
<1>1. /\ entry' = Failed(entry, req[r].at)
      /\ guesses' \in {guesses, Append(guesses, now)}
      /\ fresh' \in {0, fresh, fresh + 1}
      /\ req' = [req EXCEPT ![r] = Idle]
      /\ UNCHANGED <<now, bucket, sweeper, ideal>>
  BY DEF Fail
<1>2. req[r].at \in {Never} \cup Time /\ req[r].at <= now /\ now \in Nat /\ req[r].at \in Nat
      /\ Duration \in Nat
  BY LimitsAssumption DEF LimitsAssumption, TypeOK, Login, Time, Never
<1>3. /\ entry' \in Entry /\ entry'.failures # 0
      /\ entry'.lastFailure <= now' /\ entry'.lockedUntil <= now' + Duration
  <2>1. entry \in Entry /\ entry.failures \in Nat /\ entry.lockedUntil <= now + Duration
        /\ entry.lockedUntil \in Nat
    BY DEF TypeOK, Entry
  <2>2. /\ entry' \in Entry /\ entry'.failures \in {1, entry.failures + 1}
        /\ entry'.lastFailure = req[r].at
        /\ entry'.lockedUntil \in {Never, entry.lockedUntil, req[r].at + Duration}
    BY <1>1, <1>2, <2>1, FailedType
  <2> QED
    BY <1>1, <1>2, <2>1, <2>2 DEF Never
<1>4. (entry'.failures = 0) = (entry' = NoEntry)
  BY <1>3, NoEntryType
<1>a. Idle \in Login /\ Idle.at <= now
  BY <1>2, IdleType DEF Never
<1>5. req' \in [Request -> Login] /\ \A x \in Request : req'[x].at <= now'
  BY <1>1, <1>a, RequestType
<1>6. guesses' \in Seq(Time) /\ fresh' \in Nat
  <2>1. guesses \in Seq(Time) /\ now \in Time /\ fresh \in Nat
    BY DEF TypeOK
  <2>2. Append(guesses, now) \in Seq(Time)
    BY <2>1
  <2> QED
    BY <1>1, <2>1, <2>2
<1> QED
  BY <1>1, <1>3, <1>4, <1>5, <1>6 DEF TypeOK

LEMMA LoginKeepsType ==
  ASSUME TypeOK, NEW r \in Request, Compare(r) \/ Check(r) \/ Admit(r) \/ Refuse(r)
  PROVE  TypeOK'
<1>0. now \in Time /\ now \in Nat /\ Duration \in Nat
  BY LimitsAssumption DEF LimitsAssumption, TypeOK, Time
<1>a. Idle \in Login /\ Idle.at <= now
  BY <1>0, IdleType DEF Never
<1>1. CASE Compare(r)
  <2>1. PICK pc \in {"wrong", "right"} : req' = [req EXCEPT ![r] = [pc |-> pc, at |-> now]]
    BY <1>1 DEF Compare
  <2>2. [pc |-> pc, at |-> now] \in Login /\ [pc |-> pc, at |-> now].at <= now
    BY <1>0 DEF Login
  <2> QED
    BY <1>1, <2>1, <2>2, RequestType DEF Compare, TypeOK
<1>2. CASE Check(r)
  <2> DEFINE to == IF LockedAt(req[r].at) THEN Idle ELSE [req[r] EXCEPT !.pc = "account"]
  <2>1. to \in Login /\ to.at <= now
    BY <1>0, IdleType DEF TypeOK, Login, Never
  <2>2. req' = [req EXCEPT ![r] = to]
    BY <1>2 DEF Check
  <2> QED
    BY <1>2, <2>1, <2>2, RequestType DEF Check, TypeOK
<1>3. CASE Admit(r)
  <2>1. req' \in [Request -> Login] /\ \A x \in Request : req'[x].at <= now'
    BY <1>3, <1>a, RequestType DEF Admit
  <2>2. /\ entry' \in Entry /\ entry'.lastFailure <= now' /\ entry'.lockedUntil <= now' + Duration
        /\ (entry'.failures = 0) = (entry' = NoEntry)
    BY <1>0, <1>3, NoEntryType DEF Admit, Never
  <2>3. guesses' \in Seq(Time) /\ fresh' \in Nat
    BY <1>3 DEF Admit
  <2> QED
    BY <1>3, <2>1, <2>2, <2>3 DEF Admit, TypeOK
<1>4. CASE Refuse(r)
  <2>1. req' \in [Request -> Login] /\ \A x \in Request : req'[x].at <= now'
    BY <1>4, <1>a, RequestType DEF Refuse
  <2> QED
    BY <1>4, <2>1 DEF Refuse, TypeOK
<1> QED
  BY <1>1, <1>2, <1>3, <1>4

LEMMA SweepKeepsType ==
  ASSUME TypeOK, SweepStart \/ SweepLimiter \/ SweepLockout \/ Tick \/ Restart
  PROVE  TypeOK'
<1>0. now \in Time /\ now \in Nat /\ Duration \in Nat /\ MaxTime \in Nat
  BY LimitsAssumption DEF LimitsAssumption, TypeOK, Time
<1>a. NoEntry.lastFailure <= now /\ NoEntry.lockedUntil <= now + Duration
      /\ (NoEntry.failures = 0) = (NoEntry = NoEntry)
  BY <1>0, NoEntryType DEF Never
<1>1. CASE SweepStart
  BY <1>0, <1>1 DEF SweepStart, TypeOK
<1>2. CASE SweepLimiter
  BY <1>2 DEF SweepLimiter, TypeOK
<1>3. CASE SweepLockout
  <2>1. entry' \in {entry, NoEntry} /\ sweeper' = 0
        /\ UNCHANGED <<now, bucket, req, ideal, guesses, fresh>>
    BY <1>3 DEF SweepLockout
  <2> QED
    BY <1>0, <1>a, <2>1, NoEntryType DEF TypeOK
<1>4. CASE Tick
  <2>1. now' = now + 1 /\ now' \in Time /\ UNCHANGED <<bucket, entry, req, sweeper, ideal, guesses, fresh>>
    BY <1>0, <1>4 DEF Tick, Time
  <2>2. \A r \in Request : req[r].at \in Nat /\ req[r].at <= now
    <3>1. {Never} \cup Time \subseteq Nat
      BY <1>0 DEF Time, Never
    <3> QED
      BY <3>1 DEF TypeOK, Login
  <2>3. entry.lastFailure \in Nat /\ entry.lockedUntil \in Nat
    BY DEF TypeOK, Entry, Time, Never
  <2>4. \A a \in DOMAIN bucket : bucket[a].last \in Nat
    BY DEF TypeOK, Visitor, Time
  <2> QED
    BY <1>0, <2>1, <2>2, <2>3, <2>4 DEF TypeOK
<1>5. CASE Restart
  <2>1. 1 \in Time /\ Full \in Visitor
    BY LimitsAssumption DEF LimitsAssumption, Time, Full, Visitor
  <2>2. ideal' \in [Address -> Visitor] /\ DOMAIN bucket' = {} /\ guesses' \in Seq(Time)
    BY <1>5, <2>1 DEF Restart
  <2>3. req' \in [Request -> Login] /\ \A r \in Request : req'[r].at <= now'
    BY <1>0, <1>5, IdleType DEF Restart, Never
  <2>4. entry' = NoEntry /\ now' = now /\ fresh' = 0 /\ sweeper' = 0
    BY <1>5 DEF Restart
  <2> QED
    BY <1>0, <1>a, <2>2, <2>3, <2>4, NoEntryType DEF TypeOK
<1> QED
  BY <1>1, <1>2, <1>3, <1>4, <1>5

LEMMA TypeOKNext == TypeOK /\ [Next]_vars => TypeOK'
<1> SUFFICES ASSUME TypeOK, [Next]_vars PROVE TypeOK'
  OBVIOUS
<1>1. CASE UNCHANGED vars
  BY <1>1 DEF vars, TypeOK
<1>2. CASE Next
  BY <1>2, ArriveKeepsType, FailKeepsType, LoginKeepsType, SweepKeepsType DEF Next
<1> QED
  BY <1>1, <1>2

-----------------------------------------------------------------------------
(* The lock.                                                               *)

\* What Lockout.Fail does to a streak.
LEMMA FailCases ==
  ASSUME TypeOK, StreakIsEarned, NEW t \in Nat
  PROVE  \/ /\ Elapsed(entry, t) /\ Failed(entry, t).failures = 1 /\ ~LockedAt(t)
            /\ Failed(entry, t).lockedUntil = IF Threshold = 1 THEN t + Duration ELSE Never
         \/ /\ ~Elapsed(entry, t) /\ Failed(entry, t).failures = entry.failures + 1
            /\ \/ /\ entry.failures + 1 = Threshold /\ entry.lockedUntil = Never /\ ~LockedAt(t)
                  /\ Failed(entry, t).lockedUntil = t + Duration
               \/ /\ entry.failures + 1 # Threshold
                  /\ Failed(entry, t).lockedUntil = entry.lockedUntil
<1>0. entry.failures \in Nat /\ entry.lockedUntil \in Nat /\ Threshold \in Nat \ {0}
  BY LimitsAssumption DEF LimitsAssumption, TypeOK, Entry
<1>1. CASE Elapsed(entry, t)
  <2>1. Streak(entry, t) = NoEntry /\ ~LockedAt(t)
    BY <1>0, <1>1 DEF Streak, Elapsed, LockedAt
  <2> QED
    BY <1>0, <1>1, <2>1, NoEntryType DEF Failed, Arms
<1>2. CASE ~Elapsed(entry, t)
  <2>1. Streak(entry, t) = entry
    BY <1>2 DEF Streak
  <2>2. entry.failures + 1 = Threshold => entry.lockedUntil = Never /\ ~LockedAt(t)
    BY <1>0 DEF StreakIsEarned, LockedAt, Never
  <2> QED
    BY <1>0, <1>2, <2>1, <2>2 DEF Failed, Arms
<1> QED
  BY <1>1, <1>2

LEMMA FailKeepsStreak ==
  ASSUME TypeOK, StreakIsEarned, NEW r \in Request, Fail(r)
  PROVE  /\ StreakIsEarned'
         /\ entry'.lockedUntil \notin {entry.lockedUntil, Never} => fresh + 1 >= Threshold
         /\ LockedAt(now) => entry'.lockedUntil = entry.lockedUntil
<1> DEFINE t == req[r].at
<1>0. /\ entry' = Failed(entry, t)
      /\ fresh' = IF entry'.lockedUntil # entry.lockedUntil /\ entry'.lockedUntil # Never THEN 0
                  ELSE IF LockedAt(t) THEN fresh ELSE fresh + 1
  BY DEF Fail
<1>1. t \in Nat /\ t <= now /\ now \in Nat
  <2>1. {Never} \cup Time \subseteq Nat
    BY LimitsAssumption DEF LimitsAssumption, Time, Never
  <2> QED
    BY <2>1 DEF TypeOK, Login
<1>2. /\ entry.failures \in Nat /\ entry.lockedUntil \in Nat /\ fresh \in Nat
      /\ Threshold \in Nat \ {0} /\ Duration \in Nat \ {0}
  BY LimitsAssumption DEF LimitsAssumption, TypeOK, Entry
<1> HIDE DEF t
<1>3. CASE Elapsed(entry, t)
  <2>1. /\ entry'.failures = 1 /\ ~LockedAt(t)
        /\ entry'.lockedUntil = IF Threshold = 1 THEN t + Duration ELSE Never
    BY <1>0, <1>1, <1>3, FailCases
  <2>2. entry.lockedUntil # Never /\ t >= entry.lockedUntil
    BY <1>3 DEF Elapsed
  <2>3. StreakIsEarned'
    BY <1>0, <1>1, <1>2, <2>1 DEF StreakIsEarned, Never
  <2>4. ~LockedAt(now)
    BY <1>1, <1>2, <2>2 DEF LockedAt
  <2> QED
    BY <1>2, <2>1, <2>3, <2>4
<1>4. CASE ~Elapsed(entry, t)
  <2>1. /\ entry'.failures = entry.failures + 1
        /\ \/ /\ entry.failures + 1 = Threshold /\ entry.lockedUntil = Never /\ ~LockedAt(t)
              /\ entry'.lockedUntil = t + Duration
           \/ entry.failures + 1 # Threshold /\ entry'.lockedUntil = entry.lockedUntil
    BY <1>0, <1>1, <1>4, FailCases
  <2>2. StreakIsEarned'
    BY <1>0, <1>1, <1>2, <2>1 DEF StreakIsEarned, LockedAt, Never
  <2>3. entry.failures + 1 = Threshold => fresh + 1 >= Threshold
    BY <1>2 DEF StreakIsEarned
  <2>4. entry.lockedUntil = Never => ~LockedAt(now)
    BY <1>1 DEF LockedAt, Never
  <2> QED
    BY <2>1, <2>2, <2>3, <2>4
<1> QED
  BY <1>3, <1>4

\* Whatever else happens, a lock is kept, or forgiven with everything, or had run out.
LEMMA OthersKeepStreak ==
  ASSUME TypeOK, StreakIsEarned, [Next]_vars, \A r \in Request : ~Fail(r)
  PROVE  /\ StreakIsEarned'
         /\ entry'.lockedUntil \in {entry.lockedUntil, Never}
         /\ LockedAt(now) => \/ entry'.lockedUntil = entry.lockedUntil
                             \/ guesses' = <<>>
<1>0. NoEntry.failures = 0 /\ NoEntry.lockedUntil = Never /\ Threshold \in Nat
  BY NoEntryType, LimitsAssumption DEF LimitsAssumption
<1>1. \/ UNCHANGED <<entry, fresh>>
      \/ entry' = NoEntry /\ fresh' = 0 /\ guesses' = <<>>
      \/ SweepLockout
  <2>1. ASSUME NEW r \in Request, Arrive(r) \/ Compare(r) \/ Check(r) \/ Refuse(r)
        PROVE  UNCHANGED <<entry, fresh>>
    BY <2>1 DEF Arrive, Compare, Check, Refuse
  <2>2. ASSUME NEW r \in Request, Admit(r)
        PROVE  entry' = NoEntry /\ fresh' = 0 /\ guesses' = <<>>
    BY <2>2 DEF Admit
  <2>3. CASE SweepStart \/ SweepLimiter \/ Tick \/ UNCHANGED vars
    BY <2>3 DEF SweepStart, SweepLimiter, Tick, vars
  <2>4. CASE Restart
    BY <2>4 DEF Restart
  <2> QED
    BY <2>1, <2>2, <2>3, <2>4 DEF Next
<1>2. CASE UNCHANGED <<entry, fresh>>
  BY <1>2 DEF StreakIsEarned
<1>3. CASE entry' = NoEntry /\ fresh' = 0 /\ guesses' = <<>>
  BY <1>0, <1>3 DEF StreakIsEarned
<1>4. CASE SweepLockout
  <2>1. entry' \in {entry, NoEntry} /\ fresh' = fresh /\ (LockedAt(sweeper) => entry' = entry)
    BY <1>4 DEF SweepLockout, IdleEntry
  <2>2. LockedAt(now) => LockedAt(sweeper)
    BY LimitsAssumption DEF LimitsAssumption, LockedAt, TypeOK, Entry, Time
  <2>3. fresh \in Nat
    BY DEF TypeOK
  <2> QED
    BY <1>0, <2>1, <2>2, <2>3 DEF StreakIsEarned
<1> QED
  BY <1>1, <1>2, <1>3, <1>4

-----------------------------------------------------------------------------
(* The buckets.                                                            *)

\* A bucket that is left alone gains a token with each tick, up to its size.
LEMMA LevelGrows ==
  ASSUME NEW v \in Visitor, NEW t \in Nat, v.last <= t
  PROVE  /\ Level(v, t) \in Nat
         /\ Level(v, t + 1) = IF Level(v, t) + 1 > Events THEN Events ELSE Level(v, t) + 1
  BY LimitsAssumption DEF LimitsAssumption, Level, Visitor, Time

LEMMA BucketIsPast == ASSUME TypeOK, NEW a \in Address
                      PROVE  Bucket(a) \in Visitor /\ Bucket(a).last <= now
  BY LimitsAssumption DEF LimitsAssumption, TypeOK, Bucket, Visitor, Time

\* What is in the bucket after a request depends on its level alone.
LEMMA ArriveIsInvisible ==
  ASSUME TypeOK, IdealIsPast, SweepIsInvisible, NEW r \in Request, Arrive(r)
  PROVE  IdealIsPast' /\ SweepIsInvisible'
<1>1. PICK a \in Address :
        /\ bucket' = [x \in DOMAIN bucket \cup {a} |-> IF x = a THEN Taken(Bucket(a)) ELSE bucket[x]]
        /\ ideal' = [ideal EXCEPT ![a] = Taken(@)]
  BY DEF Arrive
<1>2. now' = now
  BY DEF Arrive
<1>3. Level(Bucket(a), now) = Level(ideal[a], now)
  BY DEF SweepIsInvisible
<1>4. Taken(Bucket(a)) = Taken(ideal[a])
  BY <1>3 DEF Taken
<1>5. ideal'[a] = Taken(ideal[a]) /\ \A x \in Address \ {a} : ideal'[x] = ideal[x]
  BY <1>1 DEF TypeOK
<1>6. Taken(ideal[a]).last = now /\ now <= now
  BY DEF Taken, TypeOK, Time
<1>7. IdealIsPast'
  BY <1>2, <1>5, <1>6 DEF IdealIsPast
<1>8. ASSUME NEW x \in Address PROVE (Level(Bucket(x), now) = Level(ideal[x], now))'
  <2>1. CASE x = a
    <3>1. Bucket(x)' = Taken(Bucket(a))
      BY <1>1, <2>1 DEF Bucket
    <3> QED
      BY <1>2, <1>4, <1>5, <2>1, <3>1 DEF Level
  <2>2. CASE x # a
    <3>1. Bucket(x)' = Bucket(x)
      BY <1>1, <1>2, <2>2 DEF Bucket
    <3> QED
      BY <1>2, <1>5, <2>2, <3>1 DEF SweepIsInvisible, Level
  <2> QED
    BY <2>1, <2>2
<1> QED
  BY <1>7, <1>8 DEF SweepIsInvisible

\* What the sweeper drops was full again.
LEMMA SweepDropsFull ==
  ASSUME TypeOK, SweepIsInvisible, SweepLimiter
  PROVE  SweepIsInvisible'
<1>0. now \in Nat /\ sweeper \in Nat /\ sweeper <= now /\ Events \in Nat \ {0}
  BY LimitsAssumption DEF LimitsAssumption, TypeOK, Time
<1>1. /\ DOMAIN bucket' = {b \in DOMAIN bucket : ~IdleVisitor(bucket[b])}
      /\ \A a \in DOMAIN bucket' : bucket'[a] = bucket[a]
      /\ UNCHANGED <<now, ideal>>
  BY DEF SweepLimiter
<1>2. ASSUME NEW a \in Address PROVE (Level(Bucket(a), now) = Level(ideal[a], now))'
  <2>1. CASE a \notin DOMAIN bucket \/ a \in DOMAIN bucket'
    <3>1. Bucket(a)' = Bucket(a)
      BY <1>1, <2>1 DEF Bucket
    <3> QED
      BY <1>1, <3>1 DEF SweepIsInvisible, Level
  <2>2. CASE a \in DOMAIN bucket /\ a \notin DOMAIN bucket'
    <3>1. IdleVisitor(bucket[a]) /\ Bucket(a) = bucket[a] /\ bucket[a] \in Visitor
      BY <1>1, <2>2 DEF Bucket, TypeOK
    <3>2. Level(bucket[a], now) = Events
      BY <1>0, <3>1, LimitsAssumption
      DEF LimitsAssumption, IdleVisitor, Level, Visitor, Time
    <3>3. Bucket(a)' = [tokens |-> Events, last |-> now]
      BY <1>1, <2>2 DEF Bucket
    <3>4. Level([tokens |-> Events, last |-> now], now) = Events
      BY <1>0 DEF Level
    <3> QED
      BY <1>1, <3>1, <3>2, <3>3, <3>4 DEF SweepIsInvisible, Level
  <2> QED
    BY <2>1, <2>2
<1> QED
  BY <1>2 DEF SweepIsInvisible

\* Both buckets of an address fill at the same pace.
LEMMA TickIsInvisible ==
  ASSUME TypeOK, IdealIsPast, SweepIsInvisible, Tick
  PROVE  IdealIsPast' /\ SweepIsInvisible'
<1>0. now \in Nat /\ now' = now + 1 /\ UNCHANGED <<bucket, ideal>> /\ Events \in Nat \ {0}
  BY LimitsAssumption DEF LimitsAssumption, Tick, TypeOK, Time
<1>1. ASSUME NEW a \in Address
      PROVE  ideal[a].last <= now + 1 /\ (Level(Bucket(a), now) = Level(ideal[a], now))'
  <2>1. ideal[a] \in Visitor /\ ideal[a].last <= now /\ ideal[a].last \in Nat
    BY DEF TypeOK, IdealIsPast, Visitor, Time
  <2>2. Level(Bucket(a), now) = Level(ideal[a], now)
    BY DEF SweepIsInvisible
  <2>3. Level(ideal[a], now + 1) =
          IF Level(ideal[a], now) + 1 > Events THEN Events ELSE Level(ideal[a], now) + 1
    BY <1>0, <2>1, LevelGrows
  <2>4. Level(Bucket(a)', now + 1) =
          IF Level(Bucket(a), now) + 1 > Events THEN Events ELSE Level(Bucket(a), now) + 1
    <3>1. CASE a \in DOMAIN bucket
      <4>1. Bucket(a)' = Bucket(a)
        BY <1>0, <3>1 DEF Bucket
      <4> QED
        BY <1>0, <4>1, BucketIsPast, LevelGrows
    <3>2. CASE a \notin DOMAIN bucket
      <4>1. Bucket(a) = [tokens |-> Events, last |-> now]
            /\ Bucket(a)' = [tokens |-> Events, last |-> now + 1]
        BY <1>0, <3>2 DEF Bucket
      <4>2. \A t \in Nat : Level([tokens |-> Events, last |-> t], t) = Events
        BY <1>0 DEF Level
      <4> QED
        BY <1>0, <4>1, <4>2
    <3> QED
      BY <3>1, <3>2
  <2>5. ideal[a].last <= now + 1
    BY <1>0, <2>1
  <2>6. Level(Bucket(a), now)' = Level(Bucket(a)', now + 1)
        /\ Level(ideal[a], now)' = Level(ideal[a], now + 1)
    BY <1>0 DEF Level
  <2> QED
    BY <2>2, <2>3, <2>4, <2>5, <2>6
<1> QED
  BY <1>0, <1>1 DEF IdealIsPast, SweepIsInvisible

LEMMA InvisibleNext ==
  TypeOK /\ IdealIsPast /\ SweepIsInvisible /\ [Next]_vars => IdealIsPast' /\ SweepIsInvisible'
<1> SUFFICES ASSUME TypeOK, IdealIsPast, SweepIsInvisible, [Next]_vars
             PROVE  IdealIsPast' /\ SweepIsInvisible'
  OBVIOUS
<1>1. ASSUME UNCHANGED <<now, bucket, ideal>> PROVE IdealIsPast' /\ SweepIsInvisible'
  BY <1>1 DEF IdealIsPast, SweepIsInvisible, Level, Bucket
<1>2. ASSUME NEW r \in Request, Compare(r) \/ Fail(r) \/ Check(r) \/ Admit(r) \/ Refuse(r)
      PROVE  UNCHANGED <<now, bucket, ideal>>
  BY <1>2 DEF Compare, Fail, Check, Admit, Refuse
<1>3. CASE SweepStart \/ SweepLockout \/ UNCHANGED vars
  BY <1>1, <1>3 DEF SweepStart, SweepLockout, vars
<1>4. CASE SweepLimiter
  BY <1>4, SweepDropsFull DEF IdealIsPast, SweepLimiter
<1>5. CASE Restart
  <2>1. DOMAIN bucket' = {} /\ ideal' = [a \in Address |-> Full] /\ now' = now /\ now \in Nat \ {0}
    BY <1>5 DEF Restart, TypeOK, Time
  <2>2. Level(Full, now) = Events /\ Full.last <= now
        /\ Level([tokens |-> Events, last |-> now], now) = Events
    BY <2>1, LimitsAssumption DEF LimitsAssumption, Level, Full
  <2>3. \A a \in Address : Bucket(a)' = [tokens |-> Events, last |-> now] /\ ideal'[a] = Full
    BY <2>1 DEF Bucket
  <2> QED
    BY <2>1, <2>2, <2>3 DEF IdealIsPast, SweepIsInvisible, Level
<1> QED
  BY <1>1, <1>2, <1>3, <1>4, <1>5, ArriveIsInvisible, TickIsInvisible DEF Next

-----------------------------------------------------------------------------
(* The ration.                                                             *)

\* What the proofs below need of the types.
LEMMA RationTypes ==
  ASSUME TypeOK
  PROVE  /\ Duration \in Nat \ {0} /\ Lag \in 0 .. Duration - 1 /\ Threshold \in Nat \ {0}
         /\ Ration \in Nat \ {0} /\ now \in Nat \ {0}
         /\ entry.failures \in Nat /\ entry.lockedUntil \in Nat /\ entry.lastFailure \in Nat
         /\ guesses \in Seq(Nat) /\ Len(guesses) \in Nat
         /\ \A i \in 1 .. Len(guesses) : guesses[i] \in Nat
         /\ Run \in Nat /\ Run <= entry.failures /\ Run <= Threshold
<1>1. {Never} \cup Time \subseteq Nat /\ Time \subseteq Nat
  BY LimitsAssumption DEF LimitsAssumption, Time, Never
<1>2. guesses \in Seq(Time) /\ guesses \in Seq(Nat)
  BY <1>1 DEF TypeOK
<1>3. Len(guesses) \in Nat /\ \A i \in 1 .. Len(guesses) : guesses[i] \in Nat
  BY <1>2
<1>4. /\ Duration \in Nat \ {0} /\ Lag \in 0 .. Duration - 1 /\ Threshold \in Nat \ {0}
      /\ Ration \in Nat \ {0}
  BY LimitsAssumption DEF LimitsAssumption, Ration
<1>5. /\ now \in Nat \ {0} /\ entry.failures \in Nat /\ entry.lockedUntil \in Nat
      /\ entry.lastFailure \in Nat
  BY <1>1 DEF TypeOK, Entry, Time
<1> QED
  BY <1>2, <1>3, <1>4, <1>5 DEF Run

\* A guess in the clear comes a lock's time after all but the last Threshold - 1 of those
\* before it.
LEMMA GuessIsRationed ==
  ASSUME TypeOK, RationInv,
         \/ entry.failures < Threshold
         \/ \A i \in 1 .. Len(guesses) : now - guesses[i] >= Ration,
         Len(guesses') = Len(guesses) + 1, guesses'[Len(guesses) + 1] = now,
         \A i \in 1 .. Len(guesses) : guesses'[i] = guesses[i],
         now' = now
  PROVE  GuessesAreRationed' /\ GuessesAreInOrder'
<1>0. /\ now \in Nat /\ Threshold \in Nat \ {0} /\ guesses \in Seq(Nat) /\ Len(guesses) \in Nat
      /\ \A i \in 1 .. Len(guesses) : guesses[i] \in Nat
      /\ Ration \in Nat /\ Run \in Nat /\ Ration = Duration - Lag
  BY RationTypes DEF Ration
<1>2. ASSUME NEW i \in 1 .. Len(guesses), i + Threshold = Len(guesses) + 1
      PROVE  now - guesses[i] >= Ration
  <2>1. CASE entry.failures < Threshold
    <3>1. Run < Threshold /\ Run <= Len(guesses) /\ i \in 1 .. Len(guesses) - Run
      BY <1>0, <1>2, <2>1 DEF Run, RationInv, StreaksAreApart
    <3>2. RunStart - guesses[i] >= Ration
      BY <3>1 DEF RationInv, StreaksAreApart
    <3>3. RunStart \in Nat /\ RunStart <= now
      <4>1. CASE Run = 0
        BY <1>0, <4>1 DEF RunStart
      <4>2. CASE Run # 0
        <5>1. Len(guesses) - Run + 1 \in 1 .. Len(guesses)
          BY <1>0, <3>1, <4>2
        <5> QED
          BY <1>0, <4>2, <5>1 DEF RunStart, RationInv, GuessesAreInOrder
      <4> QED
        BY <4>1, <4>2
    <3> QED
      BY <1>0, <3>2, <3>3
  <2> QED
    BY <2>1
<1>3. GuessesAreRationed'
  <2>1. ASSUME NEW i \in 1 .. Len(guesses) + 1 - Threshold
        PROVE  guesses'[i + Threshold] - guesses'[i] >= Duration - Lag
    <3>1. i \in 1 .. Len(guesses) /\ guesses'[i] = guesses[i]
      BY <1>0
    <3>2. CASE i + Threshold = Len(guesses) + 1
      BY <1>0, <1>2, <3>1, <3>2
    <3>3. CASE i + Threshold # Len(guesses) + 1
      <4>1. i \in 1 .. Len(guesses) - Threshold /\ i + Threshold \in 1 .. Len(guesses)
        BY <1>0, <3>3
      <4> QED
        BY <1>0, <3>1, <4>1 DEF RationInv, GuessesAreRationed
    <3> QED
      BY <3>2, <3>3
  <2> QED
    BY <1>0, <2>1 DEF GuessesAreRationed
<1>4. GuessesAreInOrder'
  BY <1>0 DEF RationInv, GuessesAreInOrder
<1> QED
  BY <1>3, <1>4

\* A login leaves the readings of the others as they were.
LEMMA FailKeepsReadings ==
  ASSUME TypeOK, ReadingsAreRecent, NEW r \in Request, Fail(r)
  PROVE  ReadingsAreRecent'
<1>1. req' = [req EXCEPT ![r] = Idle] /\ now' = now /\ req \in [Request -> Login]
  BY DEF Fail, TypeOK
<1>2. Idle.pc \notin {"wrong", "right"}
  BY DEF Idle
<1> QED
  BY <1>1, <1>2 DEF ReadingsAreRecent

LEMMA FailKeepsRation ==
  ASSUME TypeOK, StreakIsEarned, RationInv, NEW r \in Request, Fail(r)
  PROVE  RationInv'
<1> DEFINE t == req[r].at
           L == Len(guesses)
<1>0. /\ Duration \in Nat \ {0} /\ Lag \in 0 .. Duration - 1 /\ Threshold \in Nat \ {0}
      /\ Ration \in Nat /\ Ration = Duration - Lag /\ now \in Nat
      /\ entry.failures \in Nat /\ entry.lockedUntil \in Nat
      /\ L \in Nat /\ \A i \in 1 .. L : guesses[i] \in Nat
  BY RationTypes DEF Ration
<1>1. t \in Nat /\ t <= now /\ now - t <= Lag
  <2>1. {Never} \cup Time \subseteq Nat
    BY LimitsAssumption DEF LimitsAssumption, Time, Never
  <2> QED
    BY <2>1 DEF TypeOK, Login, RationInv, ReadingsAreRecent, Fail
<1>2. entry' = Failed(entry, t) /\ entry'.lastFailure = t /\ now' = now
  BY DEF Fail, Failed
<1>3. \A i \in 1 .. L : guesses[i] <= now
  BY DEF RationInv, GuessesAreInOrder
<1>4. t + Duration >= now + Ration
  BY <1>0, <1>1
<1>5. ReadingsAreRecent'
  BY FailKeepsReadings DEF RationInv
<1>6. CASE LockedAt(t)
  <2>1. guesses' = guesses
    BY <1>6 DEF Fail
  <2>2. entry.lockedUntil # Never /\ ~Elapsed(entry, t) /\ entry.failures >= Threshold
    BY <1>0, <1>1, <1>6 DEF LockedAt, Elapsed, StreakIsEarned, Never
  <2>3. entry'.failures = entry.failures + 1 /\ entry'.lockedUntil = entry.lockedUntil
    BY <1>0, <1>1, <1>2, <2>2, FailCases
  <2>4. Run' = Threshold /\ Run = Threshold
    BY <1>0, <2>2, <2>3 DEF Run
  <2>5. RunStart' = RunStart
    BY <1>0, <1>2, <2>1, <2>4 DEF RunStart
  <2>6. StreaksAreApart'
    BY <2>1, <2>4, <2>5 DEF RationInv, StreaksAreApart, Ration
  <2>7. LockCoversGuesses'
    BY <2>1, <2>2, <2>3 DEF RationInv, LockCoversGuesses, Ration
  <2>8. EntryKeepsPace'
    BY <1>0, <1>1, <1>2, <1>3, <2>1 DEF EntryKeepsPace
  <2>9. GuessesAreInOrder' /\ GuessesAreRationed'
    BY <1>2, <2>1 DEF RationInv, GuessesAreInOrder, GuessesAreRationed
  <2> QED
    BY <1>5, <2>6, <2>7, <2>8, <2>9 DEF RationInv
<1>7. CASE ~LockedAt(t)
  <2>1. /\ Len(guesses') = L + 1 /\ guesses'[L + 1] = now
        /\ \A i \in 1 .. L : guesses'[i] = guesses[i]
    <3>1. guesses' = Append(guesses, now) /\ guesses \in Seq(Nat)
      BY <1>7, RationTypes DEF Fail
    <3> QED
      BY <1>0, <3>1
  <2>2. \A i \in 1 .. L + 1 : guesses'[i] \in Nat /\ guesses'[i] <= now
    BY <1>0, <1>3, <2>1
  <2>6. \A i \in 1 .. L + 1 : t + Duration >= guesses'[i] + Ration
    BY <1>0, <1>1, <1>4, <2>2
  <2>3. EntryKeepsPace'
    BY <1>0, <1>1, <1>2, <2>1, <2>2 DEF EntryKeepsPace
  <2>4. CASE Elapsed(entry, t)
    <3>1. \A i \in 1 .. L : now - guesses[i] >= Ration
      <4>1. \A i \in 1 .. L : entry.lockedUntil >= guesses[i] + Ration
        BY <2>4 DEF Elapsed, RationInv, LockCoversGuesses
      <4>2. entry.lockedUntil <= now
        BY <1>0, <1>1, <2>4 DEF Elapsed
      <4> QED
        BY <1>0, <4>1, <4>2
    <3>2. entry'.failures = 1
          /\ entry'.lockedUntil = IF Threshold = 1 THEN t + Duration ELSE Never
      BY <1>1, <1>2, <2>4, FailCases
    <3>3. Run' = 1 /\ RunStart' = now
      BY <1>0, <2>1, <3>2 DEF Run, RunStart
    <3>4. StreaksAreApart'
      BY <1>0, <2>1, <3>1, <3>3 DEF StreaksAreApart, Ration
    <3>5. LockCoversGuesses'
      <4>1. Threshold = 1 => entry'.lockedUntil = t + Duration
        BY <3>2
      <4>2. Threshold # 1 => entry'.lockedUntil = Never /\ entry'.failures < Threshold
        BY <1>0, <3>2
      <4>3. Ration' = Ration /\ t + Duration # Never
        BY <1>0, <1>1 DEF Ration, Never
      <4> QED
        BY <1>0, <2>1, <2>6, <3>2, <4>1, <4>2, <4>3 DEF LockCoversGuesses
    <3> HIDE DEF L
    <3>6. GuessesAreRationed' /\ GuessesAreInOrder'
      BY <1>2, <2>1, <3>1, GuessIsRationed DEF L
    <3> QED
      BY <1>5, <2>3, <3>4, <3>5, <3>6 DEF RationInv
  <2>5. CASE ~Elapsed(entry, t)
    <3>1. entry.failures < Threshold /\ Run = entry.failures /\ Run <= L
      BY <1>0, <1>1, <1>7, <2>5
      DEF Elapsed, LockedAt, Run, RationInv, LockCoversGuesses, StreaksAreApart
    <3>2. /\ entry'.failures = entry.failures + 1
          /\ \/ entry'.failures = Threshold /\ entry'.lockedUntil = t + Duration
             \/ entry'.failures < Threshold /\ entry'.lockedUntil = Never
      <4>1. entry.lockedUntil = Never
        BY <3>1 DEF StreakIsEarned
      <4>2. /\ entry'.failures = entry.failures + 1
            /\ \/ entry.failures + 1 = Threshold /\ entry'.lockedUntil = t + Duration
               \/ entry.failures + 1 # Threshold /\ entry'.lockedUntil = entry.lockedUntil
        BY <1>1, <1>2, <2>5, FailCases
      <4> QED
        BY <1>0, <3>1, <4>1, <4>2
    <3>3. Run' = Run + 1
      BY <1>0, <3>1, <3>2 DEF Run
    <3>4. RunStart' = RunStart
      <4>1. L + 1 - (Run + 1) + 1 = L - Run + 1 /\ Run + 1 # 0
        BY <1>0, <3>1
      <4>2. RunStart' = guesses'[L - Run + 1]
        <5>1. Run' # 0 /\ Len(guesses') - Run' + 1 = L - Run + 1
          BY <1>0, <2>1, <3>1, <3>3, <4>1
        <5>2. RunStart' = guesses'[Len(guesses') - Run' + 1]
          BY <5>1 DEF RunStart
        <5> QED
          BY <5>1, <5>2
      <4>3. CASE Run = 0
        BY <1>0, <2>1, <4>2, <4>3 DEF RunStart
      <4>4. CASE Run # 0
        <5>1. L - Run + 1 \in 1 .. L
          BY <1>0, <3>1, <4>4
        <5> QED
          BY <2>1, <4>2, <4>4, <5>1 DEF RunStart
      <4> QED
        BY <4>3, <4>4
    <3>5. StreaksAreApart'
      <4>1. \A i \in 1 .. L - Run : RunStart - guesses[i] >= Ration
        BY DEF RationInv, StreaksAreApart
      <4>2. Run + 1 <= L + 1 /\ L + 1 - (Run + 1) = L - Run /\ 1 .. L - Run \subseteq 1 .. L
        BY <1>0, <3>1
      <4> QED
        BY <2>1, <3>3, <3>4, <4>1, <4>2 DEF StreaksAreApart, Ration
    <3>6. LockCoversGuesses'
      BY <1>0, <2>1, <2>6, <3>2 DEF LockCoversGuesses, Ration, Never
    <3>7. GuessesAreRationed' /\ GuessesAreInOrder'
      BY <1>2, <2>1, <3>1, GuessIsRationed
    <3> QED
      BY <1>5, <2>3, <3>5, <3>6, <3>7 DEF RationInv
  <2> QED
    BY <2>4, <2>5
<1> QED
  BY <1>6, <1>7

\* A login that reads the clock reads it now; every other step leaves a reading or ends it.
LEMMA OthersKeepReadings ==
  ASSUME TypeOK, ReadingsAreRecent, [Next]_vars, \A r \in Request : ~Fail(r)
  PROVE  ReadingsAreRecent'
<1>0. req \in [Request -> Login] /\ now \in Nat /\ Lag \in Nat
      /\ \A r \in Request : req[r].at \in Nat
  <2>1. {Never} \cup Time \subseteq Nat
    BY LimitsAssumption DEF LimitsAssumption, Time, Never
  <2>2. \A r \in Request : req[r].at \in Nat
    BY <2>1 DEF TypeOK, Login
  <2> QED
    BY <2>2, LimitsAssumption DEF LimitsAssumption, TypeOK, Time
<1>1. ASSUME NEW r \in Request, now' = now,
             \/ req' = [req EXCEPT ![r] = Idle]
             \/ req' = [req EXCEPT ![r].pc = "bcrypt"]
             \/ req' = [req EXCEPT ![r].pc = "account"]
             \/ \E pc \in {"wrong", "right"} : req' = [req EXCEPT ![r] = [pc |-> pc, at |-> now]]
      PROVE  ReadingsAreRecent'
  <2>1. PICK to \in Login : /\ req' = [req EXCEPT ![r] = to]
                            /\ to.pc \in {"wrong", "right"} => to.at = now
    <3>1. CASE req' = [req EXCEPT ![r] = Idle]
      BY <3>1, IdleType DEF Idle
    <3>2. CASE req' = [req EXCEPT ![r].pc = "bcrypt"] \/ req' = [req EXCEPT ![r].pc = "account"]
      <4>1. ASSUME NEW pc \in {"bcrypt", "account"}
            PROVE  [req[r] EXCEPT !.pc = pc] \in Login /\ [req[r] EXCEPT !.pc = pc].pc = pc
        BY <1>0 DEF Login
      <4> QED
        BY <3>2, <4>1
    <3>3. CASE \E pc \in {"wrong", "right"} : req' = [req EXCEPT ![r] = [pc |-> pc, at |-> now]]
      <4>1. \A pc \in {"wrong", "right"} : [pc |-> pc, at |-> now] \in Login
        BY DEF TypeOK, Login
      <4> QED
        BY <3>3, <4>1
    <3> QED
      BY <1>1, <3>1, <3>2, <3>3
  <2>2. ASSUME NEW x \in Request, req'[x].pc \in {"wrong", "right"}
        PROVE  now' - req'[x].at <= Lag
    <3>1. CASE x = r
      BY <1>0, <1>1, <2>1, <2>2, <3>1
    <3>2. CASE x # r
      BY <1>0, <1>1, <2>1, <2>2, <3>2 DEF ReadingsAreRecent
    <3> QED
      BY <3>1, <3>2
  <2> QED
    BY <2>2 DEF ReadingsAreRecent
<1>2. ASSUME UNCHANGED <<now, req>> PROVE ReadingsAreRecent'
  BY <1>2 DEF ReadingsAreRecent
<1>3. ASSUME NEW r \in Request, Arrive(r) PROVE ReadingsAreRecent'
  <2>1. now' = now /\ (req' = [req EXCEPT ![r].pc = "bcrypt"] \/ UNCHANGED req)
    BY <1>3 DEF Arrive
  <2> QED
    BY <1>1, <1>2, <2>1
<1>4. ASSUME NEW r \in Request, Compare(r) PROVE ReadingsAreRecent'
  BY <1>1, <1>4 DEF Compare
<1>5. ASSUME NEW r \in Request, Check(r) PROVE ReadingsAreRecent'
  <2>1. /\ now' = now
        /\ req' = [req EXCEPT ![r] = Idle] \/ req' = [req EXCEPT ![r].pc = "account"]
    BY <1>0, <1>5 DEF Check
  <2> QED
    BY <1>1, <2>1
<1>6. ASSUME NEW r \in Request, Admit(r) \/ Refuse(r) PROVE ReadingsAreRecent'
  BY <1>1, <1>6 DEF Admit, Refuse
<1>7. CASE SweepStart \/ SweepLimiter \/ SweepLockout \/ UNCHANGED vars
  BY <1>2, <1>7 DEF SweepStart, SweepLimiter, SweepLockout, vars
<1>8. CASE Tick
  BY <1>0, <1>8 DEF Tick, ReadingsAreRecent
<1>9. CASE Restart
  BY <1>9 DEF Restart, ReadingsAreRecent, Idle
<1> QED
  BY <1>3, <1>4, <1>5, <1>6, <1>7, <1>8, <1>9 DEF Next

\* When the clock moves, or the sweeper forgets, the last streak is over or goes on.
LEMMA OthersKeepRation ==
  ASSUME TypeOK, RationInv, [Next]_vars, \A r \in Request : ~Fail(r)
  PROVE  RationInv'
<1> DEFINE L == Len(guesses)
<1>0. /\ Duration \in Nat \ {0} /\ Lag \in 0 .. Duration - 1 /\ Threshold \in Nat \ {0}
      /\ Ration \in Nat /\ Ration = Duration - Lag /\ now \in Nat
      /\ entry.failures \in Nat /\ entry.lockedUntil \in Nat /\ entry.lastFailure \in Nat
      /\ L \in Nat /\ \A i \in 1 .. L : guesses[i] \in Nat /\ guesses[i] <= now
  BY RationTypes DEF Ration, RationInv, GuessesAreInOrder
<1>1. ReadingsAreRecent'
  BY OthersKeepReadings DEF RationInv
<1>2. /\ NoEntry.failures = 0 /\ NoEntry.lockedUntil = Never
  BY NoEntryType
<1>3. ASSUME UNCHANGED <<now, entry, guesses>> PROVE RationInv'
  BY <1>1, <1>3
  DEF RationInv, GuessesAreInOrder, StreaksAreApart, Run, RunStart, Ration, LockCoversGuesses,
      EntryKeepsPace, GuessesAreRationed
<1>4. ASSUME entry' = NoEntry, UNCHANGED <<now, guesses>>,
             \A i \in 1 .. L : now - guesses[i] >= Ration
      PROVE  RationInv'
  <2>1. Run' = 0 /\ RunStart' = now
    BY <1>0, <1>2, <1>4 DEF Run, RunStart
  <2>2. StreaksAreApart'
    BY <1>0, <1>4, <2>1 DEF StreaksAreApart, Ration
  <2>3. LockCoversGuesses' /\ EntryKeepsPace'
    BY <1>0, <1>2, <1>4 DEF LockCoversGuesses, EntryKeepsPace
  <2>4. GuessesAreInOrder' /\ GuessesAreRationed'
    BY <1>4 DEF RationInv, GuessesAreInOrder, GuessesAreRationed
  <2> QED
    BY <1>1, <2>2, <2>3, <2>4 DEF RationInv
<1>5. ASSUME entry' = NoEntry, guesses' = <<>> PROVE RationInv'
  <2>1. Len(guesses') = 0 /\ Run' = 0
    BY <1>0, <1>2, <1>5 DEF Run
  <2>2. StreaksAreApart'
    BY <1>0, <2>1 DEF StreaksAreApart
  <2>3. LockCoversGuesses' /\ EntryKeepsPace'
    BY <1>0, <1>2, <1>5 DEF LockCoversGuesses, EntryKeepsPace
  <2>4. GuessesAreInOrder' /\ GuessesAreRationed'
    BY <1>0, <2>1 DEF GuessesAreInOrder, GuessesAreRationed
  <2> QED
    BY <1>1, <2>2, <2>3, <2>4 DEF RationInv
<1>6. CASE SweepLockout
  <2>1. /\ UNCHANGED <<now, guesses>>
        /\ entry' = IF IdleEntry THEN NoEntry ELSE entry
    BY <1>6 DEF SweepLockout
  <2>2. CASE ~IdleEntry \/ entry = NoEntry
    BY <1>3, <2>1, <2>2
  <2>3. CASE IdleEntry /\ entry # NoEntry
    <3>1. entry.failures # 0 /\ sweeper \in Nat /\ sweeper <= now
      BY <1>0, <2>3 DEF TypeOK
    <3>2. sweeper - entry.lastFailure >= Duration
      BY <2>3 DEF IdleEntry
    <3>3. \A i \in 1 .. L : entry.lastFailure + Lag >= guesses[i]
      BY <3>1 DEF RationInv, EntryKeepsPace
    <3>4. \A i \in 1 .. L : now - guesses[i] >= Ration
      BY <1>0, <3>1, <3>2, <3>3
    <3> QED
      BY <1>4, <2>1, <2>3, <3>4
  <2> QED
    BY <2>2, <2>3
<1>7. CASE Tick
  <2>1. now' = now + 1 /\ UNCHANGED <<entry, guesses>>
    BY <1>7 DEF Tick
  <2>2. StreaksAreApart'
    <3>1. Run' = Run /\ Run <= L /\ Run \in Nat
      BY <1>0, <2>1, RationTypes DEF Run, RationInv, StreaksAreApart
    <3>2. RunStart' = IF Run = 0 THEN now + 1 ELSE RunStart
      BY <2>1, <3>1 DEF RunStart
    <3>3. \A i \in 1 .. L - Run : RunStart - guesses[i] >= Ration
      BY DEF RationInv, StreaksAreApart
    <3>4. Run = 0 => RunStart = now
      BY DEF RunStart
    <3>5. \A i \in 1 .. L - Run : RunStart' - guesses[i] >= Ration
      BY <1>0, <3>1, <3>2, <3>3, <3>4
    <3> QED
      BY <2>1, <3>1, <3>5 DEF StreaksAreApart, Ration
  <2>3. LockCoversGuesses' /\ EntryKeepsPace'
    BY <2>1 DEF RationInv, LockCoversGuesses, EntryKeepsPace, Ration
  <2>4. GuessesAreInOrder' /\ GuessesAreRationed'
    BY <1>0, <2>1 DEF RationInv, GuessesAreInOrder, GuessesAreRationed
  <2> QED
    BY <1>1, <2>2, <2>3, <2>4 DEF RationInv
<1>8. ASSUME NEW r \in Request, Arrive(r) \/ Compare(r) \/ Check(r) \/ Refuse(r)
      PROVE  UNCHANGED <<now, entry, guesses>>
  BY <1>8 DEF Arrive, Compare, Check, Refuse
<1>9. CASE SweepStart \/ SweepLimiter \/ UNCHANGED vars
  BY <1>3, <1>9 DEF SweepStart, SweepLimiter, vars
<1>a. ASSUME (\E r \in Request : Admit(r)) \/ Restart
      PROVE  entry' = NoEntry /\ guesses' = <<>>
  BY <1>a DEF Admit, Restart
<1> QED
  BY <1>3, <1>5, <1>6, <1>7, <1>8, <1>9, <1>a DEF Next

LEMMA RationInvInit == Init => RationInv
<1> SUFFICES ASSUME Init PROVE RationInv
  OBVIOUS
<1>1. entry = NoEntry /\ guesses = <<>> /\ Len(guesses) = 0
  BY DEF Init
<1>2. Run = 0 /\ Threshold \in Nat \ {0} /\ entry.failures = 0 /\ entry.lockedUntil = Never
  BY <1>1, NoEntryType, LimitsAssumption DEF LimitsAssumption, Run
<1>3. ReadingsAreRecent
  BY DEF Init, ReadingsAreRecent, Idle
<1> QED
  BY <1>1, <1>2, <1>3
  DEF RationInv, GuessesAreInOrder, StreaksAreApart, LockCoversGuesses, EntryKeepsPace,
      GuessesAreRationed

-----------------------------------------------------------------------------
LEMMA LimitsInvInit == Init => LimitsInv
<1> SUFFICES ASSUME Init PROVE LimitsInv
  OBVIOUS
<1>1. StreakIsEarned
  BY NoEntryType, LimitsAssumption DEF LimitsAssumption, Init, StreakIsEarned
<1>2. /\ now = 1 /\ Full.last <= 1 /\ Level(Full, 1) = Events
      /\ Full = [tokens |-> Events, last |-> 1]
  BY LimitsAssumption DEF LimitsAssumption, Init, Full, Level
<1>3. \A a \in Address : Bucket(a) = Full /\ ideal[a] = Full
  BY <1>2 DEF Init, Bucket
<1> QED
  BY <1>1, <1>2, <1>3, TypeOKInit, RationInvInit DEF LimitsInv, IdealIsPast, SweepIsInvisible

\* The invariant is inductive, and a step from it keeps the two promises about locks.
LEMMA LimitsInvNext ==
  LimitsInv /\ [Next]_vars
    => /\ LimitsInv'
       /\ entry'.lockedUntil \notin {entry.lockedUntil, Never} => fresh + 1 >= Threshold
       /\ LockedAt(now) => \/ entry'.lockedUntil = entry.lockedUntil
                           \/ guesses' = <<>>
<1> SUFFICES ASSUME LimitsInv, [Next]_vars
             PROVE  /\ StreakIsEarned' /\ RationInv'
                    /\ entry'.lockedUntil \notin {entry.lockedUntil, Never} => fresh + 1 >= Threshold
                    /\ LockedAt(now) => \/ entry'.lockedUntil = entry.lockedUntil
                                        \/ guesses' = <<>>
  BY TypeOKNext, InvisibleNext DEF LimitsInv
<1>1. CASE \E r \in Request : Fail(r)
  BY <1>1, FailKeepsStreak, FailKeepsRation DEF LimitsInv
<1>2. CASE \A r \in Request : ~Fail(r)
  BY <1>2, OthersKeepStreak, OthersKeepRation DEF LimitsInv
<1> QED
  BY <1>1, <1>2

LEMMA LimitsInvHolds == Spec => []LimitsInv
<1>1. LimitsInv /\ [Next]_vars => LimitsInv'
  BY LimitsInvNext
<1> QED
  BY <1>1, LimitsInvInit, PTL DEF Spec

\* Every variable keeps its type; no clock reading and no bucket is of the future, and a
\* lock ends within one LOGIN_LOCKOUT_DURATION.
THEOREM LimitsTypeCorrect == Spec => []TypeOK
<1>1. LimitsInv => TypeOK
  BY DEF LimitsInv
<1> QED
  BY <1>1, LimitsInvHolds, PTL

\* However the logins interleave and whatever Sweep drops, a wrong password that Fail judges
\* in the clear comes a LOGIN_LOCKOUT_DURATION, less the age of a clock reading, after the
\* Threshold-th one before it.
THEOREM GuessesWereRationed == Spec => []GuessesAreRationed
<1>1. LimitsInv => GuessesAreRationed
  BY DEF LimitsInv, RationInv
<1> QED
  BY <1>1, LimitsInvHolds, PTL

\* A bucket that Sweep drops was full: an address gains nothing by being forgotten.
THEOREM SweptBucketsWereFull == Spec => []SweepIsInvisible
<1>1. LimitsInv => SweepIsInvisible
  BY DEF LimitsInv
<1> QED
  BY <1>1, LimitsInvHolds, PTL

\* Fail never extends a running lock, and Sweep never ends one.
THEOREM LocksRunTheirTime == Spec => LockRunsItsTime
<1>1. LimitsInv /\ [Next]_vars =>
        [LockedAt(now) => \/ entry'.lockedUntil = entry.lockedUntil
                          \/ guesses' = <<>>]_vars
  BY LimitsInvNext
<1> QED
  BY <1>1, LimitsInvHolds, PTL DEF Spec, LockRunsItsTime

\* Fail sets a lock only after Threshold wrong passwords judged in the clear since the last
\* one was set.
THEOREM LocksWereEarned == Spec => LocksAreEarned
<1>1. LimitsInv /\ [Next]_vars =>
        [entry'.lockedUntil \notin {entry.lockedUntil, Never} => fresh + 1 >= Threshold]_vars
  BY LimitsInvNext
<1> QED
  BY <1>1, LimitsInvHolds, PTL DEF Spec, LocksAreEarned
================================================================================
