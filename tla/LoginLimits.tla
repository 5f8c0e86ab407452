------------------------------ MODULE LoginLimits ------------------------------
(***************************************************************************)
(* What slows the guessing of the operator's password: a token bucket per  *)
(* address in front of the login, and the lockout of the one account       *)
(* behind it.  Both live in memory, each behind a mutex, and the sweeper   *)
(* drops what is idle.                                                     *)
(*                                                                         *)
(* A login reads the clock once, after bcrypt, and uses the reading a      *)
(* little later, when others may have been served; the sweeper's reading   *)
(* is as old as its pass over the store.  One tick refills one token.      *)
(***************************************************************************)
EXTENDS Integers, Sequences

CONSTANTS
    Request,    \* logins in flight
    Address,    \* client addresses
    Events,     \* RATE_LIMIT_LOGIN: Events tokens, all refilled in a window of Events ticks
    Threshold, Duration,    \* LOGIN_LOCKOUT_THRESHOLD and LOGIN_LOCKOUT_DURATION
    Lag,        \* bound: ticks between a login's reading of the clock and its use
    MaxTime     \* bound of the model

\* A limit or a threshold of 0 makes the limiter nil, and a nil one does nothing.
ASSUME LimitsAssumption ==
    /\ Events \in Nat \ {0} /\ Threshold \in Nat \ {0}
    /\ Duration \in Nat \ {0} /\ Lag \in 0 .. Duration - 1 /\ MaxTime \in Nat \ {0}

VARIABLES
    now,
    bucket,     \* the visitors of the login limiter: address |-> tokens at the last request
    entry,      \* the lockout entry of the operator, or NoEntry
    req,        \* what each login is doing
    sweeper,    \* the sweep's reading of the clock, 0 when it sleeps
    ideal,      \* history: the buckets as they would be without the sweeper
    guesses,    \* history: when wrong passwords were judged while the account was not locked,
                \*   since the last login or restart
    fresh       \* history: how many of these since the last lock was set

vars == <<now, bucket, entry, req, sweeper, ideal, guesses, fresh>>

Time == 1 .. MaxTime
Never == 0          \* the zero time.Time
NoEntry == [failures |-> 0, lockedUntil |-> Never, lastFailure |-> Never]
Entry == [failures : Nat, lockedUntil : Nat, lastFailure : {Never} \cup Time]
Visitor == [tokens : 0 .. Events, last : Time]
Idle == [pc |-> "idle", at |-> Never]
Login == [pc : {"idle", "bcrypt", "wrong", "right", "account"}, at : {Never} \cup Time]

Full == [tokens |-> Events, last |-> 1]

TypeOK ==
    /\ now \in Time
    /\ DOMAIN bucket \subseteq Address
    /\ \A a \in DOMAIN bucket : bucket[a] \in Visitor /\ bucket[a].last <= now
    /\ entry \in Entry /\ entry.lastFailure <= now /\ entry.lockedUntil <= now + Duration
    /\ (entry.failures = 0) = (entry = NoEntry)
    /\ req \in [Request -> Login]
    /\ \A r \in Request : req[r].at <= now
    /\ sweeper \in 0 .. now
    /\ ideal \in [Address -> Visitor]
    /\ guesses \in Seq(Time) /\ fresh \in Nat

Init ==
    /\ now = 1
    /\ bucket = [a \in {} |-> Full]
    /\ entry = NoEntry
    /\ req = [r \in Request |-> Idle]
    /\ sweeper = 0
    /\ ideal = [a \in Address |-> Full]
    /\ guesses = <<>>
    /\ fresh = 0

-----------------------------------------------------------------------------
(* The limiter.                                                            *)

Level(v, t) == IF v.tokens + (t - v.last) > Events THEN Events ELSE v.tokens + (t - v.last)

\* Allow of golang.org/x/time/rate: refill, and take a token if there is one.
Taken(v) == [tokens |-> IF Level(v, now) > 0 THEN Level(v, now) - 1 ELSE 0, last |-> now]

\* A new visitor starts with a full bucket.
Bucket(a) == IF a \in DOMAIN bucket THEN bucket[a] ELSE [tokens |-> Events, last |-> now]

\* The middleware: over the limit, the login ends here.
Arrive(r) ==
    /\ req[r].pc = "idle"
    /\ \E a \in Address :
         /\ bucket' = [x \in DOMAIN bucket \cup {a} |-> IF x = a THEN Taken(Bucket(a)) ELSE bucket[x]]
         /\ ideal' = [ideal EXCEPT ![a] = Taken(@)]
         /\ IF Level(Bucket(a), now) > 0
            THEN req' = [req EXCEPT ![r].pc = "bcrypt"]
            ELSE UNCHANGED req
    /\ UNCHANGED <<now, entry, sweeper, guesses, fresh>>

-----------------------------------------------------------------------------
(* The login.                                                              *)

\* bcrypt has run over every hash; then the clock is read.
Compare(r) ==
    /\ req[r].pc = "bcrypt"
    /\ \E pc \in {"wrong", "right"} : req' = [req EXCEPT ![r] = [pc |-> pc, at |-> now]]
    /\ UNCHANGED <<now, bucket, entry, sweeper, ideal, guesses, fresh>>

\* Lockout.Locked: only asked when the password is right.
LockedAt(t) == t < entry.lockedUntil

Elapsed(e, t) == e.lockedUntil # Never /\ t >= e.lockedUntil

\* Faulty variant of Streak: a lock that has elapsed does not end the streak.
StreakGoesOn(e, t) == e

\* A lock that has elapsed ends the streak.
Streak(e, t) == IF Elapsed(e, t) THEN NoEntry ELSE e

\* Faulty variant of Arms: every failure from the threshold on sets the lock anew.
ArmsAgain(failures) == failures >= Threshold

\* Only the failure that reaches the threshold sets the lock.
Arms(failures) == failures = Threshold

\* Lockout.Fail.
Failed(e, t) ==
    LET s == Streak(e, t) IN
    [failures |-> s.failures + 1,
     lockedUntil |-> IF Arms(s.failures + 1) THEN t + Duration ELSE s.lockedUntil,
     lastFailure |-> t]

\* A wrong password counts, locked or not.
Fail(r) ==
    LET t == req[r].at IN
    /\ req[r].pc = "wrong"
    /\ entry' = Failed(entry, t)
    /\ guesses' = IF LockedAt(t) THEN guesses ELSE Append(guesses, now)
    /\ fresh' = IF entry'.lockedUntil # entry.lockedUntil /\ entry'.lockedUntil # Never THEN 0
                ELSE IF LockedAt(t) THEN fresh ELSE fresh + 1
    /\ req' = [req EXCEPT ![r] = Idle]
    /\ UNCHANGED <<now, bucket, sweeper, ideal>>

\* A right one is refused while the account is locked.
Check(r) ==
    /\ req[r].pc = "right"
    /\ req' = [req EXCEPT ![r] = IF LockedAt(@.at) THEN Idle ELSE [@ EXCEPT !.pc = "account"]]
    /\ UNCHANGED <<now, bucket, entry, sweeper, ideal, guesses, fresh>>

\* OperatorAccount grants the login: Reset.
Admit(r) ==
    /\ req[r].pc = "account"
    /\ entry' = NoEntry
    /\ guesses' = <<>> /\ fresh' = 0
    /\ req' = [req EXCEPT ![r] = Idle]
    /\ UNCHANGED <<now, bucket, sweeper, ideal>>

\* The password login is disabled, or the store fails: neither counts nor resets.
Refuse(r) ==
    /\ req[r].pc = "account"
    /\ req' = [req EXCEPT ![r] = Idle]
    /\ UNCHANGED <<now, bucket, entry, sweeper, ideal, guesses, fresh>>

-----------------------------------------------------------------------------
(* The sweeper, the clock, and a restart.                                  *)

SweepStart ==
    /\ sweeper = 0
    /\ sweeper' = now
    /\ UNCHANGED <<now, bucket, entry, req, ideal, guesses, fresh>>

\* Faulty variant of IdleVisitor: a bucket goes a tick too early.
IdleVisitorSoon(v) == sweeper - v.last >= Events - 1

IdleVisitor(v) == sweeper - v.last >= Events

\* Faulty variant of IdleEntry: it goes a tick early, locked or not.
IdleEntryLocked == sweeper - entry.lastFailure >= Duration - 1

IdleEntry == ~LockedAt(sweeper) /\ sweeper - entry.lastFailure >= Duration

\* The limiter and then the lockout, each under its own mutex.
IdleVisitors == \E a \in DOMAIN bucket : IdleVisitor(bucket[a])

SweepLimiter ==
    /\ sweeper # 0 /\ IdleVisitors
    /\ bucket' = [a \in {b \in DOMAIN bucket : ~IdleVisitor(bucket[b])} |-> bucket[a]]
    /\ UNCHANGED <<now, entry, req, sweeper, ideal, guesses, fresh>>

SweepLockout ==
    /\ sweeper # 0 /\ ~IdleVisitors
    /\ entry' = IF IdleEntry THEN NoEntry ELSE entry
    /\ sweeper' = 0
    /\ UNCHANGED <<now, bucket, req, ideal, guesses, fresh>>

\* A login uses its clock reading within Lag ticks.
Tick ==
    /\ now < MaxTime
    /\ \A r \in Request : req[r].pc \in {"wrong", "right"} => now - req[r].at < Lag
    /\ now' = now + 1
    /\ UNCHANGED <<bucket, entry, req, sweeper, ideal, guesses, fresh>>

\* Everything here is lost with the process.
Restart ==
    /\ bucket' = [a \in {} |-> Full]
    /\ entry' = NoEntry
    /\ req' = [r \in Request |-> Idle]
    /\ sweeper' = 0
    /\ ideal' = [a \in Address |-> Full]
    /\ guesses' = <<>> /\ fresh' = 0
    /\ UNCHANGED now

Next ==
    \/ \E r \in Request : Arrive(r) \/ Compare(r) \/ Fail(r) \/ Check(r) \/ Admit(r) \/ Refuse(r)
    \/ SweepStart \/ SweepLimiter \/ SweepLockout \/ Tick \/ Restart

Spec == Init /\ [][Next]_vars

-----------------------------------------------------------------------------
(* Properties.                                                             *)

\* However the logins interleave, whatever the sweeper drops and as old as their clock
\* readings are, no Duration sees more guesses in the clear than the threshold, save for the
\* ticks a late clock reading takes off the lock (handleLoginPost, Fail, Sweep).
GuessesAreRationed ==
    \A i \in 1 .. Len(guesses) - Threshold : guesses[i + Threshold] - guesses[i] >= Duration - Lag

\* A lock runs out as it was set: more wrong passwords do not extend it, the sweeper does not
\* end it.  Only a login that had passed the check before, or a restart, does, and they
\* forgive the guesses too (Fail, Sweep).
LockRunsItsTime ==
    [][LockedAt(now) => \/ entry'.lockedUntil = entry.lockedUntil
                        \/ guesses' = <<>>]_vars

\* No lock is set before Threshold wrong passwords in the clear since the last one: a guess
\* now and then does not keep the operator out (the comment of Fail).
LocksAreEarned ==
    [][entry'.lockedUntil \notin {entry.lockedUntil, Never} => fresh + 1 >= Threshold]_vars

\* The sweeper is invisible to the limiter: a bucket it drops was full again.
SweepIsInvisible ==
    \A a \in Address : Level(Bucket(a), now) = Level(ideal[a], now)
================================================================================
