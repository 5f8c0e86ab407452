-------------------------- MODULE ClientRegistryProofs -------------------------
(***************************************************************************)
(* What holds of ClientRegistry for any number of token requests, any cap, *)
(* any lifetimes and either store.                                         *)
(***************************************************************************)
EXTENDS ClientRegistry, FiniteSetTheorems, TLAPS

\* What is usable or may become so again: a request in flight may extend its client
\* after it has expired.
Reach == Usable \cup Busy
ReachBounded == MaxClients > 0 => Cardinality(Reach) <= MaxClients + Cardinality(Handler)

\* The sweep's time is not in the future, nor are the registrations on its list.
SweepIsPast == sweeper.at <= now /\ sweeper.doomed \subseteq 1 .. nextId - 1

\* A promise is kept by what is stored, and is not longer than an extension made now.
LeaseHolds(c) ==
    /\ c \in DOMAIN clients /\ c \notin sweeper.doomed
    /\ lease[c] \in Nat
    /\ lease[c] = 0 => clients[c] = 0
    /\ lease[c] # 0 => /\ lease[c] >= now /\ clients[c] >= lease[c]
                       /\ conf.ttl > 0 => lease[c] <= now + conf.ttl - 1
LeasesHold == \A c \in DOMAIN lease : LeaseHolds(c)

\* An extension about to be written takes nothing back, in whatever order they are.
WriteGood(h) ==
    LET c == req[h].client  u == req[h].until IN
    req[h].pc = "read" =>
        /\ u # 0 /\ conf.ttl > 0 /\ u <= now + conf.ttl - 1
        /\ c \in DOMAIN clients => clients[c] # 0
        /\ c \in DOMAIN lease => lease[c] # 0 /\ lease[c] <= u
WritesGood == \A h \in Handler : WriteGood(h)

RegistryInv ==
    TypeOK /\ RevokedStayGone /\ ReachBounded /\ SweepIsPast /\ LeasesHold /\ WritesGood

-----------------------------------------------------------------------------
\* A lease that holds is of a client that can be used.
LEMMA LeaseMeansUsable == TypeOK /\ LeasesHold => LeaseKept
<1> SUFFICES ASSUME TypeOK, LeasesHold, NEW c \in DOMAIN lease PROVE c \in Usable
  BY DEF LeaseKept
<1>1. LeaseHolds(c) /\ clients[c] \in Nat /\ now \in Nat
  BY DEF TypeOK, LeasesHold, LeaseHolds
<1> QED
  BY <1>1 DEF LeaseHolds, Usable, Valid

\* There are never infinitely many clients, nor more clients held than requests.
LEMMA BusyBounded ==
  ASSUME TypeOK
  PROVE  /\ IsFiniteSet(Usable) /\ IsFiniteSet(Busy)
         /\ Cardinality(Busy) <= Cardinality(Handler)
<1>1. IsFiniteSet(Usable)
  <2>1. Usable \subseteq 1 .. nextId - 1 /\ nextId - 1 \in Int
    BY RegistryAssumption DEF TypeOK, Usable, RegistryAssumption
  <2>2. IsFiniteSet(1 .. nextId - 1)
    BY <2>1, FS_Interval
  <2> QED
    BY <2>1, <2>2, FS_Subset
<1> DEFINE S == {g \in Handler : req[g].pc # "idle"}
           f == [h \in S |-> req[h].client]
<1>2. IsFiniteSet(S) /\ Cardinality(S) <= Cardinality(Handler)
  BY RegistryAssumption, FS_Subset DEF RegistryAssumption
<1>3. f \in Surjection(S, Busy)
  BY DEF Surjection, Busy
<1>4. IsFiniteSet(Busy) /\ Cardinality(Busy) <= Cardinality(S)
  BY <1>2, <1>3, FS_Surjection
<1>5. Cardinality(S) \in Nat /\ Cardinality(Busy) \in Nat /\ Cardinality(Handler) \in Nat
  BY <1>2, <1>4, FS_CardinalityType, RegistryAssumption
<1> QED
  BY <1>1, <1>2, <1>4, <1>5

\* The bound survives whatever brings no new client within reach.
LEMMA ReachShrinks ==
  ASSUME TypeOK, ReachBounded, Reach' \subseteq Reach
  PROVE  ReachBounded'
<1>1. IsFiniteSet(Reach)
  BY BusyBounded, FS_Union DEF Reach
<1>2. Cardinality(Reach') <= Cardinality(Reach) /\ IsFiniteSet(Reach')
  BY <1>1, FS_Subset
<1>3. Cardinality(Reach) \in Nat /\ Cardinality(Reach') \in Nat /\ Cardinality(Handler) \in Nat
  BY <1>1, <1>2, FS_CardinalityType, RegistryAssumption
<1> QED
  BY <1>2, <1>3, RegistryAssumption DEF ReachBounded

-----------------------------------------------------------------------------
LEMMA RegistryInvInit == Init => RegistryInv
<1> SUFFICES ASSUME Init PROVE RegistryInv
  OBVIOUS
<1>1. TypeOK /\ RevokedStayGone /\ SweepIsPast /\ LeasesHold /\ WritesGood
  BY RegistryAssumption DEF RegistryAssumption, Init, TypeOK, RevokedStayGone, SweepIsPast,
     LeasesHold, WritesGood, WriteGood, Request, Idle, Sweeper, Asleep, None
<1>2. Reach = {}
  BY DEF Init, Reach, Usable, Busy, Idle
<1>3. ReachBounded
  BY <1>2, FS_EmptySet, FS_CardinalityType, RegistryAssumption
  DEF ReachBounded, RegistryAssumption
<1> QED
  BY <1>1, <1>3 DEF RegistryInv

\* Registering: the ID is new to every set of IDs.
LEMMA RegisterKeeps == RegistryInv /\ Register => RegistryInv'
<1> SUFFICES ASSUME RegistryInv, Register PROVE RegistryInv'
  OBVIOUS
<1>0. conf.ttl \in Nat /\ now \in Nat \ {0} /\ nextId \in 1 .. MaxId /\ MaxId \in Nat
  BY RegistryAssumption DEF RegistryInv, TypeOK, Register, Id, Conf, RegistryAssumption
<1>1. nextId \in Id /\ nextId \in Nat /\ now \in Nat \ {0} /\ Expiry \in Nat
  BY <1>0 DEF Id, Expiry
<1>2. /\ clients' = With(clients, nextId, Expiry) /\ lease' = With(lease, nextId, Expiry)
      /\ nextId' = nextId + 1
      /\ UNCHANGED <<now, conf, req, sweeper, revoked>>
  BY DEF Register, FreshId
<1>3. TypeOK'
  <2>1. nextId' \in 1 .. MaxId + 1 /\ \A S : S \subseteq 1 .. nextId - 1 => S \subseteq 1 .. nextId' - 1
    BY <1>0, <1>2
  <2>2. nextId \in 1 .. nextId' - 1
    BY <1>0, <1>2
  <2>3. DOMAIN clients' \subseteq 1 .. nextId' - 1 /\ DOMAIN lease' \subseteq 1 .. nextId' - 1
    BY <1>2, <2>1, <2>2 DEF RegistryInv, TypeOK, With
  <2>4. \A c \in DOMAIN clients' : clients'[c] \in Nat
    BY <1>1, <1>2 DEF RegistryInv, TypeOK, With
  <2>5. \A h \in Handler : req'[h].pc # "idle" => req'[h].client \in 1 .. nextId' - 1
    BY <1>2, <2>1 DEF RegistryInv, TypeOK
  <2> QED
    BY <1>2, <2>1, <2>3, <2>4, <2>5 DEF RegistryInv, TypeOK
<1>4. RevokedStayGone' /\ SweepIsPast'
  BY <1>1, <1>2 DEF RegistryInv, TypeOK, RevokedStayGone, SweepIsPast, With
<1>5. ReachBounded'
  <2> SUFFICES ASSUME MaxClients > 0
               PROVE  Cardinality(Reach') <= MaxClients + Cardinality(Handler)
    BY <1>2 DEF ReachBounded
  <2>1. Cardinality(Usable) < MaxClients /\ MaxClients \in Nat
    BY RegistryAssumption DEF Register, Admits, RegistryAssumption
  <2>2. Reach' \subseteq (Usable \cup {nextId}) \cup Busy
    BY <1>2 DEF Reach, Usable, Busy, With
  <2>3. /\ IsFiniteSet(Usable) /\ IsFiniteSet(Busy)
        /\ Cardinality(Busy) <= Cardinality(Handler)
    BY BusyBounded DEF RegistryInv
  <2> DEFINE U == Usable \cup {nextId}
  <2>4. IsFiniteSet(U) /\ Cardinality(U) <= Cardinality(Usable) + 1
    BY <2>3, FS_AddElement, FS_CardinalityType
  <2>5. /\ IsFiniteSet(U \cup Busy)
        /\ Cardinality(U \cup Busy) = Cardinality(U) + Cardinality(Busy) - Cardinality(U \cap Busy)
        /\ IsFiniteSet(U \cap Busy)
    BY <2>3, <2>4, FS_Union, FS_Subset
  <2>6. IsFiniteSet(Reach') /\ Cardinality(Reach') <= Cardinality(U \cup Busy)
    BY <2>2, <2>5, FS_Subset
  <2> HIDE DEF U
  <2>7. /\ Cardinality(U) \in Nat /\ Cardinality(Busy) \in Nat /\ Cardinality(U \cap Busy) \in Nat
        /\ Cardinality(Usable) \in Nat /\ Cardinality(Handler) \in Nat
        /\ Cardinality(Reach') \in Nat /\ Cardinality(U \cup Busy) \in Nat
    BY <2>3, <2>4, <2>5, <2>6, FS_CardinalityType, RegistryAssumption DEF RegistryAssumption
  <2> QED
    BY <2>1, <2>3, <2>4, <2>5, <2>6, <2>7
<1>6. LeasesHold'
  <2> SUFFICES ASSUME NEW c \in DOMAIN lease' PROVE LeaseHolds(c)'
    BY DEF LeasesHold
  <2>1. CASE c = nextId
    <3>1. c \in DOMAIN clients' /\ clients'[c] = Expiry /\ lease'[c] = Expiry
      BY <1>2, <2>1 DEF With
    <3>2. c \notin sweeper'.doomed
      BY <1>0, <1>2, <2>1 DEF RegistryInv, SweepIsPast
    <3>3. Expiry # 0 => Expiry >= now /\ conf.ttl > 0 /\ Expiry <= now + conf.ttl - 1
      BY <1>0 DEF Expiry
    <3> QED
      BY <1>0, <1>1, <1>2, <3>1, <3>2, <3>3 DEF LeaseHolds
  <2>2. CASE c # nextId
    BY <1>1, <1>2, <2>2 DEF RegistryInv, LeasesHold, LeaseHolds, With
  <2> QED
    BY <2>1, <2>2
<1>7. WritesGood'
  BY <1>1, <1>2 DEF RegistryInv, TypeOK, WritesGood, WriteGood, With
<1> QED
  BY <1>3, <1>4, <1>5, <1>6, <1>7 DEF RegistryInv

\* A token request holds a client that can be used.
LEMMA LoadKeeps == ASSUME RegistryInv, NEW h \in Handler, Load(h) PROVE RegistryInv'
<1>1. PICK c \in Usable : req' = [req EXCEPT ![h] = [pc |-> "loaded", client |-> c, until |-> 0]]
  BY DEF Load
<1>2. UNCHANGED <<now, conf, clients, nextId, sweeper, revoked, lease>>
  BY DEF Load
<1>3. c \in 1 .. nextId - 1 /\ c \in Id
  BY RegistryAssumption DEF RegistryInv, TypeOK, Usable, Id, RegistryAssumption
<1>4. TypeOK'
  BY <1>1, <1>2, <1>3 DEF RegistryInv, TypeOK, Request
<1>5. ReachBounded'
  <2>1. Reach' \subseteq Reach
    BY <1>1, <1>2 DEF Reach, Usable, Busy, RegistryInv, TypeOK
  <2> QED
    BY <2>1, ReachShrinks DEF RegistryInv
<1>6. WritesGood'
  BY <1>1, <1>2 DEF RegistryInv, TypeOK, WritesGood, WriteGood
<1>7. RevokedStayGone' /\ SweepIsPast' /\ LeasesHold'
  BY <1>2 DEF RegistryInv, RevokedStayGone, SweepIsPast, LeasesHold, LeaseHolds
<1> QED
  BY <1>4, <1>5, <1>6, <1>7 DEF RegistryInv

\* An extension is at least as long as every promise made so far.
LEMMA TouchReadKeeps == ASSUME RegistryInv, NEW h \in Handler, TouchRead(h) PROVE RegistryInv'
<1> DEFINE c == req[h].client
           to == IF conf.ttl > 0 /\ c \in DOMAIN clients /\ clients[c] # 0
                 THEN [pc |-> "read", client |-> c, until |-> Expiry] ELSE Idle
<1>1. /\ req[h].pc = "loaded" /\ req' = [req EXCEPT ![h] = to]
      /\ UNCHANGED <<now, conf, clients, nextId, sweeper, revoked, lease>>
  BY DEF TouchRead
<1>2. conf.ttl \in Nat /\ now \in Nat \ {0}
  BY RegistryAssumption DEF RegistryInv, TypeOK, Conf, RegistryAssumption
<1>3. Expiry \in Nat /\ (conf.ttl > 0 => Expiry # 0 /\ Expiry = now + conf.ttl - 1)
  BY <1>2 DEF Expiry
<1>4. req[h] \in Request /\ c \in 1 .. nextId - 1
  BY <1>1 DEF RegistryInv, TypeOK
<1>5. to \in Request /\ (to.pc # "idle" => to.client = c)
  BY <1>3, <1>4 DEF Request, Idle, None
<1>6. TypeOK'
  <2> HIDE DEF to
  <2> QED
    BY <1>1, <1>4, <1>5 DEF RegistryInv, TypeOK
<1>7. ReachBounded'
  <2>1. Reach' \subseteq Reach
    <3> HIDE DEF to
    <3> QED
      BY <1>1, <1>5 DEF Reach, Usable, Busy, RegistryInv, TypeOK
  <2> QED
    BY <2>1, ReachShrinks DEF RegistryInv
<1>8. WritesGood'
  <2> SUFFICES ASSUME NEW g \in Handler PROVE WriteGood(g)'
    BY DEF WritesGood
  <2>1. CASE g # h
    BY <1>1, <2>1 DEF RegistryInv, TypeOK, WritesGood, WriteGood
  <2>2. CASE g = h
    <3>1. req'[g] = to
      BY <1>1, <2>2 DEF RegistryInv, TypeOK
    <3>2. CASE to = Idle
      BY <3>1, <3>2 DEF WriteGood, Idle
    <3>3. CASE to # Idle
      <4>1. /\ conf.ttl > 0 /\ c \in DOMAIN clients /\ clients[c] # 0
            /\ to = [pc |-> "read", client |-> c, until |-> Expiry]
        BY <3>3
      <4>2. c \in DOMAIN lease => lease[c] # 0 /\ lease[c] <= Expiry
        BY <1>3, <4>1 DEF RegistryInv, LeasesHold, LeaseHolds
      <4> QED
        BY <1>1, <1>2, <1>3, <3>1, <4>1, <4>2 DEF WriteGood
    <3> QED
      BY <3>2, <3>3
  <2> QED
    BY <2>1, <2>2
<1>9. RevokedStayGone' /\ SweepIsPast' /\ LeasesHold'
  BY <1>1 DEF RegistryInv, RevokedStayGone, SweepIsPast, LeasesHold, LeaseHolds
<1> QED
  BY <1>6, <1>7, <1>8, <1>9 DEF RegistryInv

\* A request that gives up holds nothing any more.
LEMMA AbortKeeps == ASSUME RegistryInv, NEW h \in Handler, Abort(h) PROVE RegistryInv'
<1>1. /\ req' = [req EXCEPT ![h] = Idle]
      /\ UNCHANGED <<now, conf, clients, nextId, sweeper, revoked, lease>>
  BY DEF Abort
<1>2. TypeOK'
  BY <1>1 DEF RegistryInv, TypeOK, Request, Idle, None
<1>3. Reach' \subseteq Reach
  BY <1>1 DEF Reach, Usable, Busy, RegistryInv, TypeOK, Idle
<1>4. WritesGood'
  BY <1>1 DEF RegistryInv, TypeOK, WritesGood, WriteGood, Idle
<1>5. RevokedStayGone' /\ SweepIsPast' /\ LeasesHold'
  BY <1>1 DEF RegistryInv, RevokedStayGone, SweepIsPast, LeasesHold, LeaseHolds
<1> QED
  BY <1>2, <1>3, <1>4, <1>5, ReachShrinks DEF RegistryInv

\* Removing registrations nobody was promised, or whose promise goes with them.
LEMMA RemovalKeeps ==
  ASSUME RegistryInv, NEW gone,
         clients' = Restrict(clients, DOMAIN clients \ gone),
         DOMAIN lease' = DOMAIN lease \ gone, \A c \in DOMAIN lease' : lease'[c] = lease[c],
         revoked' \in {revoked, revoked \cup gone}, gone \subseteq 1 .. nextId - 1,
         sweeper' \in Sweeper, sweeper'.at <= now, sweeper'.doomed \subseteq sweeper.doomed,
         UNCHANGED <<now, conf, nextId, req>>
  PROVE  RegistryInv'
<1>0. /\ DOMAIN clients' = DOMAIN clients \ gone
      /\ \A c \in DOMAIN clients' : clients'[c] = clients[c]
  BY DEF Restrict
<1>1. TypeOK'
  BY <1>0 DEF RegistryInv, TypeOK
<1>2. RevokedStayGone' /\ SweepIsPast'
  BY <1>0 DEF RegistryInv, RevokedStayGone, SweepIsPast
<1>3. Reach' \subseteq Reach
  BY <1>0 DEF Reach, Usable, Busy
<1>4. LeasesHold'
  BY <1>0 DEF RegistryInv, LeasesHold, LeaseHolds
<1>5. WritesGood'
  BY <1>0 DEF RegistryInv, WritesGood, WriteGood
<1> QED
  BY <1>1, <1>2, <1>3, <1>4, <1>5, ReachShrinks DEF RegistryInv

LEMMA RevokeKeeps ==
  ASSUME RegistryInv, NEW gone \in SUBSET DOMAIN clients, Revoke(gone)
  PROVE  RegistryInv'
<1>1. sweeper \in Sweeper /\ sweeper.at <= now /\ gone \subseteq 1 .. nextId - 1
  BY DEF RegistryInv, TypeOK, SweepIsPast
<1>2. /\ DOMAIN lease' = DOMAIN lease \ gone
      /\ \A c \in DOMAIN lease' : lease'[c] = lease[c]
  BY DEF Revoke, Restrict
<1> QED
  BY <1>1, <1>2, RemovalKeeps DEF Revoke

\* The sweep removes what had expired when it began, and nothing that is promised.
LEMMA SweepRemoves ==
  ASSUME RegistryInv, NEW gone \in SUBSET DOMAIN clients, gone \cap DOMAIN lease = {},
         clients' = Restrict(clients, DOMAIN clients \ gone),
         sweeper' \in Sweeper, sweeper'.at <= now, sweeper'.doomed \subseteq sweeper.doomed,
         UNCHANGED <<now, conf, nextId, req, revoked, lease>>
  PROVE  RegistryInv'
<1>1. gone \subseteq 1 .. nextId - 1
  BY DEF RegistryInv, TypeOK
<1>2. DOMAIN lease' = DOMAIN lease \ gone /\ \A c \in DOMAIN lease' : lease'[c] = lease[c]
  OBVIOUS
<1> QED
  BY <1>1, <1>2, RemovalKeeps

\* What had expired at an earlier time is not promised now.
LEMMA ExpiredNotLeased ==
  ASSUME RegistryInv
  PROVE  Expired(sweeper.at) \subseteq DOMAIN clients /\ Expired(sweeper.at) \cap DOMAIN lease = {}
<1> SUFFICES ASSUME NEW c \in Expired(sweeper.at), c \in DOMAIN lease PROVE FALSE
  BY DEF Expired
<1>1. clients[c] # 0 /\ ~ clients[c] >= sweeper.at /\ c \in DOMAIN clients
  BY DEF Expired, Valid
<1>2. clients[c] \in Nat /\ now \in Nat /\ sweeper.at \in Nat /\ sweeper.at <= now
  BY <1>1 DEF RegistryInv, TypeOK, SweepIsPast, Sweeper
<1>3. lease[c] # 0 /\ lease[c] \in Nat /\ lease[c] >= now /\ clients[c] >= lease[c]
  BY <1>1 DEF RegistryInv, LeasesHold, LeaseHolds
<1> QED
  BY <1>1, <1>2, <1>3

LEMMA SweepKeeps ==
  RegistryInv /\ (SweepStart \/ SweepKvs \/ ListExpired \/ DeleteOne \/ ListDone \/ SweepFails)
    => RegistryInv'
<1> SUFFICES ASSUME RegistryInv,
                    SweepStart \/ SweepKvs \/ ListExpired \/ DeleteOne \/ ListDone \/ SweepFails
             PROVE  RegistryInv'
  OBVIOUS
<1>0. /\ now \in Nat \ {0} /\ sweeper \in Sweeper /\ sweeper.at <= now
      /\ Asleep \in Sweeper /\ Asleep.at <= now /\ Asleep.doomed = {}
  BY DEF RegistryInv, TypeOK, SweepIsPast, Sweeper, Asleep
<1>a. ASSUME UNCHANGED <<now, conf, clients, nextId, req, revoked, lease>>,
             sweeper' \in Sweeper, sweeper'.at <= now,
             sweeper'.doomed \subseteq Expired(sweeper.at) \cup sweeper.doomed
      PROVE  RegistryInv'
  <2>1. TypeOK' /\ RevokedStayGone' /\ WritesGood'
    BY <1>a DEF RegistryInv, TypeOK, RevokedStayGone, WritesGood, WriteGood
  <2>2. sweeper'.doomed \subseteq 1 .. nextId - 1 /\ sweeper'.doomed \cap DOMAIN lease = {}
    BY <1>a, ExpiredNotLeased DEF RegistryInv, TypeOK, SweepIsPast, LeasesHold, LeaseHolds
  <2>3. Reach' \subseteq Reach
    BY <1>a DEF Reach, Usable, Busy
  <2>4. LeasesHold' /\ SweepIsPast'
    BY <1>a, <2>2 DEF RegistryInv, LeasesHold, LeaseHolds, SweepIsPast
  <2> QED
    BY <2>1, <2>3, <2>4, ReachShrinks DEF RegistryInv
<1>1. CASE SweepStart
  BY <1>0, <1>1, <1>a DEF SweepStart, Sweeper
<1>2. CASE SweepKvs
  <2>1. clients' = Restrict(clients, DOMAIN clients \ Expired(sweeper.at)) /\ sweeper' = Asleep
    BY <1>2 DEF SweepKvs
  <2> QED
    BY <1>0, <1>2, <2>1, ExpiredNotLeased, SweepRemoves DEF SweepKvs
<1>3. CASE ListExpired
  <2>1. Expired(sweeper.at) \subseteq Id
    BY RegistryAssumption DEF RegistryInv, TypeOK, Expired, Id, RegistryAssumption
  <2> QED
    BY <1>0, <1>3, <1>a, <2>1 DEF ListExpired, Sweeper
<1>4. CASE DeleteOne
  <2>1. PICK c \in sweeper.doomed :
            /\ clients' = Restrict(clients, DOMAIN clients \ {c})
            /\ sweeper' = [sweeper EXCEPT !.doomed = @ \ {c}]
    BY <1>4 DEF DeleteOne
  <2>2. c \notin DOMAIN lease
    BY DEF RegistryInv, LeasesHold, LeaseHolds
  <2> DEFINE gone == {c} \cap DOMAIN clients
  <2>3. DOMAIN clients \ {c} = DOMAIN clients \ gone
    OBVIOUS
  <2>4. sweeper' \in Sweeper /\ sweeper'.at = sweeper.at /\ sweeper'.doomed \subseteq sweeper.doomed
    BY <1>0, <2>1 DEF Sweeper
  <2>5. UNCHANGED <<now, conf, nextId, req, revoked, lease>>
    BY <1>4 DEF DeleteOne
  <2>6. gone \in SUBSET DOMAIN clients /\ gone \cap DOMAIN lease = {}
        /\ clients' = Restrict(clients, DOMAIN clients \ gone)
    BY <2>1, <2>2, <2>3
  <2> HIDE DEF gone
  <2> QED
    BY <1>0, <2>4, <2>5, <2>6, SweepRemoves
<1>5. CASE ListDone
  BY <1>0, <1>5, <1>a DEF ListDone
<1>6. CASE SweepFails
  BY <1>0, <1>6, <1>a DEF SweepFails
<1> QED
  BY <1>1, <1>2, <1>3, <1>4, <1>5, <1>6

LEMMA TickKeeps == RegistryInv /\ Tick => RegistryInv'
<1> SUFFICES ASSUME RegistryInv, Tick PROVE RegistryInv'
  OBVIOUS
<1>1. /\ now' = now + 1 /\ now \in Nat \ {0}
      /\ DOMAIN lease' = {c \in DOMAIN lease : Valid(lease[c], now + 1)}
      /\ \A c \in DOMAIN lease' : lease'[c] = lease[c]
      /\ UNCHANGED <<conf, clients, nextId, req, sweeper, revoked>>
  BY DEF Tick, Restrict, RegistryInv, TypeOK
<1>2. TypeOK' /\ RevokedStayGone'
  BY <1>1 DEF RegistryInv, TypeOK, RevokedStayGone
<1>3. SweepIsPast'
  BY <1>1 DEF RegistryInv, TypeOK, SweepIsPast, Sweeper
<1>4. Reach' \subseteq Reach
  BY <1>1 DEF Reach, Usable, Busy, Valid, RegistryInv, TypeOK
<1>5. conf.ttl \in Nat
  BY RegistryAssumption DEF RegistryInv, TypeOK, Conf, RegistryAssumption
<1>6. LeasesHold'
  BY <1>1, <1>5 DEF RegistryInv, LeasesHold, LeaseHolds, Valid
<1>7. WritesGood'
  <2> SUFFICES ASSUME NEW h \in Handler PROVE WriteGood(h)'
    BY DEF WritesGood
  <2>1. WriteGood(h) /\ req[h].until \in Nat
    BY DEF RegistryInv, WritesGood, TypeOK, Request
  <2> QED
    BY <1>1, <1>5, <2>1 DEF WriteGood
<1> QED
  BY <1>2, <1>3, <1>4, <1>6, <1>7, ReachShrinks DEF RegistryInv

\* With a shorter lifetime a promise shrinks to what the next extension will say.
LEMMA RestartKeeps == RegistryInv /\ Restart => RegistryInv'
<1> SUFFICES ASSUME RegistryInv, Restart PROVE RegistryInv'
  OBVIOUS
<1>1. PICK t \in TTL :
          /\ conf' = [conf EXCEPT !.ttl = t]
          /\ lease' = [c \in DOMAIN lease |->
                  IF t > 0 /\ lease[c] >= now + t THEN now + t - 1 ELSE lease[c]]
  BY DEF Restart
<1>2. /\ req' = [h \in Handler |-> Idle] /\ sweeper' = Asleep
      /\ DOMAIN lease' = DOMAIN lease
      /\ UNCHANGED <<now, clients, nextId, revoked>>
  BY <1>1 DEF Restart
<1>3. conf' \in Conf /\ conf'.ttl = t /\ t \in Nat /\ now \in Nat \ {0}
  BY <1>1, RegistryAssumption DEF RegistryInv, TypeOK, Conf, RegistryAssumption
<1>4. TypeOK'
  BY <1>2, <1>3 DEF RegistryInv, TypeOK, Request, Idle, Sweeper, Asleep, None
<1>5. RevokedStayGone' /\ SweepIsPast' /\ WritesGood'
  BY <1>2 DEF RegistryInv, TypeOK, RevokedStayGone, SweepIsPast, Asleep, WritesGood, WriteGood, Idle
<1>6. LeasesHold'
  <2> SUFFICES ASSUME NEW c \in DOMAIN lease PROVE LeaseHolds(c)'
    BY <1>2 DEF LeasesHold
  <2>1. LeaseHolds(c) /\ clients[c] \in Nat
    BY DEF RegistryInv, LeasesHold, LeaseHolds, TypeOK
  <2>2. lease'[c] = IF t > 0 /\ lease[c] >= now + t THEN now + t - 1 ELSE lease[c]
    BY <1>1
  <2>3. lease[c] \in Nat
    BY <2>1 DEF LeaseHolds
  <2>4. /\ lease'[c] \in Nat /\ lease'[c] <= lease[c]
        /\ lease'[c] = 0 <=> lease[c] = 0
        /\ lease[c] >= now => lease'[c] >= now
        /\ t > 0 => lease'[c] <= now + t - 1
    BY <1>3, <2>2, <2>3
  <2>5. sweeper'.doomed = {}
    BY <1>2 DEF Asleep
  <2> QED
    BY <1>2, <1>3, <2>1, <2>4, <2>5 DEF LeaseHolds
<1>7. Reach' \subseteq Reach
  BY <1>2 DEF Reach, Usable, Busy, Idle
<1> QED
  BY <1>4, <1>5, <1>6, <1>7, ReachShrinks DEF RegistryInv

\* The write of an extension: of the promises only the client's own changes, and it is
\* no longer than any of the extensions that are pending.
LEMMA TouchWriteKeeps == ASSUME RegistryInv, NEW h \in Handler, TouchWrite(h) PROVE RegistryInv'
<1> DEFINE c == req[h].client
           u == req[h].until
<1>1. /\ req[h].pc = "read" /\ req' = [req EXCEPT ![h] = Idle]
      /\ clients' = Touched(c, u)
      /\ IF c \in DOMAIN clients
           THEN \E w \in Pending(c) : (\A v \in Pending(c) : w <= v) /\ lease' = Promised(c, w)
           ELSE lease' = lease
      /\ UNCHANGED <<now, conf, nextId, sweeper, revoked>>
  BY DEF TouchWrite
<1>2. /\ c \in 1 .. nextId - 1 /\ u \in Nat /\ u # 0
      /\ conf.ttl > 0 /\ u <= now + conf.ttl - 1
  BY <1>1 DEF RegistryInv, TypeOK, Request, WritesGood, WriteGood
<1>3. /\ DOMAIN clients' = DOMAIN clients
      /\ \A x \in DOMAIN clients : x # c => clients'[x] = clients[x]
      /\ c \in DOMAIN clients => clients'[c] = u
  BY <1>1 DEF Touched, With
<1>4. /\ DOMAIN lease' \subseteq DOMAIN lease \cup {c}
      /\ \A x \in DOMAIN lease \ {c} : x \in DOMAIN lease' /\ lease'[x] = lease[x]
      /\ \A x \in DOMAIN lease' \ {c} : x \in DOMAIN lease /\ lease'[x] = lease[x]
  BY <1>1 DEF Promised, With
<1>a. \A v \in Pending(c) :
          /\ v \in Nat /\ v # 0 /\ v <= now + conf.ttl - 1
          /\ c \in DOMAIN lease => lease[c] # 0 /\ lease[c] <= v
  BY DEF Pending, RegistryInv, WritesGood, WriteGood, TypeOK, Request
<1>b. /\ u \in Pending(c)
      /\ \A g \in Handler : req[g].pc = "read" /\ req[g].client = c => req[g].until \in Pending(c)
  BY <1>1 DEF Pending
<1>5. ASSUME c \in DOMAIN lease'
      PROVE  /\ c \in DOMAIN clients /\ c \notin sweeper.doomed
             /\ lease'[c] \in Nat \ {0} /\ lease'[c] >= now
             /\ \A v \in Pending(c) : lease'[c] <= v
  <2>1. c \in DOMAIN clients
    BY <1>1, <1>5 DEF RegistryInv, LeasesHold, LeaseHolds
  <2>2. PICK w \in Pending(c) : (\A v \in Pending(c) : w <= v) /\ lease' = Promised(c, w)
    BY <1>1, <2>1
  <2>3. CASE Valid(w, now) /\ c \notin sweeper.doomed
    <3>1. lease'[c] = IF c \in DOMAIN lease THEN Longer(lease[c], w) ELSE w
      BY <2>2, <2>3 DEF Promised, With
    <3>2. c \in DOMAIN lease => lease[c] \in Nat
      BY DEF RegistryInv, LeasesHold, LeaseHolds
    <3>3. c \in DOMAIN lease => Longer(lease[c], w) = w
      BY <1>a, <3>2 DEF Longer
    <3>4. lease'[c] = w
      BY <3>1, <3>3
    <3>5. w >= now
      BY <1>a, <2>3 DEF Valid
    <3> QED
      BY <1>a, <2>1, <2>2, <2>3, <3>4, <3>5
  <2>4. CASE ~ (Valid(w, now) /\ c \notin sweeper.doomed)
    <3>1. lease' = lease
      BY <2>2, <2>4 DEF Promised
    <3>2. LeaseHolds(c)
      BY <1>5, <3>1 DEF RegistryInv, LeasesHold
    <3> QED
      BY <1>a, <1>b, <1>5, <2>1, <3>1, <3>2 DEF LeaseHolds
  <2> QED
    BY <2>3, <2>4
<1> HIDE DEF c, u
<1>6. TypeOK'
  <2>1. \A x \in DOMAIN clients' : clients'[x] \in Nat
    BY <1>2, <1>3 DEF RegistryInv, TypeOK
  <2>2. req' \in [Handler -> Request]
        /\ \A g \in Handler : req'[g].pc # "idle" => req'[g].client \in 1 .. nextId' - 1
    BY <1>1 DEF RegistryInv, TypeOK, Request, Idle, None
  <2>3. DOMAIN clients' \subseteq 1 .. nextId' - 1 /\ DOMAIN lease' \subseteq 1 .. nextId' - 1
    BY <1>1, <1>2, <1>3, <1>4 DEF RegistryInv, TypeOK
  <2> QED
    BY <1>1, <2>1, <2>2, <2>3 DEF RegistryInv, TypeOK
<1>7. RevokedStayGone' /\ SweepIsPast'
  BY <1>1, <1>3 DEF RegistryInv, RevokedStayGone, SweepIsPast
<1>8. Reach' \subseteq Reach
  <2>1. c \in Busy
    BY <1>1 DEF Busy, c
  <2>2. Busy' \subseteq Busy
    BY <1>1 DEF RegistryInv, TypeOK, Busy, Idle
  <2>3. Usable' \subseteq Usable \cup {c}
    BY <1>1, <1>3 DEF Usable
  <2> QED
    BY <2>1, <2>2, <2>3 DEF Reach
<1>9. LeasesHold'
  <2> SUFFICES ASSUME NEW x \in DOMAIN lease' PROVE LeaseHolds(x)'
    BY DEF LeasesHold
  <2>1. CASE x = c
    <3>1. clients'[c] = u /\ c \in DOMAIN clients'
      BY <1>3, <1>5, <2>1
    <3>2. now \in Nat /\ conf.ttl \in Nat
      BY RegistryAssumption DEF RegistryInv, TypeOK, Conf, RegistryAssumption
    <3>3. lease'[c] <= u
      BY <1>b, <1>5, <2>1
    <3> QED
      BY <1>1, <1>2, <1>5, <2>1, <3>1, <3>2, <3>3 DEF LeaseHolds
  <2>2. CASE x # c
    BY <1>1, <1>3, <1>4, <2>2 DEF RegistryInv, LeasesHold, LeaseHolds
  <2> QED
    BY <2>1, <2>2
<1>10. WritesGood'
  <2> SUFFICES ASSUME NEW g \in Handler, req'[g].pc = "read" PROVE WriteGood(g)'
    BY DEF WritesGood, WriteGood
  <2>1. g # h /\ req'[g] = req[g]
    BY <1>1 DEF RegistryInv, TypeOK, Idle
  <2>2. WriteGood(g) /\ req[g].pc = "read"
    BY <2>1 DEF RegistryInv, WritesGood
  <2>3. CASE req[g].client = c
    <3>1. c \in DOMAIN lease' => lease'[c] # 0 /\ lease'[c] <= req[g].until
      BY <1>b, <1>5, <2>2, <2>3
    <3> QED
      BY <1>1, <1>2, <1>3, <2>1, <2>2, <2>3, <3>1 DEF WriteGood
  <2>4. CASE req[g].client # c
    BY <1>1, <1>3, <1>4, <2>1, <2>2, <2>4 DEF WriteGood
  <2> QED
    BY <2>3, <2>4
<1> QED
  BY <1>6, <1>7, <1>8, <1>9, <1>10, ReachShrinks DEF RegistryInv

-----------------------------------------------------------------------------
LEMMA RegistryInvStutter == RegistryInv /\ UNCHANGED vars => RegistryInv'
<1> SUFFICES ASSUME RegistryInv, UNCHANGED vars PROVE RegistryInv'
  OBVIOUS
<1>1. Reach' = Reach
  BY DEF vars, Reach, Usable, Busy
<1>2. ReachBounded'
  BY <1>1, ReachShrinks DEF RegistryInv
<1> QED
  BY <1>2 DEF vars, RegistryInv, TypeOK, RevokedStayGone, SweepIsPast, LeasesHold, LeaseHolds,
     WritesGood, WriteGood

\* The invariant is inductive.
LEMMA RegistryInvNext == RegistryInv /\ [Next]_vars => RegistryInv'
<1> SUFFICES ASSUME RegistryInv, [Next]_vars PROVE RegistryInv'
  OBVIOUS
<1>1. CASE Register
  BY <1>1, RegisterKeeps
<1>2. CASE RevokeClient \/ RevokeAll
  <2>1. PICK gone \in SUBSET DOMAIN clients : Revoke(gone)
    BY <1>2 DEF RevokeClient, RevokeAll
  <2> QED
    BY <2>1, RevokeKeeps
<1>3. ASSUME NEW h \in Handler, Load(h) \/ TouchRead(h) \/ TouchWrite(h) \/ Abort(h)
      PROVE  RegistryInv'
  BY <1>3, LoadKeeps, TouchReadKeeps, TouchWriteKeeps, AbortKeeps
<1>4. CASE SweepStart \/ SweepKvs \/ ListExpired \/ DeleteOne \/ ListDone \/ SweepFails
  BY <1>4, SweepKeeps
<1>5. CASE Tick
  BY <1>5, TickKeeps
<1>6. CASE Restart
  BY <1>6, RestartKeeps
<1>7. CASE UNCHANGED vars
  BY <1>7, RegistryInvStutter
<1> QED
  BY <1>1, <1>2, <1>3, <1>4, <1>5, <1>6, <1>7 DEF Next

LEMMA RegistryInvHolds == Spec => []RegistryInv
<1> QED
  BY RegistryInvInit, RegistryInvNext, PTL DEF Spec

\* Every variable of the registry keeps its type, and no ID is in use before it is issued.
THEOREM RegistryTypeCorrect == Spec => []TypeOK
<1>1. RegistryInv => TypeOK
  BY DEF RegistryInv
<1> QED
  BY <1>1, RegistryInvHolds, PTL

\* A registration the operator revoked (DeleteClient, DeleteAllClients) does not come back
\* through an extension of TouchClient, which refuses a record that has gone.
THEOREM RevokedAreGone == Spec => []RevokedStayGone
<1>1. RegistryInv => RevokedStayGone
  BY DEF RegistryInv
<1> QED
  BY <1>1, RegistryInvHolds, PTL

\* The usable registrations exceed DCR_MAX_CLIENTS by at most one for each token request in
\* flight, however often TouchClient revives one that had been replaced under the cap.
THEOREM OvershootIsBounded == Spec => []OvershootBounded
<1>1. RegistryInv => OvershootBounded
  <2> SUFFICES ASSUME RegistryInv, MaxClients > 0
               PROVE  Cardinality(Usable) <= MaxClients + Cardinality(Handler)
    BY DEF OvershootBounded
  <2>1. Cardinality(Reach) <= MaxClients + Cardinality(Handler)
    BY DEF RegistryInv, ReachBounded
  <2>2. IsFiniteSet(Reach) /\ IsFiniteSet(Usable)
    BY BusyBounded, FS_Union DEF Reach, RegistryInv
  <2>3. Cardinality(Usable) <= Cardinality(Reach)
    BY <2>2, FS_Subset DEF Reach
  <2>4. /\ Cardinality(Usable) \in Nat /\ Cardinality(Reach) \in Nat
        /\ Cardinality(Handler) \in Nat /\ MaxClients \in Nat
    BY <2>2, FS_CardinalityType, RegistryAssumption DEF RegistryAssumption
  <2> QED
    BY <2>1, <2>3, <2>4
<1> QED
  BY <1>1, RegistryInvHolds, PTL

\* A registration stays usable as promised when it was made and each time it was extended:
\* the sweep (DeleteExpiredClients), extensions of TouchClient written in any order, and
\* restarts take nothing back, but that a restart with a shorter DCR_CLIENT_TTL shortens
\* every promise to it, and SQLite's sweep ignores an extension of what it has listed.
THEOREM LeasesAreKept == Spec => []LeaseKept
<1>1. RegistryInv => LeaseKept
  BY LeaseMeansUsable DEF RegistryInv
<1> QED
  BY <1>1, RegistryInvHolds, PTL
================================================================================
