---------------------------- MODULE ClientRegistry -----------------------------
(***************************************************************************)
(* Stored client registrations: registering under a cap, looking up,       *)
(* extending on use, revoking, and sweeping.  Each repository call is a    *)
(* transaction, except where the store makes several: TouchClient reads    *)
(* and then writes, and SQLite's sweep lists and then deletes.             *)
(*                                                                         *)
(* An expiry lies between two ticks of `now`: the number stored is the     *)
(* last tick at which the registration is valid, 0 if it is for ever.  So  *)
(* Before and After, which differ for equal nanoseconds only, agree.       *)
(***************************************************************************)
EXTENDS Integers, FiniteSets, Functions

CONSTANTS
    Handler,    \* token requests in flight
    Backend,    \* the stores to model: "kvs" (bbolt), "sql" (SQLite)
    MaxClients, \* DCR_MAX_CLIENTS, 0 for no cap
    TTL,        \* the values of DCR_CLIENT_TTL a process may be started with, 0 for none
    MaxTime, MaxId  \* bounds of the model

ASSUME RegistryAssumption ==
    /\ IsFiniteSet(Handler)
    /\ Backend \subseteq {"kvs", "sql"}
    /\ MaxClients \in Nat /\ TTL \subseteq Nat
    /\ MaxTime \in Nat /\ MaxId \in Nat

VARIABLES
    now,
    conf,       \* the store of the gateway and the DCR_CLIENT_TTL of the running process
    clients,    \* the stored registrations: ID |-> expiry
    nextId,
    req,        \* what each token request is doing
    sweeper,    \* the sweep
    revoked,    \* history: IDs the operator revoked
    lease       \* history: the promises to keep an ID that still run: ID |-> expiry

vars == <<now, conf, clients, nextId, req, sweeper, revoked, lease>>

Id == 1 .. MaxId
Conf == [backend: Backend, ttl: TTL]
None == 0
Idle == [pc |-> "idle", client |-> None, until |-> 0]
Request == [pc: {"idle", "loaded", "read"}, client: {None} \cup Id, until: Nat]
Asleep == [pc |-> "idle", at |-> 0, doomed |-> {}]
Sweeper == [pc: {"idle", "begun", "listed"}, at: Nat, doomed: SUBSET Id]

Valid(expiry, t) == expiry = 0 \/ expiry >= t
Usable == {c \in DOMAIN clients : Valid(clients[c], now)}
Busy == {req[h].client : h \in {g \in Handler : req[g].pc # "idle"}}

TypeOK ==
    /\ now \in Nat \ {0} /\ conf \in Conf
    /\ nextId \in 1 .. MaxId + 1
    /\ DOMAIN clients \subseteq 1 .. nextId - 1
    /\ \A c \in DOMAIN clients : clients[c] \in Nat
    /\ req \in [Handler -> Request]
    /\ \A h \in Handler : req[h].pc # "idle" => req[h].client \in 1 .. nextId - 1
    /\ sweeper \in Sweeper
    /\ revoked \subseteq 1 .. nextId - 1
    /\ DOMAIN lease \subseteq 1 .. nextId - 1

Init ==
    /\ now = 1
    /\ conf \in Conf
    /\ clients = [c \in {} |-> 0]
    /\ nextId = 1
    /\ req = [h \in Handler |-> Idle]
    /\ sweeper = Asleep
    /\ revoked = {}
    /\ lease = [c \in {} |-> 0]

-----------------------------------------------------------------------------
(* The registration endpoint.                                              *)

With(f, c, v) == [x \in DOMAIN f \cup {c} |-> IF x = c THEN v ELSE f[x]]

\* Faulty variant of Admits: the comparison with the cap is off by one.
AdmitsOneMore == MaxClients > 0 => Cardinality(Usable) <= MaxClients

\* The cap is checked in the transaction that inserts.
Admits == MaxClients > 0 => Cardinality(Usable) < MaxClients
Expiry == IF conf.ttl > 0 THEN now + conf.ttl - 1 ELSE 0

\* Faulty variant of FreshId: the generator repeats itself.
FreshIdRepeats == nextId

\* GenerateClientID: random, so never issued before.
FreshId == nextId + 1

Register ==
    /\ nextId \in Id
    /\ Admits
    /\ clients' = With(clients, nextId, Expiry)
    /\ lease' = With(lease, nextId, Expiry)
    /\ nextId' = FreshId
    /\ UNCHANGED <<now, conf, req, sweeper, revoked>>

-----------------------------------------------------------------------------
(* The token endpoint: the client is authenticated first, and its          *)
(* registration extended when the tokens have been issued.                 *)

\* GetClient: an expired registration is absent, swept or not.
Load(h) ==
    /\ req[h].pc = "idle"
    /\ \E c \in Usable : req' = [req EXCEPT ![h] = [pc |-> "loaded", client |-> c, until |-> 0]]
    /\ UNCHANGED <<now, conf, clients, nextId, sweeper, revoked, lease>>

\* Faulty variant of TouchRead: a permanent registration is given an expiry.
TouchReadAny(h) ==
    LET c == req[h].client IN
    /\ req[h].pc = "loaded"
    /\ req' = [req EXCEPT ![h] =
            IF conf.ttl > 0 /\ c \in DOMAIN clients
              THEN [pc |-> "read", client |-> c, until |-> Expiry]
              ELSE Idle]
    /\ UNCHANGED <<now, conf, clients, nextId, sweeper, revoked, lease>>

\* TouchClient's read.  There is no check that the registration is still valid.
TouchRead(h) ==
    LET c == req[h].client IN
    /\ req[h].pc = "loaded"
    /\ req' = [req EXCEPT ![h] =
            IF conf.ttl > 0 /\ c \in DOMAIN clients /\ clients[c] # 0
              THEN [pc |-> "read", client |-> c, until |-> Expiry]
              ELSE Idle]
    /\ UNCHANGED <<now, conf, clients, nextId, sweeper, revoked, lease>>

\* What the extensions of a client that are about to be written will make of its expiry.
Pending(c) == {req[h].until : h \in {g \in Handler : req[g].pc = "read" /\ req[g].client = c}}

Longer(a, b) == IF a = 0 \/ (b # 0 /\ a >= b) THEN a ELSE b

\* What the promise of a client becomes by an extension: on top of what was promised
\* before, the earliest of the pending expiries, as the others may be overwritten by it.
\* SQLite's sweep may have the client on its list: then nothing is promised.
Promised(c, until) ==
    IF Valid(until, now) /\ c \notin sweeper.doomed
    THEN With(lease, c, IF c \in DOMAIN lease THEN Longer(lease[c], until) ELSE until)
    ELSE lease

\* Faulty variant of Touched: the write puts the record back.
TouchedAnyway(c, until) == With(clients, c, until)

\* Its write: bbolt's update refuses a record that has gone, SQLite's matches no row.
Touched(c, until) == IF c \in DOMAIN clients THEN With(clients, c, until) ELSE clients

TouchWrite(h) ==
    LET c == req[h].client IN
    /\ req[h].pc = "read"
    /\ clients' = Touched(c, req[h].until)
    /\ IF c \in DOMAIN clients
         THEN \E u \in Pending(c) : (\A v \in Pending(c) : u <= v) /\ lease' = Promised(c, u)
         ELSE lease' = lease
    /\ req' = [req EXCEPT ![h] = Idle]
    /\ UNCHANGED <<now, conf, nextId, sweeper, revoked>>

\* A grant that is refused, a store error, a client that hangs up.
Abort(h) ==
    /\ req[h].pc # "idle"
    /\ req' = [req EXCEPT ![h] = Idle]
    /\ UNCHANGED <<now, conf, clients, nextId, sweeper, revoked, lease>>

-----------------------------------------------------------------------------
(* The operator's revocations; the registrations go with the tokens, in    *)
(* one transaction.                                                        *)

Revoke(gone) ==
    /\ clients' = Restrict(clients, DOMAIN clients \ gone)
    /\ revoked' = revoked \cup gone
    /\ lease' = Restrict(lease, DOMAIN lease \ gone)
    /\ UNCHANGED <<now, conf, nextId, req, sweeper>>

RevokeClient == \E c \in DOMAIN clients : Revoke({c})
RevokeAll == DOMAIN clients # {} /\ Revoke(DOMAIN clients)

-----------------------------------------------------------------------------
(* The sweep.                                                              *)

Expired(t) == {c \in DOMAIN clients : ~ Valid(clients[c], t)}

\* The time is taken here; the sessions are swept first, which may take long.
SweepStart ==
    /\ sweeper.pc = "idle"
    /\ sweeper' = [pc |-> "begun", at |-> now, doomed |-> {}]
    /\ UNCHANGED <<now, conf, clients, nextId, req, revoked, lease>>

SweepKvs ==
    /\ conf.backend = "kvs" /\ sweeper.pc = "begun"
    /\ clients' = Restrict(clients, DOMAIN clients \ Expired(sweeper.at))
    /\ sweeper' = Asleep
    /\ UNCHANGED <<now, conf, nextId, req, revoked, lease>>

\* SQLite: the list is read first, each row is deleted by its ID alone.
ListExpired ==
    /\ conf.backend = "sql" /\ sweeper.pc = "begun"
    /\ sweeper' = [pc |-> "listed", at |-> 0, doomed |-> Expired(sweeper.at)]
    /\ UNCHANGED <<now, conf, clients, nextId, req, revoked, lease>>

DeleteOne ==
    /\ sweeper.pc = "listed"
    /\ \E c \in sweeper.doomed :
        /\ clients' = Restrict(clients, DOMAIN clients \ {c})
        /\ sweeper' = [sweeper EXCEPT !.doomed = @ \ {c}]
    /\ UNCHANGED <<now, conf, nextId, req, revoked, lease>>

ListDone ==
    /\ sweeper.pc = "listed" /\ sweeper.doomed = {}
    /\ sweeper' = Asleep
    /\ UNCHANGED <<now, conf, clients, nextId, req, revoked, lease>>

\* Faulty variant of SweepFails: the error is never cleared and no pass begins again.
SweepFailsForGood ==
    /\ sweeper.pc # "idle"
    /\ sweeper' = [sweeper EXCEPT !.pc = "listed", !.doomed = {0}]
    /\ UNCHANGED <<now, conf, clients, nextId, req, revoked, lease>>

\* A failing call ends the pass; the next one starts over.
SweepFails ==
    /\ sweeper.pc # "idle"
    /\ sweeper' = Asleep
    /\ UNCHANGED <<now, conf, clients, nextId, req, revoked, lease>>

-----------------------------------------------------------------------------
Tick ==
    /\ now < MaxTime
    /\ now' = now + 1
    /\ lease' = Restrict(lease, {c \in DOMAIN lease : Valid(lease[c], now + 1)})
    /\ UNCHANGED <<conf, clients, nextId, req, sweeper, revoked>>

\* The process dies and is started again, possibly with another DCR_CLIENT_TTL: promises
\* are then no longer than what it extends by.
Restart ==
    /\ \E t \in TTL :
        /\ conf' = [conf EXCEPT !.ttl = t]
        /\ lease' = [c \in DOMAIN lease |->
                IF t > 0 /\ lease[c] >= now + t THEN now + t - 1 ELSE lease[c]]
    /\ req' = [h \in Handler |-> Idle]
    /\ sweeper' = Asleep
    /\ UNCHANGED <<now, clients, nextId, revoked>>

Next ==
    \/ Register \/ RevokeClient \/ RevokeAll
    \/ \E h \in Handler : Load(h) \/ TouchRead(h) \/ TouchWrite(h) \/ Abort(h)
    \/ SweepStart \/ SweepKvs \/ ListExpired \/ DeleteOne \/ ListDone \/ SweepFails
    \/ Tick \/ Restart

Spec == Init /\ [][Next]_vars

\* The ticker keeps firing, and neither errors nor crashes hit every pass.
SweepFairness ==
    /\ SF_vars(SweepStart) /\ SF_vars(SweepKvs \/ ListExpired)
    /\ SF_vars(DeleteOne) /\ WF_vars(ListDone)
FairSpec == Spec /\ SweepFairness

-----------------------------------------------------------------------------
(* Properties.                                                             *)

\* A registration the operator revoked is gone for good, also when a token request of
\* its client is between the read and the write of TouchClient.
RevokedStayGone == revoked \cap DOMAIN clients = {}

\* TouchClient extends whatever record it finds, so registrations that expired during a
\* token request and were replaced under the cap come back.  The cap is exceeded by
\* one for each request in flight, and never more, however long this goes on.  SPEC.md
\* promises less than that, CapIsHard, and the code does not keep it.
OvershootBounded ==
    MaxClients > 0 => Cardinality(Usable) <= MaxClients + Cardinality(Handler)

\* "Cap: at most N stored DCR clients" (SPEC.md:189), even if only those that have not
\* expired are counted, as CountClients does.
CapIsHard == MaxClients > 0 => Cardinality(Usable) <= MaxClients

\* Active clients never expire mid-use: unless it is revoked, a registration stays usable
\* for its TTL, and every extension prolongs that, by no less than the earliest of the
\* extensions then under way says.  Neither a write that overtakes others, nor a sweep
\* that works with an old time, takes any of it back; a restart shortens it to the new
\* DCR_CLIENT_TTL at most, and never gives an expiry to a registration that had none.
LeaseKept == DOMAIN lease \subseteq Usable

\* "Active clients never expire mid-use" (SPEC.md:187): no sweep deletes a registration that
\* is valid.  SQLite's does: DeleteExpiredClients lists the expired ones and deletes them
\* one by one, and a TouchClient in between has extended one.
SweepSparesTheActive ==
    [][\A c \in DOMAIN clients : c \notin DOMAIN clients' =>
            ~ Valid(clients[c], now) \/ c \in revoked']_vars

\* What has expired is in the end removed, unless a late extension revives it, although
\* passes fail and processes die.
ExpiredAreReclaimed == []<>(Expired(now) = {})

=============================================================================
