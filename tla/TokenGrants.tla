------------------------------ MODULE TokenGrants ------------------------------
(***************************************************************************)
(* The life of an authorization in the gateway: the authorize request, the *)
(* consent POST, the code exchange, the refresh, RFC 7009 revocation, the  *)
(* operator's kill switches and the expiry sweeper, all working on the     *)
(* session records of pkg/repository.                                      *)
(*                                                                         *)
(* Every repository call commits a transaction of its own, so a handler is *)
(* a chain of steps and any other handler may run between two of them; a   *)
(* step of a handler is one repository call.  The OAuth engine (fosite) is *)
(* not part of the repository: the order in which its flows call the store *)
(* is modelled from the storage interface pkg/repository implements.       *)
(***************************************************************************)
EXTENDS Integers

CONSTANTS
    Grant,      \* authorize-request IDs; an ID is also the request ID of its tokens
    NoGrant,    \* "no record loaded yet"
    Client,
    ClientOf,   \* the client that sent an authorize request
    Dcr,        \* the clients that hold a stored registration; the others are CIMD
    Proc,       \* concurrent HTTP handlers
    Backend,    \* "kvs" (bbolt) or "sql" (SQLite)
    AccessTTL, RefreshTTL, CodeTTL, Skew,
    MaxTime, MaxCodes, MaxTokens        \* bounds of the model

ASSUME GrantAssumption ==
    /\ NoGrant \notin Grant
    /\ ClientOf \in [Grant -> Client]
    /\ Dcr \subseteq Client
ASSUME BackendAssumption == Backend \in {"kvs", "sql"}
ASSUME TimeAssumption ==
    /\ AccessTTL \in Nat /\ RefreshTTL \in Nat /\ CodeTTL \in Nat /\ Skew \in Nat
    /\ MaxTime \in Nat /\ MaxCodes \in Nat /\ MaxTokens \in Nat

VARIABLES
    now,        \* the wall clock
    authReqs, codes, pkces, access, refresh,    \* the five kinds of session record
    registration, \* the state of each DCR registration
    used,       \* authorize-request IDs handed out
    bound,      \* IDs some session cookie of the operator carries
    sentCodes,  \* codes a client received
    held,       \* token pairs a client received
    nextCode, nextToken,    \* fresh signatures
    proc,       \* the handlers in flight
    sweep,      \* the sweeper's pass
    \* history, read by the properties alone
    spent,      \* codes whose PKCE session an exchange deleted
    redeemed,   \* codes that reached issuance
    killed,     \* grants an operator revoke named
    dead,       \* ... while no handler was writing for them
    surrendered \* grants a client revoked (RFC 7009) while nothing was pending

records == <<authReqs, codes, pkces, access, refresh>>
ids     == <<used, bound, sentCodes, held, nextCode, nextToken>>
history == <<spent, redeemed, killed, dead, surrendered>>
vars    == <<now, records, registration, ids, proc, sweep, history>>

-----------------------------------------------------------------------------
(* Types.  `stamp` is the time the sweeper compares with its cutoff.       *)

AuthReqRec == [grant: Grant, stamp: Nat]
CodeRec    == [sig: Nat, grant: Grant, stamp: Nat, exp: Nat]
PkceRec    == [sig: Nat, grant: Grant, stamp: Nat]
AccessRec  == [sig: Nat, grant: Grant, stamp: Nat, exp: Nat]
RefreshRec == [sig: Nat, grant: Grant, stamp: Nat, exp: Nat, rotated: BOOLEAN]
Ticket     == [sig: Nat, grant: Grant]

ConsentPC  == {"c_code", "c_pkce", "c_done", "c_fail"}
RedeemPC   == {"x_code", "x_pkce", "x_burn", "x_again", "x_inval"}
RefreshPC  == {"r_load", "r_get", "r_put"}
MintPC     == {"m_access", "m_refresh", "m_reply"}
RevokePC   == {"v_refresh", "v_access"}
RegState   == {"live", "expired", "gone"}
SweepPC    == {"off", "access", "refresh", "code", "pkce", "areq"}

\* What a handler has loaded so far: the grant, the code or token signature it
\* works on, the RequestedAt of its request and the time from which the expiries it
\* set on the session count.
\* `tainted` is history: a redemption that began after the code's PKCE session was
\* consumed, or a revocation that failed half way or met a pending handler.
Handler == [pc: {"idle"} \cup ConsentPC \cup RedeemPC \cup RefreshPC \cup MintPC \cup RevokePC,
            grant: Grant \cup {NoGrant}, key: Nat, at: Nat, from: Nat, tainted: BOOLEAN]

Idle == [pc |-> "idle", grant |-> NoGrant, key |-> 0, at |-> 0, from |-> 0, tainted |-> FALSE]
SweepOff == [pc |-> "off", at |-> 0]

TypeOK ==
    /\ now \in Nat
    /\ authReqs \subseteq AuthReqRec
    /\ codes \subseteq CodeRec
    /\ pkces \subseteq PkceRec
    /\ access \subseteq AccessRec
    /\ refresh \subseteq RefreshRec
    /\ registration \in [Dcr -> RegState]
    /\ used \subseteq Grant /\ bound \subseteq used
    /\ sentCodes \subseteq Ticket /\ held \subseteq Ticket
    /\ nextCode \in Nat /\ nextToken \in Nat
    /\ proc \in [Proc -> Handler]
    /\ sweep \in [pc: SweepPC, at: Nat]
    /\ spent \subseteq Nat /\ redeemed \subseteq Nat
    /\ killed \subseteq used /\ dead \subseteq killed /\ surrendered \subseteq used

-----------------------------------------------------------------------------
(* Reading the store. *)

\* bbolt sweeps by the request's own RequestedAt, SQLite by the row's created_at.
Stamp(requestedAt) == IF Backend = "kvs" THEN requestedAt ELSE now

\* GetClient: CIMD clients are resolved from the web, the others need a registration.
ClientFound(c) == c \in Dcr => registration[c] = "live"

Expired(r) == r.exp < now

\* handleProxy: the JWT has not expired (with leeway) and its record exists.
ProxyAccepts(sig) == \E a \in access : a.sig = sig /\ now < a.exp + Skew

At(p, pc) == proc[p].pc = pc

\* The handlers that may still write a record of grant g: it was loaded from a
\* record and the chain that ends in a new one is not over.
Writing(p, g) ==
    /\ proc[p].grant = g
    /\ proc[p].pc \in (ConsentPC \cup RedeemPC \cup RefreshPC \cup MintPC)
                        \ {"c_done", "c_fail", "m_reply"}
Pending(g) == \E p \in Proc : Writing(p, g)

RecordsOf(g) ==
    {r \in authReqs : r.grant = g} \cup {r \in codes : r.grant = g}
        \cup {r \in pkces : r.grant = g} \cup {r \in access : r.grant = g}
        \cup {r \in refresh : r.grant = g}

-----------------------------------------------------------------------------
Init ==
    /\ now = 0
    /\ authReqs = {} /\ codes = {} /\ pkces = {} /\ access = {} /\ refresh = {}
    /\ registration = [c \in Dcr |-> "live"]
    /\ used = {} /\ bound = {} /\ sentCodes = {} /\ held = {}
    /\ nextCode = 0 /\ nextToken = 0
    /\ proc = [p \in Proc |-> Idle]
    /\ sweep = SweepOff
    /\ spent = {} /\ redeemed = {} /\ killed = {} /\ dead = {} /\ surrendered = {}

Tick ==
    /\ now < MaxTime
    /\ now' = now + 1
    /\ UNCHANGED <<records, registration, ids, proc, sweep, history>>

\* A registration runs out: GetClient no longer finds it, the record is still there ...
RegistrationExpires(c) ==
    /\ c \in Dcr /\ registration[c] = "live"
    /\ registration' = [registration EXCEPT ![c] = "expired"]
    /\ UNCHANGED <<now, records, ids, proc, sweep, history>>

\* ... until DeleteExpiredClients takes it.
RegistrationSwept(c) ==
    /\ c \in Dcr /\ registration[c] = "expired"
    /\ registration' = [registration EXCEPT ![c] = "gone"]
    /\ UNCHANGED <<now, records, ids, proc, sweep, history>>

-----------------------------------------------------------------------------
(* The authorization endpoint and the consent POST. *)

\* handleAuth.  When the session cookie cannot be saved the record is deleted
\* again, and that deletion may fail too.
Authorize(g) ==
    /\ g \notin used /\ ClientFound(ClientOf[g])
    /\ used' = used \cup {g}
    /\ \/ authReqs' = authReqs \cup {[grant |-> g, stamp |-> now]} /\ bound' = bound \cup {g}
       \/ authReqs' \in {authReqs, authReqs \cup {[grant |-> g, stamp |-> now]}} /\ bound' = bound
    /\ UNCHANGED <<now, codes, pkces, access, refresh, registration, sentCodes, held,
                   nextCode, nextToken, proc, sweep, history>>

\* Faulty variant of ConsentLoad: the cookie's ID is taken for the stored record.
ConsentLoadTrustsCookie(p, g) ==
    /\ At(p, "idle") /\ g \in bound
    /\ proc' = [proc EXCEPT ![p] = [Idle EXCEPT !.pc = "c_code", !.grant = g, !.at = now]]
    /\ UNCHANGED <<now, records, registration, ids, sweep, history>>

\* hasAuthorizeRequestID, then GetAuthorizeRequest.  The cookie lives in the
\* browser, so any cookie that once carried the ID may be presented again.
ConsentLoad(p, g) ==
    /\ At(p, "idle") /\ g \in bound
    /\ \E r \in authReqs :
          /\ r.grant = g
          /\ proc' = [proc EXCEPT ![p] = [Idle EXCEPT !.pc = "c_code", !.grant = g, !.at = r.stamp]]
    /\ UNCHANGED <<now, records, registration, ids, sweep, history>>

\* NewAuthorizeResponse: CreateAuthorizeCodeSession with the loaded request, whose
\* RequestedAt is that of the GET; the code's lifetime starts now.
ConsentCode(p) ==
    /\ At(p, "c_code") /\ nextCode < MaxCodes
    /\ codes' = codes \cup {[sig |-> nextCode, grant |-> proc[p].grant,
                             stamp |-> Stamp(proc[p].at), exp |-> now + CodeTTL]}
    /\ nextCode' = nextCode + 1
    /\ proc' = [proc EXCEPT ![p].pc = "c_pkce", ![p].key = nextCode]
    /\ UNCHANGED <<now, authReqs, pkces, access, refresh, registration, used, bound,
                   sentCodes, held, nextToken, sweep, history>>

\* ... and CreatePKCERequestSession under the code's signature.
ConsentPKCE(p) ==
    /\ At(p, "c_pkce")
    /\ pkces' = pkces \cup {[sig |-> proc[p].key, grant |-> proc[p].grant,
                             stamp |-> Stamp(proc[p].at)]}
    /\ proc' = [proc EXCEPT ![p].pc = "c_done"]
    /\ UNCHANGED <<now, authReqs, codes, access, refresh, registration, ids, sweep, history>>

\* A store error ends the response early; the deferred delete still runs.
ConsentFails(p) ==
    /\ proc[p].pc \in {"c_code", "c_pkce"}
    /\ proc' = [proc EXCEPT ![p].pc = "c_fail"]
    /\ UNCHANGED <<now, records, registration, ids, sweep, history>>

\* The redirect carries the code unless the cookie could not be saved; the deferred
\* DeleteAuthorizeRequest, whose failure is only logged, runs before the handler returns
\* and the short response leaves its buffer, so the two are one step.
ConsentDone(p) ==
    /\ proc[p].pc \in {"c_done", "c_fail"}
    /\ authReqs' \in {authReqs, {r \in authReqs : r.grant # proc[p].grant}}
    /\ \/ At(p, "c_done")
          /\ sentCodes' = sentCodes \cup {[sig |-> proc[p].key, grant |-> proc[p].grant]}
       \/ sentCodes' = sentCodes
    /\ proc' = [proc EXCEPT ![p] = Idle]
    /\ UNCHANGED <<now, codes, pkces, access, refresh, registration, used, bound, held,
                   nextCode, nextToken, sweep, history>>

-----------------------------------------------------------------------------
(* The token endpoint, grant_type=authorization_code. *)

\* A store error, a failed check or a client that hangs up: the handler answers
\* with an error and what it wrote so far stays.
Abort(p) ==
    /\ proc[p].pc \in (RedeemPC \cup RefreshPC \cup MintPC) \ {"m_reply"}
    /\ proc' = [proc EXCEPT ![p] = Idle]
    /\ UNCHANGED <<now, records, registration, ids, sweep, history>>

\* NewAccessRequest authenticates the client and stamps RequestedAt.
RedeemStart(p, c) ==
    /\ At(p, "idle") /\ c \in sentCodes /\ ClientFound(ClientOf[c.grant])
    /\ proc' = [proc EXCEPT ![p] = [Idle EXCEPT !.pc = "x_code", !.key = c.sig, !.at = now,
                                                !.tainted = (c.sig \in spent)]]
    /\ UNCHANGED <<now, records, registration, ids, sweep, history>>

\* Faulty variant of RedeemLoad: the request does not take over the ID of the grant.
RedeemLoadKeepsOwnId(p) ==
    /\ At(p, "x_code")
    /\ \E r \in codes : r.sig = proc[p].key /\ ~Expired(r)
    /\ proc' = [proc EXCEPT ![p].pc = "x_pkce", ![p].from = now]
    /\ UNCHANGED <<now, records, registration, ids, sweep, history>>

\* GetAuthorizeCodeSession; the session gets its token expiries.
RedeemLoad(p) ==
    /\ At(p, "x_code")
    /\ \E r \in codes :
          /\ r.sig = proc[p].key /\ ~Expired(r)
          /\ proc' = [proc EXCEPT ![p].pc = "x_pkce", ![p].grant = r.grant,
                                  ![p].from = now]
    /\ UNCHANGED <<now, records, registration, ids, sweep, history>>

\* GetPKCERequestSession: no record, no redemption (EnforcePKCE).
RedeemPKCE(p) ==
    /\ At(p, "x_pkce")
    /\ \E r \in pkces : r.sig = proc[p].key
    /\ proc' = [proc EXCEPT ![p].pc = "x_burn"]
    /\ UNCHANGED <<now, records, registration, ids, sweep, history>>

\* Faulty variant of RedeemBurn: the PKCE session outlives the exchange.
RedeemBurnKeepsPKCE(p) ==
    /\ At(p, "x_burn")
    /\ spent' = spent \cup {proc[p].key}
    /\ proc' = [proc EXCEPT ![p].pc = "x_again"]
    /\ UNCHANGED <<now, records, registration, ids, sweep, redeemed, killed, dead, surrendered>>

\* DeletePKCERequestSession comes before the verifier is compared, so a wrong
\* verifier (Abort at x_again) uses the code up.
RedeemBurn(p) ==
    /\ At(p, "x_burn")
    /\ pkces' = {r \in pkces : r.sig # proc[p].key}
    /\ spent' = spent \cup {proc[p].key}
    /\ proc' = [proc EXCEPT ![p].pc = "x_again"]
    /\ UNCHANGED <<now, authReqs, codes, access, refresh, registration, ids, sweep,
                   redeemed, killed, dead, surrendered>>

\* NewAccessResponse loads and validates the code a second time ...
RedeemAgain(p) ==
    /\ At(p, "x_again")
    /\ \E r \in codes : r.sig = proc[p].key /\ ~Expired(r)
    /\ proc' = [proc EXCEPT ![p].pc = "x_inval"]
    /\ UNCHANGED <<now, records, registration, ids, sweep, history>>

\* ... and InvalidateAuthorizeCodeSession deletes the record, or finds it gone.
RedeemInvalidate(p) ==
    /\ At(p, "x_inval")
    /\ codes' = {r \in codes : r.sig # proc[p].key}
    /\ redeemed' = redeemed \cup {proc[p].key}
    /\ proc' = [proc EXCEPT ![p].pc = "m_access"]
    /\ UNCHANGED <<now, authReqs, pkces, access, refresh, registration, ids, sweep,
                   spent, killed, dead, surrendered>>

-----------------------------------------------------------------------------
(* grant_type=refresh_token. *)

RefreshStart(p, t) ==
    /\ At(p, "idle") /\ t \in held /\ ClientFound(ClientOf[t.grant])
    /\ proc' = [proc EXCEPT ![p] = [Idle EXCEPT !.pc = "r_load", !.key = t.sig, !.at = now]]
    /\ UNCHANGED <<now, records, registration, ids, sweep, history>>

\* GetRefreshTokenSession returns the record whether or not RotatedAt is set.
RefreshLoad(p) ==
    /\ At(p, "r_load")
    /\ \E r \in refresh :
          /\ r.sig = proc[p].key /\ ~Expired(r)
          /\ proc' = [proc EXCEPT ![p].pc = "r_get", ![p].grant = r.grant,
                                  ![p].from = now]
    /\ UNCHANGED <<now, records, registration, ids, sweep, history>>

\* RotateRefreshToken reads the record in one transaction ...
RotateGet(p) ==
    /\ At(p, "r_get")
    /\ \E r \in refresh : r.sig = proc[p].key
    /\ proc' = [proc EXCEPT ![p].pc = "r_put"]
    /\ UNCHANGED <<now, records, registration, ids, sweep, history>>

\* ... and writes RotatedAt in another.  bbolt refuses to update a record that has
\* gone in between; the SQL UPDATE then matches no row and reports success.
RotatePut(p) ==
    /\ At(p, "r_put")
    /\ Backend = "kvs" => \E r \in refresh : r.sig = proc[p].key
    /\ refresh' = {[r EXCEPT !.rotated = @ \/ r.sig = proc[p].key] : r \in refresh}
    /\ proc' = [proc EXCEPT ![p].pc = "m_access"]
    /\ UNCHANGED <<now, authReqs, codes, pkces, access, registration, ids, sweep, history>>

-----------------------------------------------------------------------------
(* Issuance, shared by both grants: one transaction per record. *)

\* CreateAccessTokenSession.  The JWT is signed before, from the session's expiry.
MintAccess(p) ==
    /\ At(p, "m_access") /\ nextToken < MaxTokens
    /\ access' = access \cup {[sig |-> nextToken, grant |-> proc[p].grant,
                               stamp |-> Stamp(proc[p].at),
                               exp |-> proc[p].from + AccessTTL]}
    /\ nextToken' = nextToken + 1
    /\ proc' = [proc EXCEPT ![p].pc = "m_refresh", ![p].key = nextToken]
    /\ UNCHANGED <<now, authReqs, codes, pkces, refresh, registration, used, bound,
                   sentCodes, held, nextCode, sweep, history>>

\* CreateRefreshTokenSession, under the same request ID.
MintRefresh(p) ==
    /\ At(p, "m_refresh")
    /\ refresh' = refresh \cup {[sig |-> proc[p].key, grant |-> proc[p].grant,
                                 stamp |-> Stamp(proc[p].at),
                                 exp |-> proc[p].from + RefreshTTL,
                                 rotated |-> FALSE]}
    /\ proc' = [proc EXCEPT ![p].pc = "m_reply"]
    /\ UNCHANGED <<now, authReqs, codes, pkces, access, registration, ids, sweep, history>>

\* TouchClient extends the registration, also one that has run out meanwhile; then the
\* response goes out, or is lost on the way.
Reply(p) ==
    /\ At(p, "m_reply")
    /\ LET c == ClientOf[proc[p].grant]
       IN  \/ UNCHANGED registration
           \/ /\ c \in Dcr /\ registration[c] # "gone"
              /\ registration' = [registration EXCEPT ![c] = "live"]
    /\ held' \in {held, held \cup {[sig |-> proc[p].key, grant |-> proc[p].grant]}}
    /\ proc' = [proc EXCEPT ![p] = Idle]
    /\ UNCHANGED <<now, records, used, bound, sentCodes, nextCode, nextToken, sweep, history>>

-----------------------------------------------------------------------------
(* RFC 7009: the client revokes a grant it holds a token of. *)

\* The token is looked up among the refresh and the access tokens; an unknown one
\* is answered with 200 and changes nothing.
RevokeLoad(p, t) ==
    /\ At(p, "idle") /\ t \in held /\ ClientFound(ClientOf[t.grant])
    /\ \E r \in refresh \cup access : r.sig = t.sig
    /\ proc' = [proc EXCEPT ![p] = [Idle EXCEPT !.pc = "v_refresh", !.grant = t.grant]]
    /\ UNCHANGED <<now, records, registration, ids, sweep, history>>

\* Something besides the token records could still bring tokens of g.
Revivable(g) ==
    \/ Pending(g)
    \/ \E r \in authReqs \cup codes : r.grant = g

\* RevokeRefreshToken, then RevokeAccessToken, also when the first one failed.
RevokeRefresh(p) ==
    /\ At(p, "v_refresh")
    /\ \/ /\ refresh' = {r \in refresh : r.grant # proc[p].grant}
          /\ proc' = [proc EXCEPT ![p].pc = "v_access",
                                  ![p].tainted = Revivable(proc[p].grant)]
       \/ /\ refresh' = refresh
          /\ proc' = [proc EXCEPT ![p].pc = "v_access", ![p].tainted = TRUE]
    /\ UNCHANGED <<now, authReqs, codes, pkces, access, registration, ids, sweep, history>>

\* Faulty variant of RevokeAccess: the request ID is taken for a record's key, which
\* is the signature; nothing is deleted and the call succeeds.
RevokeAccessByKey(p) ==
    /\ At(p, "v_access")
    /\ surrendered' = IF proc[p].tainted THEN surrendered
                                         ELSE surrendered \cup {proc[p].grant}
    /\ proc' = [proc EXCEPT ![p] = Idle]
    /\ UNCHANGED <<now, records, registration, ids, sweep, spent, redeemed, killed, dead>>

RevokeAccess(p) ==
    /\ At(p, "v_access")
    /\ \/ /\ access' = {r \in access : r.grant # proc[p].grant}
          /\ surrendered' = IF proc[p].tainted THEN surrendered
                                               ELSE surrendered \cup {proc[p].grant}
       \/ UNCHANGED <<access, surrendered>>
    /\ proc' = [proc EXCEPT ![p] = Idle]
    /\ UNCHANGED <<now, authReqs, codes, pkces, refresh, registration, ids, sweep,
                   spent, redeemed, killed, dead>>

-----------------------------------------------------------------------------
(* The operator's revokes: one transaction over every kind of record. *)

\* Faulty variant of Kill: pending authorize requests, which have a record type of
\* their own, are left out.
KillSparesRequests(S) ==
    /\ codes'    = {r \in codes : r.grant \notin S}
    /\ pkces'    = {r \in pkces : r.grant \notin S}
    /\ access'   = {r \in access : r.grant \notin S}
    /\ refresh'  = {r \in refresh : r.grant \notin S}
    /\ killed'   = killed \cup S
    /\ dead'     = dead \cup {g \in S : ~Pending(g)}
    /\ UNCHANGED <<now, authReqs, ids, proc, sweep, spent, redeemed, surrendered>>

Kill(S) ==
    /\ authReqs' = {r \in authReqs : r.grant \notin S}
    /\ codes'    = {r \in codes : r.grant \notin S}
    /\ pkces'    = {r \in pkces : r.grant \notin S}
    /\ access'   = {r \in access : r.grant \notin S}
    /\ refresh'  = {r \in refresh : r.grant \notin S}
    /\ killed'   = killed \cup S
    /\ dead'     = dead \cup {g \in S : ~Pending(g)}
    /\ UNCHANGED <<now, ids, proc, sweep, spent, redeemed, surrendered>>

RevokeGrant(g) ==
    /\ g \in used
    /\ Kill({g})
    /\ UNCHANGED registration

RevokeClient(c) ==
    /\ Kill({g \in used : ClientOf[g] = c})
    /\ registration' = [d \in Dcr |-> IF d = c THEN "gone" ELSE registration[d]]

RevokeAll ==
    /\ Kill(used)
    /\ registration' = [d \in Dcr |-> "gone"]

-----------------------------------------------------------------------------
(* The sweeper: DeleteExpiredSessions, one transaction per kind of record, with *)
(* the cutoffs fixed when the pass begins.  The first failure ends the pass.    *)

TTLOf(kind) == CASE kind = "access"  -> AccessTTL
                 [] kind = "refresh" -> RefreshTTL
                 [] OTHER            -> CodeTTL

\* Faulty variant of Stale: no margin for the leeway tokens are accepted with.
StaleWithoutMargin(r, kind) == r.stamp + TTLOf(kind) < sweep.at

Stale(r, kind) == r.stamp + TTLOf(kind) + Skew < sweep.at

\* Faulty variant of NextKind: the PKCE sessions are left out of the pass.
NextKindSkipsPKCE == [access |-> "refresh", refresh |-> "code", code |-> "areq",
                      pkce |-> "areq", areq |-> "off"]

NextKind == [access |-> "refresh", refresh |-> "code", code |-> "pkce",
             pkce |-> "areq", areq |-> "off"]

\* Before the first cutoff lies after time 0 a pass finds nothing.
SweepStart ==
    /\ sweep.pc = "off"
    /\ \E kind \in {"access", "refresh", "code"} : TTLOf(kind) + Skew < now
    /\ sweep' = [pc |-> "access", at |-> now]
    /\ UNCHANGED <<now, records, registration, ids, proc, history>>

Sweep(kind) ==
    /\ sweep.pc = kind
    /\ authReqs' = IF kind = "areq" THEN {r \in authReqs : ~Stale(r, kind)} ELSE authReqs
    /\ codes'    = IF kind = "code" THEN {r \in codes : ~Stale(r, kind)} ELSE codes
    /\ pkces'    = IF kind = "pkce" THEN {r \in pkces : ~Stale(r, kind)} ELSE pkces
    /\ access'   = IF kind = "access" THEN {r \in access : ~Stale(r, kind)} ELSE access
    /\ refresh'  = IF kind = "refresh" THEN {r \in refresh : ~Stale(r, kind)} ELSE refresh
    /\ sweep' = IF kind = "areq" THEN SweepOff ELSE [sweep EXCEPT !.pc = NextKind[kind]]
    /\ UNCHANGED <<now, registration, ids, proc, history>>

SweepFails ==
    /\ sweep.pc # "off"
    /\ sweep' = SweepOff
    /\ UNCHANGED <<now, records, registration, ids, proc, history>>

\* The process dies; what was committed stays.
Crash ==
    /\ proc' = [p \in Proc |-> Idle]
    /\ sweep' = SweepOff
    /\ UNCHANGED <<now, records, registration, ids, history>>

-----------------------------------------------------------------------------
ConsentStep(p) ==
    \/ \E g \in Grant : ConsentLoad(p, g)
    \/ ConsentCode(p) \/ ConsentPKCE(p) \/ ConsentFails(p) \/ ConsentDone(p)

RedeemStep(p) ==
    \/ \E c \in sentCodes : RedeemStart(p, c)
    \/ RedeemLoad(p) \/ RedeemPKCE(p) \/ RedeemBurn(p) \/ RedeemAgain(p)
    \/ RedeemInvalidate(p)

RefreshStep(p) ==
    \/ \E t \in held : RefreshStart(p, t)
    \/ RefreshLoad(p) \/ RotateGet(p) \/ RotatePut(p)

RevokeStep(p) ==
    \/ \E t \in held : RevokeLoad(p, t)
    \/ RevokeRefresh(p) \/ RevokeAccess(p)

HandlerStep(p) ==
    \/ ConsentStep(p) \/ RedeemStep(p) \/ RefreshStep(p) \/ RevokeStep(p)
    \/ MintAccess(p) \/ MintRefresh(p) \/ Reply(p) \/ Abort(p)

Next ==
    \/ Tick
    \/ \E c \in Client : RegistrationExpires(c) \/ RegistrationSwept(c) \/ RevokeClient(c)
    \/ \E g \in Grant : Authorize(g) \/ RevokeGrant(g)
    \/ RevokeAll
    \/ \E p \in Proc : HandlerStep(p)
    \/ SweepStart \/ SweepFails
    \/ \E kind \in SweepPC \ {"off"} : Sweep(kind)
    \/ Crash

Spec == Init /\ [][Next]_vars

\* The ticker of startSweeper fires again and again, and no table fails for ever: a
\* pass that failed half way is followed by one that gets further.
FairSpec ==
    /\ Spec
    /\ WF_vars(Tick) /\ WF_vars(SweepStart)
    /\ \A kind \in SweepPC \ {"off"} : SF_vars(Sweep(kind))

-----------------------------------------------------------------------------
(* Properties. *)

\* An operator revoke that meets no handler in the middle of a write is final: the
\* grant never has a record again, of any kind (revoke in kvs_inventory.go and
\* sql_inventory.go sweeps all five kinds because one left behind turns into a token).
KilledGrantsStayDead == \A g \in dead : RecordsOf(g) = {}

\* A client's RFC 7009 revocation that answered success, with no exchange, code or
\* consent pending for the grant, leaves no token of the grant and none comes later
\* (RevokeRefreshToken and RevokeAccessToken are two transactions).
SurrenderedGrantsHoldNoToken ==
    \A g \in surrendered : \A r \in access \cup refresh : r.grant # g

\* Once an exchange has deleted a code's PKCE session, an exchange of the same code
\* that begins later never reaches issuance, whatever the first one went on to do.
LateRedemptionFails ==
    \A p \in Proc : proc[p].tainted => proc[p].pc \notin {"x_burn", "x_again", "x_inval"} \cup MintPC

\* The handlers and the sweeper together implement the promise of GrantPresence: a
\* record of a grant is written only by a handler that found one before.
Presence == INSTANCE GrantPresence WITH
    issued  <- used,
    present <- {g \in Grant : RecordsOf(g) # {}},
    busy    <- {g \in Grant : Pending(g)}
ImplementsGrantPresence == Presence!Spec

\* The sweeper reclaims storage only: what it deletes no handler would accept any
\* more (kvs.go and sql_sessions.go, DeleteExpiredSessions).
SweepTakesOnlyExpired ==
    [][\A kind \in SweepPC \ {"off"} : Sweep(kind) =>
          /\ \A r \in codes \ codes' : Expired(r)
          /\ \A r \in access \ access' : r.exp + Skew <= now
          /\ \A r \in refresh \ refresh' : Expired(r)]_vars

\* Whatever fails or crashes in between, every record past its lifetime is reclaimed
\* (startSweeper: one failing table ends DeleteExpiredSessions, not the sweeper).
Overdue(S, kind) == {r \in S : r.stamp + TTLOf(kind) + Skew < now}
ExpiredRecordsAreReclaimed ==
    []<>(Overdue(access, "access") \cup Overdue(refresh, "refresh") \cup Overdue(codes, "code")
            \cup Overdue(pkces, "pkce") \cup Overdue(authReqs, "areq") = {})

-----------------------------------------------------------------------------
(* What the documentation says and the code does not keep. *)

\* SPEC.md 1.6: a refresh token that was rotated is refused.  RotateRefreshToken sets
\* RotatedAt, which GetRefreshTokenSession does not look at.
RotatedRefreshTokenIsRefused ==
    [][\A p \in Proc : RefreshLoad(p) =>
          \A r \in refresh : r.sig = proc[p].key => ~r.rotated]_vars

\* SPEC.md 1.5: a code is single-use, consumed on the first exchange.  Two exchanges
\* may both pass the PKCE lookup and the second code lookup before either deletes.
CodeIsSingleUse ==
    [][\A p \in Proc : RedeemInvalidate(p) => proc[p].key \notin redeemed]_vars

\* SPEC.md 1.12: a revoke ends access at once.  A handler that loaded the grant before
\* the revoke may still write an access record after it.
RevokeEndsAccess == \A g \in killed : \A r \in access : r.grant = g => ~ProxyAccepts(r.sig)

\* SPEC.md 2.1: an authorize request that has expired is treated as absent even before
\* the sweeper takes it.  GetAuthorizeRequest does not look at its age.
ExpiredAuthorizeRequestIsAbsent ==
    [][\A p \in Proc, g \in Grant : ConsentLoad(p, g) =>
          \A r \in authReqs : r.grant = g => now <= r.stamp + CodeTTL]_vars

=============================================================================
