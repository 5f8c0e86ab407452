---------------------------- MODULE OperatorAccount ----------------------------
(***************************************************************************)
(* The operator's account: the password login that creates it, the         *)
(* passkeys, the switch that turns the password off, and the OIDC login    *)
(* beside it.  A request is a series of repository calls, each a           *)
(* transaction of its own, and requests interleave between them.           *)
(*                                                                         *)
(* A wrong password, an assertion that does not verify and a provider that *)
(* fails end a request without a change and are left out; the lockout is   *)
(* in LoginLimits.  The number an authenticator signs with an assertion is *)
(* arbitrary: it may be a copy's, and some authenticators send 0 for ever. *)
(***************************************************************************)
EXTENDS Integers, OidcPolicy

CONSTANTS
    Request,        \* requests in flight
    UserId, Passkey, MaxCount,  \* bounds: account IDs, passkeys, sign counts
    Deployment,     \* the configurations to model: [backend, hashed, settings], a store
                    \*   ("kvs" for bbolt, "sql" for SQLite), whether a password is
                    \*   configured, and the OIDC settings, NoRules for no provider
    Identity        \* the accounts of the provider

VARIABLES
    conf,       \* the configuration of the running gateway
    users,      \* the stored accounts
    issued,     \* account IDs ever generated
    creds,      \* the stored passkeys: ID |-> [owner, count]
    enrolled,   \* passkeys ever created by an authenticator
    sessions,   \* the subjects of the cookie sessions that run
    req,        \* what each request is doing
    seen,       \* history: requests during which the password login was active at some instant
    deleted,    \* history: passkeys deleted while no enrolment of theirs was in flight
    floor,      \* history: the highest sign count accepted with no other request at the passkey
    settled     \* history: the account created while nobody else was creating one, or Nobody

vars == <<conf, users, issued, creds, enrolled, sessions, req, seen, deleted, floor, settled>>

Nobody == 0
NoKey == "none"
NoUser == [id |-> Nobody, disabled |-> FALSE]
User == [id : UserId, disabled : BOOLEAN]
Idle == [pc |-> "idle", subject |-> Nobody, user |-> NoUser, cred |-> NoKey, count |-> 0]

\* The settings page and the enrolment serve the "own" requests.
Req == [pc : {"idle", "create", "count", "granted", "own", "save", "delete", "add",
              "assert", "persist"},
        subject : {Nobody} \cup UserId \cup Identity,
        user : {NoUser} \cup User, cred : {NoKey} \cup Passkey, count : 0 .. MaxCount]

ASSUME OperatorAssumption ==
    /\ UserId \subseteq Nat \ {Nobody} /\ UserId \cap Identity = {}
    /\ NoKey \notin Passkey /\ MaxCount \in Nat
    /\ \A k \in Deployment :
         /\ k = [backend |-> k.backend, hashed |-> k.hashed, settings |-> k.settings]
         /\ k.settings = [users |-> k.settings.users, globs |-> k.settings.globs,
                          attributes |-> k.settings.attributes,
                          attributeGlobs |-> k.settings.attributeGlobs]

\* GetUser: SQLite's First is the least ID, and IDs are random; bbolt has one key.
Account == CHOOSE u \in users : \A v \in users : u.id <= v.id
PasskeysOf(id) == {c \in DOMAIN creds : creds[c].owner = id}

\* Faulty variant of IsPasswordLoginActive: the flag counts without a passkey, too.
IsPasswordLoginActiveByFlag(u, passkeys) == conf.hashed /\ ~u.disabled

\* Faulty variant of IsPasswordLoginActive: the flag is not looked at.
IsPasswordLoginActiveAlways(u, passkeys) == conf.hashed

IsPasswordLoginActive(u, passkeys) == conf.hashed /\ (~u.disabled \/ passkeys = {})

HasEnrolledPasskey == users # {} /\ PasskeysOf(Account.id) # {}
HasProvider(k) == k.settings # NoRules
CanLogIn ==
    \/ IF users = {} THEN conf.hashed ELSE IsPasswordLoginActive(Account, PasskeysOf(Account.id))
    \/ HasProvider(conf) \/ HasEnrolledPasskey

\* The rule of SPEC 1.12: the flag is honoured while a passkey exists.
PasswordOpen ==
    conf.hashed /\ ~(users # {} /\ Account.disabled /\ HasEnrolledPasskey)

\* newAuthRouter and NewOIDCProvider: what a gateway refuses to start with.
Starts(k) ==
    /\ HasProvider(k) => HasAllowRule(Provider(k.settings))
    /\ k.hashed \/ HasProvider(k) \/ HasEnrolledPasskey

TypeOK ==
    /\ conf \in Deployment
    /\ users \subseteq User /\ issued \subseteq UserId
    /\ \A u \in users : u.id \in issued
    /\ DOMAIN creds \subseteq enrolled /\ enrolled \subseteq Passkey
    /\ \A c \in DOMAIN creds : creds[c] \in [owner : issued, count : 0 .. MaxCount]
    /\ sessions \subseteq issued \cup Identity
    /\ req \in [Request -> Req]
    /\ seen \subseteq Request /\ deleted \subseteq enrolled
    /\ floor \in [Passkey -> 0 .. MaxCount]
    /\ settled \in {Nobody} \cup issued

Init ==
    /\ users = {} /\ issued = {} /\ creds = [c \in {} |-> NoKey] /\ enrolled = {}
    /\ conf \in {k \in Deployment : Starts(k)}
    /\ sessions = {}
    /\ req = [r \in Request |-> Idle]
    /\ seen = {} /\ deleted = {}
    /\ floor = [c \in Passkey |-> 0]
    /\ settled = Nobody

-----------------------------------------------------------------------------
(* Steps of a request.                                                     *)

store == <<users, issued, creds, enrolled>>
Goes(r, to) == req' = [req EXCEPT ![r] = to]
Ends(r) == Goes(r, Idle)

Granted(subject) == [Idle EXCEPT !.pc = "granted", !.subject = subject]

\* History: the requests that have seen the password login active.
Watches ==
    seen' = {r \in Request : req'[r].pc \in {"create", "count"} /\ (r \in seen \/ PasswordOpen')}

Unstored == UNCHANGED <<store, conf, sessions, deleted, floor, settled>> /\ Watches

(* The password login, from a password that matches a hash.                *)

\* Faulty variant of Bootstraps: any login with the password sets up the account.
BootstrapsAnew == users = {} \/ Account.disabled

Bootstraps == users = {}

\* ensureUser reads the account ...
PasswordLogin(r) ==
    /\ req[r].pc = "idle" /\ conf.hashed
    /\ Goes(r, IF Bootstraps THEN [Idle EXCEPT !.pc = "create"]
               ELSE [Idle EXCEPT !.pc = "count", !.user = Account])
    /\ Unstored

\* ... and creates it, when there was none ...
Creating(r) == \E g \in Request \ {r} : req[g].pc = "create"

\* bbolt has one key for the account, and the put overwrites; SQLite inserts a row.
CreateUser(r) ==
    /\ req[r].pc = "create"
    /\ \E id \in UserId \ issued :
         LET new == [id |-> id, disabled |-> FALSE] IN
         /\ users' = IF conf.backend = "kvs" THEN {new} ELSE users \cup {new}
         /\ issued' = issued \cup {id}
         /\ settled' = IF users = {} /\ ~Creating(r) THEN id ELSE settled
         /\ Goes(r, Granted(id))
    /\ UNCHANGED <<conf, creds, enrolled, sessions, deleted, floor>>
    /\ Watches

\* ... or counts its passkeys, by the ID it has read.
CountPasskeys(r) ==
    LET u == req[r].user IN
    /\ req[r].pc = "count"
    /\ IF IsPasswordLoginActive(u, PasskeysOf(u.id)) THEN Goes(r, Granted(u.id)) ELSE Ends(r)
    /\ Unstored

\* The session is the cookie of the response.
Respond(r) ==
    /\ req[r].pc = "granted"
    /\ sessions' = sessions \cup {req[r].subject}
    /\ Ends(r)
    /\ UNCHANGED <<store, conf, deleted, floor, settled>>
    /\ Watches

\* The provider's callback: the identity is looked up and judged at once.
OidcLogin(r) ==
    /\ req[r].pc = "idle" /\ HasProvider(conf)
    /\ \E i \in Identity : IsAllowed(Provider(conf.settings), i) /\ Goes(r, Granted(i))
    /\ Unstored

\* handleLogout, or the ten minutes of the cookie.
SessionEnds ==
    /\ \E s \in sessions : sessions' = sessions \ {s}
    /\ UNCHANGED <<store, conf, req, deleted, floor, settled>>
    /\ Watches

-----------------------------------------------------------------------------
(* The passkey login.                                                      *)

PasskeyLogin(r) ==
    /\ req[r].pc = "idle" /\ users # {}
    /\ Goes(r, [Idle EXCEPT !.pc = "assert", !.user = Account])
    /\ Unstored

\* Faulty variant of CloneWarning: a count that is not higher is taken as well.
CloneWarningNever(stored, signed) == FALSE

\* UpdateCounter of go-webauthn.
CloneWarning(stored, signed) == signed <= stored /\ (signed # 0 \/ stored # 0)

\* The credential is one of those just listed.
Asserts(r) ==
    LET u == req[r].user IN
    /\ req[r].pc = "assert"
    /\ \/ \E c \in PasskeysOf(u.id), n \in 0 .. MaxCount :
            /\ ~CloneWarning(creds[c].count, n)
            /\ Goes(r, [req[r] EXCEPT !.pc = "persist", !.cred = c, !.count = n])
       \/ Ends(r)
    /\ Unstored

Others(r, c) == \E g \in Request \ {r} : req[g].pc \in {"persist", "add"} /\ req[g].cred = c

\* Faulty variant of Updated: the update puts a deleted passkey back.
UpdatedOrInserted(c, record) ==
    [x \in DOMAIN creds \cup {c} |-> IF x = c THEN record ELSE creds[x]]

\* UpdateWebAuthnCredential writes the whole record, and refuses one that has gone.
Updated(c, record) == [x \in DOMAIN creds |-> IF x = c THEN record ELSE creds[x]]

Persist(r) ==
    LET q == req[r] IN
    /\ q.pc = "persist"
    /\ creds' = Updated(q.cred, [owner |-> q.user.id, count |-> q.count])
    /\ IF q.cred \in DOMAIN creds
       THEN /\ Goes(r, Granted(q.user.id))
            /\ floor' = [floor EXCEPT ![q.cred] =
                           IF Others(r, q.cred) THEN 0 ELSE IF q.count > @ THEN q.count ELSE @]
       ELSE Ends(r) /\ UNCHANGED floor
    /\ UNCHANGED <<conf, users, issued, enrolled, sessions, deleted, settled>>
    /\ Watches

-----------------------------------------------------------------------------
(* The settings page and the enrolment.                                    *)

\* requireOwnUser reads the account ...
OwnRequest(r) ==
    /\ req[r].pc = "idle" /\ users # {}
    /\ \E s \in sessions : Goes(r, [Idle EXCEPT !.pc = "own", !.subject = s, !.user = Account])
    /\ Unstored

\* The authenticator refuses when it holds one of the listed passkeys.  A request sent twice
\* carries the same ceremony and the same new passkey: the ceremony is in the cookie, and
\* the second is sent before the first has answered.
Enrollable(r) ==
    (Passkey \ enrolled) \cup {req[g].cred : g \in {f \in Request \ {r} : req[f].pc = "add"}}

\* ... and its passkeys; the session has to be the account's own.
OwnPasskeys(r) ==
    LET q == req[r]
        records == PasskeysOf(q.user.id)
        Picks(pc, c) == Goes(r, [q EXCEPT !.pc = pc, !.cred = c])
    IN
    /\ q.pc = "own"
    /\ \/ \E d \in BOOLEAN :
            /\ q.subject = q.user.id /\ (d => records # {})
            /\ Goes(r, [q EXCEPT !.pc = "save", !.user.disabled = d])
            /\ UNCHANGED enrolled
       \/ q.subject = q.user.id /\ UNCHANGED enrolled /\ \E c \in records : Picks("delete", c)
       \/ /\ q.subject = q.user.id
          /\ \E c \in Enrollable(r) : Picks("add", c) /\ enrolled' = enrolled \cup {c}
       \/ Ends(r) /\ UNCHANGED enrolled
    /\ UNCHANGED <<conf, users, issued, creds, sessions, deleted, floor, settled>>
    /\ Watches

\* UpdateUser writes the whole record; SQLite matches it by ID, bbolt has the one.
SavePassword(r) ==
    LET u == req[r].user IN
    /\ req[r].pc = "save"
    /\ users' = IF conf.backend = "kvs" THEN {u}
                ELSE {IF v.id = u.id THEN u ELSE v : v \in users}
    /\ Ends(r)
    /\ UNCHANGED <<conf, issued, creds, enrolled, sessions, deleted, floor, settled>>
    /\ Watches

DeletePasskey(r) ==
    LET c == req[r].cred IN
    /\ req[r].pc = "delete"
    /\ creds' = [x \in DOMAIN creds \ {c} |-> creds[x]]
    /\ deleted' = IF \E g \in Request : req[g].pc = "add" /\ req[g].cred = c
                  THEN deleted ELSE deleted \cup {c}
    /\ Ends(r)
    /\ UNCHANGED <<conf, users, issued, enrolled, sessions, floor, settled>>
    /\ Watches

\* AddWebAuthnCredential: bbolt overwrites a passkey it already has, SQLite refuses.
AddPasskey(r) ==
    LET q == req[r] IN
    /\ q.pc = "add"
    /\ IF conf.backend = "sql" /\ q.cred \in DOMAIN creds THEN UNCHANGED <<creds, floor>>
       ELSE /\ creds' = UpdatedOrInserted(q.cred, [owner |-> q.user.id, count |-> 0])
            /\ floor' = [floor EXCEPT ![q.cred] = 0]
    /\ Ends(r)
    /\ UNCHANGED <<conf, users, issued, enrolled, sessions, deleted, settled>>
    /\ Watches

-----------------------------------------------------------------------------
(* Failures and restarts.                                                  *)

\* The store fails and the request with it, before its next write.
StoreFails(r) ==
    /\ req[r].pc \notin {"idle", "granted"}
    /\ Ends(r)
    /\ Unstored

\* A crash or a stop, and a start, perhaps with the password taken out or put in.
Restart ==
    /\ \E h \in BOOLEAN : LET k == [conf EXCEPT !.hashed = h] IN
         k \in Deployment /\ Starts(k) /\ conf' = k
    /\ req' = [r \in Request |-> Idle]
    /\ UNCHANGED <<store, sessions, deleted, floor, settled>>
    /\ Watches

Next ==
    \/ \E r \in Request :
         \/ PasswordLogin(r) \/ CreateUser(r) \/ CountPasskeys(r) \/ Respond(r)
         \/ OidcLogin(r) \/ PasskeyLogin(r) \/ Asserts(r) \/ Persist(r)
         \/ OwnRequest(r) \/ OwnPasskeys(r) \/ SavePassword(r) \/ DeletePasskey(r) \/ AddPasskey(r)
         \/ StoreFails(r)
    \/ SessionEnds \/ Restart

Spec == Init /\ [][Next]_vars

-----------------------------------------------------------------------------
(* Properties.                                                             *)

\* A request that may still replace the account GetUser returns: a bootstrap that has found
\* none, and on bbolt, where there is one key, a save of the account it has replaced.
Replacing(r) ==
    \/ req[r].pc = "create"
    \/ conf.backend = "kvs" /\ req[r].pc \in {"own", "save"} /\ req[r].user.id # Account.id

\* There is an account for ever once there is one, and only such a request replaces it, by
\* its own step.  When the last of them is over, however many first logins overlapped and
\* however many accounts they have created, no later bootstrap, save, failure or restart
\* replaces or shadows it (ensureUser, CreateUser, UpdateUser, GetUser).
AccountIsForLife ==
    [][users # {} =>
         /\ users' # {}
         /\ Account'.id = Account.id \/ \E r \in Request : Replacing(r) /\ req'[r] # req[r]
         /\ (\A r \in Request : ~Replacing(r)) => (\A r \in Request : ~Replacing(r)')]_vars

\* A deleted passkey stays deleted: no login that had listed it, and no save, brings it
\* back (DeleteWebAuthnCredential against persistUsedCredential's whole-record update).
DeletedPasskeysStayDeleted == deleted \cap DOMAIN creds = {}

\* The stored sign count never falls below one that was accepted, unless two requests were
\* at the same passkey: the counter is read and written in two transactions.
SignCountIsKept == \A c \in DOMAIN creds : creds[c].count >= floor[c]

\* A password login is granted only if the password was active at some instant of the
\* request, though the flag and the passkeys are read one after the other (ensureUser).
\* Overlapping bootstraps may leave several accounts, and then the one that was read is
\* not always the one that counts.
PasswordLoginsWereAllowed ==
    [][\A r \in Request :
         /\ req[r].pc = "create" \/ (req[r].pc = "count" /\ settled # Nobody)
         /\ req'[r].pc = "granted"
         => r \in seen \/ PasswordOpen]_vars

\* An operator who can log in loses that only by deleting the last passkey of a gateway
\* without a password: no toggle, login, enrolment, failure or restart does it
\* (isPasswordLoginActive, newAuthRouter).
LockedOutByOwnHandOnly ==
    [][CanLogIn => \/ CanLogIn'
                   \/ ~conf'.hashed /\ conf' = conf /\ DOMAIN creds' # DOMAIN creds]_vars

\* The accounts some rule of the settings names.
Admitted(s) ==
    LET holding(k, values) == {i \in Identity : Attribute(i, k) \cap values # {}} IN
    UNION ({s.users} \cup (s.globs \ {EmptyPattern})
             \cup {holding(k, s.attributes[k]) : k \in DOMAIN s.attributes}
             \cup UNION {{holding(k, g) : g \in s.attributeGlobs[k] \ {EmptyPattern}} :
                            k \in DOMAIN s.attributeGlobs})

\* Only identities that a rule names have a session: an empty list or a blank pattern admits
\* nobody (NewOIDCProvider, isAllowed).
OnlyTheAllowedEnter == sessions \cap Identity \subseteq Admitted(conf.settings)

\* What the comment of isPasswordLoginActive says: "the operator can never lock themselves
\* out entirely".
NeverLockedOut == CanLogIn
================================================================================
