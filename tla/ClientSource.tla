----------------------------- MODULE ClientSource ------------------------------
(***************************************************************************)
(* Where the authorize and token endpoints get a client from: a client ID  *)
(* that is a URL is resolved through a cache, any other is looked up among *)
(* the registrations, of which ClientRegistry says how long they last.     *)
(*                                                                         *)
(* A request looks the cache up under the lock, fetches without it, and    *)
(* stores what it got, a failure too, under the lock again; so several     *)
(* requests fetch the same URL, and store their results in any order.      *)
(*                                                                         *)
(* Times are relative, so the clock needs no bound: an entry carries how   *)
(* long it is still good for, a request how long it has been at it.        *)
(***************************************************************************)
EXTENDS ClientMetadata, Integers, FiniteSets, Functions

CONSTANTS
    Handler,    \* requests that need a client
    Url,        \* client IDs that are URLs
    Page,       \* what a URL may be answered with: [addr, status, size, doc]
    Application,    \* registration requests, as documents that carry the ID they are given
    Redirect,   \* what authorize requests send as redirect_uri
    MaxSize, CacheTTL, NegativeTTL, FetchTimeout, MaxEntries,
    Failure

ASSUME ResolverAssumption ==
    /\ IsFiniteSet(Handler) /\ IsFiniteSet(Url)
    /\ CacheTTL \in Nat \ {0} /\ NegativeTTL \in Nat \ {0}
    /\ FetchTimeout \in Nat /\ MaxEntries \in Nat \ {0} /\ MaxSize \in Nat

VARIABLES
    cache,  \* URL |-> [client, left, age]
    store,  \* ID |-> registered client
    req     \* what each request is doing

vars == <<cache, store, req>>

\* What a fetch makes of a page.
Fetched(url, page) ==
    IF /\ ValidClientIDURL(url)
       /\ page.addr \notin NonPublic /\ page.status = 200 /\ page.size <= MaxSize
       /\ ValidDocument(url, page.doc)
    THEN Narrowed(page.doc) ELSE Failure

StoredId == {d.id : d \in Application}
Client == {Fetched(u, p) : u \in Url, p \in Page}
            \cup {Registered(d) : d \in Application} \cup {Failure}

\* Pages hold documents, and a generated ID is no URL: GetClient tells the two apart by
\* the scheme.
ASSUME DocumentAssumption ==
    /\ \A doc \in {p.doc : p \in Page} \cup Application : IsDocument(doc)
    /\ StoredId \cap Url = {}

Lifetime(client) == IF client = Failure THEN NegativeTTL ELSE CacheTTL
Longest == IF CacheTTL >= NegativeTTL THEN CacheTTL ELSE NegativeTTL

\* `age` is history: how long ago the page was read; it is not kept past the expiry.
Entry == [client: Client, left: 0 .. Longest, age: 0 .. FetchTimeout + Longest]
Idle == [pc |-> "idle"]
Request == [pc: {"fetching", "fetched", "answered"}, id: Url \cup StoredId, waited: 0 .. FetchTimeout,
            client: Client, age: 0 .. FetchTimeout + Longest]

TypeOK ==
    /\ DOMAIN cache \subseteq Url /\ \A u \in DOMAIN cache : cache[u] \in Entry
    /\ DOMAIN store \subseteq StoredId /\ \A i \in DOMAIN store : store[i] \in Client
    /\ req \in [Handler -> Request \cup {Idle}]

Init ==
    /\ cache = [u \in {} |-> Failure]
    /\ store = [i \in {} |-> Failure]
    /\ req = [h \in Handler |-> Idle]

-----------------------------------------------------------------------------
\* Faulty variant of Live: the expiry of a failure is not looked at.
LiveOrFailed == {u \in DOMAIN cache : cache[u].left > 0 \/ cache[u].client = Failure}

Live == {u \in DOMAIN cache : cache[u].left > 0}
With(f, u, e) == [x \in DOMAIN f \cup {u} |-> IF x = u THEN e ELSE f[x]]
Answer(u, client, age) ==
    [pc |-> "answered", id |-> u, waited |-> 0, client |-> client, age |-> age]

Miss(h, u) ==
    /\ req[h] = Idle /\ u \notin Live
    /\ req' = [req EXCEPT ![h] = [pc |-> "fetching", id |-> u, waited |-> 0,
                                  client |-> Failure, age |-> 0]]
    /\ UNCHANGED <<cache, store>>

\* Faulty variant of Hit: an answer from the cache renews the entry.
HitRenews(h, u) ==
    /\ req[h] = Idle /\ u \in Live
    /\ req' = [req EXCEPT ![h] = Answer(u, cache[u].client, cache[u].age)]
    /\ cache' = [cache EXCEPT ![u].left = Lifetime(cache[u].client)]
    /\ UNCHANGED store

Hit(h, u) ==
    /\ req[h] = Idle /\ u \in Live
    /\ req' = [req EXCEPT ![h] = Answer(u, cache[u].client, cache[u].age)]
    /\ UNCHANGED <<cache, store>>

\* The page is read; what it says may have changed since the last time.
Fetch(h) ==
    /\ req[h].pc = "fetching"
    /\ \E p \in Page :
        req' = [req EXCEPT ![h].pc = "fetched", ![h].client = Fetched(req[h].id, p)]
    /\ UNCHANGED <<cache, store>>

\* The timeout, a network error, or the request's own client has hung up.
FetchFails(h) ==
    /\ req[h].pc = "fetching"
    /\ req' = [req EXCEPT ![h].pc = "fetched"]
    /\ UNCHANGED <<cache, store>>

\* What the cache keeps when a new URL comes to a full one: expired entries are purged,
\* and if that makes no room an arbitrary entry goes.
Survivors ==
    IF Cardinality(Live) < MaxEntries THEN {Live}
    ELSE {kept \in SUBSET Live : Cardinality(kept) = MaxEntries - 1}

\* Faulty variant of Room: the entry that makes room is chosen before the purge.
RoomWithoutPurge(u) ==
    IF u \in DOMAIN cache \/ Cardinality(DOMAIN cache) < MaxEntries THEN {DOMAIN cache}
    ELSE {kept \in SUBSET DOMAIN cache : Cardinality(kept) = MaxEntries - 1}

\* Faulty variant of Room: the purge alone is relied upon to make room.
RoomByPurge(u) ==
    IF u \in DOMAIN cache \/ Cardinality(DOMAIN cache) < MaxEntries THEN {DOMAIN cache}
    ELSE {Live}

Room(u) ==
    IF u \in DOMAIN cache \/ Cardinality(DOMAIN cache) < MaxEntries THEN {DOMAIN cache}
    ELSE Survivors

\* The result replaces whatever is cached, newer or not.
Store(h) ==
    LET u == req[h].id  c == req[h].client IN
    /\ req[h].pc = "fetched"
    /\ \E kept \in Room(u) :
        cache' = With(Restrict(cache, kept), u,
                      [client |-> c, left |-> Lifetime(c), age |-> req[h].age])
    /\ req' = [req EXCEPT ![h] = Answer(u, c, req[h].age)]
    /\ UNCHANGED store

Return(h) ==
    /\ req[h].pc = "answered"
    /\ req' = [req EXCEPT ![h] = Idle]
    /\ UNCHANGED <<cache, store>>

\* A fetch never takes longer than FetchTimeout, its result not long to be stored.
Tick ==
    /\ \A h \in Handler : req[h].pc \in {"fetching", "fetched"} => req[h].waited < FetchTimeout
    /\ cache' = [u \in DOMAIN cache |->
            IF cache[u].left <= 1 THEN [client |-> cache[u].client, left |-> 0, age |-> 0]
            ELSE [cache[u] EXCEPT !.left = @ - 1, !.age = @ + 1]]
    /\ req' = [h \in Handler |->
            CASE req[h].pc = "fetching" -> [req[h] EXCEPT !.waited = @ + 1]
              [] req[h].pc = "fetched" -> [req[h] EXCEPT !.waited = @ + 1, !.age = @ + 1]
              [] OTHER -> req[h]]
    /\ UNCHANGED store

-----------------------------------------------------------------------------
(* Registrations.                                                          *)

Register(doc) ==
    /\ ValidRegistration(doc) /\ doc.id \notin DOMAIN store
    /\ store' = With(store, doc.id, Registered(doc))
    /\ UNCHANGED <<cache, req>>

\* It expires or is revoked.
Forget(i) ==
    /\ i \in DOMAIN store
    /\ store' = Restrict(store, DOMAIN store \ {i})
    /\ UNCHANGED <<cache, req>>

LookupStored(h, i) ==
    /\ req[h] = Idle
    /\ req' = [req EXCEPT ![h] = Answer(i, IF i \in DOMAIN store THEN store[i] ELSE Failure, 0)]
    /\ UNCHANGED <<cache, store>>

-----------------------------------------------------------------------------
Next ==
    \/ \E h \in Handler, u \in Url : Miss(h, u) \/ Hit(h, u)
    \/ \E h \in Handler : Fetch(h) \/ FetchFails(h) \/ Store(h) \/ Return(h)
    \/ Tick
    \/ \E doc \in Application : Register(doc)
    \/ \E i \in StoredId : Forget(i) \/ \E h \in Handler : LookupStored(h, i)

Spec == Init /\ [][Next]_vars

\* Time passes, fetches end by themselves or by the timeout, and handlers run on.
FairSpec ==
    /\ Spec /\ WF_vars(Tick)
    /\ \A h \in Handler : WF_vars(Fetch(h) \/ FetchFails(h)) /\ WF_vars(Store(h)) /\ WF_vars(Return(h))

-----------------------------------------------------------------------------
(* Properties.                                                             *)

Answered(h) == req[h].pc = "answered"

\* A flood of client IDs does not make the cache grow.
CacheBounded == Cardinality(DOMAIN cache) <= MaxEntries

\* No answer is older than its lifetime and one fetch, in whatever order concurrent
\* fetches of the URL stored their results and however often the entry was used.
AnswersAreFresh ==
    \A h \in Handler :
        Answered(h) => req[h].age < FetchTimeout + Lifetime(req[h].client)

\* A client is what the document under its own ID declares, be it resolved or registered:
\* nothing this server does not support, nothing the document does not ask for, no more
\* redirect URIs, and no secret for a client that keeps its document on the web.
Documents == {p.doc : p \in {q \in Page : q.addr \notin NonPublic}} \cup Application
ClientsGetWhatTheyDeclare ==
    \A h \in Handler : Answered(h) /\ req[h].client # Failure =>
        LET c == req[h].client IN
        /\ c.id = req[h].id /\ c.redirects # {} /\ c.grants # {} /\ c.responses # {}
        /\ c.id \in Url => c.auth \in {"", "none"}
        /\ \E doc \in Documents :
            /\ doc.id = c.id /\ doc.redirects = c.redirects
            /\ c.grants \subseteq Grants(doc) \cap SupportedGrants
            /\ c.responses \subseteq Responses(doc) \cap SupportedResponses

\* The authorize endpoint sends a client's codes to no other machine than the client's own
\* document or registration says, whichever requests fetched or replaced it: a redirect URI
\* that is not listed is accepted only if it is a plain-HTTP address of this machine, and
\* the document lists that path of the same loopback address, or of "localhost" with plain
\* HTTP.  The rest may differ: see OnlyThePortMayDiffer.
OnThisMachine(uri) == uri.scheme = "http" /\ uri.host \in LocalhostSpelling \cup LoopbackIP
SamePlace(listed, uri) ==
    /\ listed.path = uri.path
    /\ \/ listed.host = uri.host /\ uri.host \in LoopbackIP
       \/ listed.scheme = "http" /\ listed.host = "localhost" /\ uri.host \in LocalhostSpelling
RedirectsStayDeclared ==
    \A h \in Handler : Answered(h) /\ req[h].client # Failure =>
        \A requested \in Redirect : AcceptsRedirect(req[h].client, requested) =>
            \E doc \in Documents : doc.id = req[h].id /\ \E listed \in doc.redirects :
                /\ ValidRedirect(listed)
                /\ \/ listed = requested
                   \/ OnThisMachine(requested) /\ SamePlace(listed, requested)

\* "Every component other than the port must be identical" (pkg/idp/loopback.go:31), the
\* host up to case (loopback_test.go:31).  The code does not keep to it: the user
\* information is not compared, nor how the path is escaped.
OnlyThePortMayDiffer ==
    \A h \in Handler : Answered(h) /\ req[h].client # Failure =>
        \A requested \in Redirect :
            AcceptsRedirect(req[h].client, requested) /\ requested.host \in LocalhostSpelling =>
                \E r \in req[h].client.redirects :
                    r = [requested EXCEPT !.port = r.port, !.host = r.host]

\* An entry that is still good is displaced only by one new entry at a time, and only
\* if every other entry is good as well.
EvictionIsLast ==
    [][\A u \in Live : u \notin DOMAIN cache' =>
            /\ Live = DOMAIN cache /\ Cardinality(Live) = MaxEntries
            /\ Live \ DOMAIN cache' = {u}]_vars

\* A failure is not held against a URL for ever: once its fetches succeed, its requests
\* are in the end answered with a client, however many of them come in the meantime.
FailuresAreForgotten ==
    \A u \in Url :
        <>[][\A h \in Handler : req[h].pc = "fetching" /\ req[h].id = u /\ req'[h].pc = "fetched"
                => req'[h].client # Failure]_vars
        => <>[](\A h \in Handler : Answered(h) /\ req[h].id = u => req[h].client # Failure)

=============================================================================
