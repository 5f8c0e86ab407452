--------------------------- MODULE ClientSourceProofs ---------------------------
(***************************************************************************)
(* What holds of ClientSource for every set of URLs, pages, registrations  *)
(* and requests, and all lifetimes and sizes of the cache.                 *)
(***************************************************************************)
EXTENDS ClientSource, FiniteSetTheorems, TLAPS

\* An entry that is still good was read no longer ago than its fetch and the part of its
\* lifetime that is over.
EntriesFresh ==
    \A u \in DOMAIN cache : cache[u].left > 0 =>
        cache[u].age + cache[u].left <= FetchTimeout + Lifetime(cache[u].client)

\* A request resolves a URL, and what it fetched is no older than its wait.
RequestsFresh ==
    \A h \in Handler :
        /\ req[h].pc \in {"fetching", "fetched"} => req[h].id \in Url
        /\ req[h].pc = "fetching" => req[h].age = 0
        /\ req[h].pc = "fetched" => req[h].age <= req[h].waited
        /\ Answered(h) => req[h].age < FetchTimeout + Lifetime(req[h].client)

SourceInv == TypeOK /\ EntriesFresh /\ RequestsFresh

-----------------------------------------------------------------------------
(* Types and ages.  TypeOK bounds the ages and is not inductive without them.    *)

\* Every lifetime is positive and no longer than the longest.
LEMMA LifetimePositive ==
  ASSUME NEW c
  PROVE  /\ Lifetime(c) \in Nat \ {0} /\ Lifetime(c) <= Longest
         /\ Longest \in Nat \ {0} /\ FetchTimeout \in Nat
  BY ResolverAssumption DEF Lifetime, Longest

\* What a fetch makes of a page is a client or a failure.
LEMMA FetchedTyped ==
  ASSUME NEW u \in Url, NEW p \in Page PROVE Fetched(u, p) \in Client
  BY DEF Client

\* A request whose fetch ended is one with another phase and client.
LEMMA FetchedRequest ==
  ASSUME NEW q \in Request, NEW c \in Client
  PROVE  LET r == [q EXCEPT !.pc = "fetched", !.client = c]
         IN  /\ r \in Request /\ r.pc = "fetched" /\ r.id = q.id /\ r.age = q.age
             /\ r.waited = q.waited /\ r.waited >= 0
<1> DEFINE s == [q EXCEPT !.pc = "fetched"]
           r == [s EXCEPT !.client = c]
<1>1. /\ s \in Request /\ s.pc = "fetched" /\ s.id = q.id /\ s.age = q.age
      /\ s.waited = q.waited /\ s.waited >= 0
  BY LifetimePositive DEF Request
<1> HIDE DEF s
<1>2. /\ r \in Request /\ r.pc = s.pc /\ r.id = s.id /\ r.age = s.age /\ r.waited = s.waited
  BY <1>1 DEF Request
<1> QED
  BY <1>1, <1>2 DEF s

\* One request moves on; the cache stays.
LEMMA RequestMove ==
  ASSUME SourceInv, NEW h \in Handler, NEW r \in Request \cup {Idle},
         req' = [req EXCEPT ![h] = r], UNCHANGED cache,
         DOMAIN store' \subseteq StoredId, \A i \in DOMAIN store' : store'[i] \in Client,
         r.pc \in {"fetching", "fetched"} => r.id \in Url,
         r.pc = "fetching" => r.age = 0,
         r.pc = "fetched" => r.age <= r.waited,
         r.pc = "answered" => r.age < FetchTimeout + Lifetime(r.client)
  PROVE  SourceInv'
<1>1. \A k \in Handler : req'[k] = IF k = h THEN r ELSE req[k]
  BY DEF SourceInv, TypeOK
<1>2. TypeOK'
  BY DEF SourceInv, TypeOK
<1>3. RequestsFresh'
  BY <1>1 DEF SourceInv, RequestsFresh, Answered
<1> QED
  BY <1>2, <1>3 DEF SourceInv, EntriesFresh

\* The start and the end of a request, and its fetch.
LEMMA FetchKeeps ==
  ASSUME SourceInv, NEW h \in Handler,
         \/ \E u \in Url : Miss(h, u) \/ Hit(h, u)
         \/ Fetch(h) \/ FetchFails(h) \/ Return(h)
         \/ \E i \in StoredId : LookupStored(h, i)
  PROVE  SourceInv'
<1>1. req \in [Handler -> Request \cup {Idle}] /\ req[h] \in Request \cup {Idle}
  BY DEF SourceInv, TypeOK
<1>2. ASSUME NEW u \in Url, Miss(h, u) PROVE SourceInv'
  <2> DEFINE r == [pc |-> "fetching", id |-> u, waited |-> 0, client |-> Failure, age |-> 0]
  <2>1. r \in Request
    BY LifetimePositive DEF Request, Client
  <2> QED
    BY <1>2, <2>1, RequestMove DEF Miss, SourceInv, TypeOK
<1>3. ASSUME NEW u \in Url, Hit(h, u) PROVE SourceInv'
  <2> DEFINE r == Answer(u, cache[u].client, cache[u].age)
  <2>1. cache[u] \in Entry /\ cache[u].left > 0 /\ u \in DOMAIN cache
    BY <1>3 DEF Hit, Live, SourceInv, TypeOK
  <2>2. r \in Request /\ r.pc = "answered" /\ r.age = cache[u].age /\ r.client = cache[u].client
    BY <2>1, LifetimePositive DEF Answer, Request, Entry
  <2>3. cache[u].age < FetchTimeout + Lifetime(cache[u].client)
    <3>1. cache[u].age \in Nat /\ cache[u].left \in Nat
      BY <2>1, LifetimePositive DEF Entry
    <3> QED
      BY <2>1, <3>1, LifetimePositive DEF SourceInv, EntriesFresh
  <2> HIDE DEF r
  <2> QED
    BY <1>3, <2>2, <2>3, RequestMove DEF Hit, SourceInv, TypeOK, r
<1>4. CASE Fetch(h)
  <2>1. req[h] \in Request /\ req[h].pc = "fetching" /\ req[h].id \in Url /\ req[h].age = 0
    <3>1. req[h].pc = "fetching"
      BY <1>4 DEF Fetch
    <3> QED
      BY <1>1, <3>1 DEF Idle, SourceInv, RequestsFresh
  <2>2. PICK c \in Client : req' = [req EXCEPT ![h] = [req[h] EXCEPT !.pc = "fetched", !.client = c]]
    <3>1. PICK p \in Page :
            req' = [req EXCEPT ![h].pc = "fetched", ![h].client = Fetched(req[h].id, p)]
      BY <1>4 DEF Fetch
    <3>2. Fetched(req[h].id, p) \in Client
      BY <2>1, FetchedTyped
    <3> QED
      BY <3>1, <3>2
  <2> DEFINE r == [req[h] EXCEPT !.pc = "fetched", !.client = c]
  <2>3. /\ r \in Request /\ r.pc = "fetched" /\ r.id = req[h].id /\ r.age = req[h].age
        /\ r.waited = req[h].waited /\ r.waited >= 0
    BY <2>1, FetchedRequest
  <2> HIDE DEF r
  <2> QED
    BY <1>4, <2>1, <2>2, <2>3, RequestMove DEF Fetch, SourceInv, TypeOK, r
<1>5. CASE FetchFails(h)
  <2> DEFINE r == [req[h] EXCEPT !.pc = "fetched"]
  <2>1. req[h] \in Request /\ req[h].pc = "fetching" /\ req[h].id \in Url /\ req[h].age = 0
    BY <1>1, <1>5 DEF FetchFails, Idle, SourceInv, RequestsFresh
  <2>2. /\ r \in Request /\ r.pc = "fetched" /\ r.id = req[h].id /\ r.age = req[h].age
        /\ r.waited = req[h].waited /\ r.waited >= 0
    BY <2>1, LifetimePositive DEF Request
  <2> HIDE DEF r
  <2> QED
    BY <1>5, <2>1, <2>2, RequestMove DEF FetchFails, SourceInv, TypeOK, r
<1>6. CASE Return(h)
  BY <1>6, RequestMove DEF Return, Idle, SourceInv, TypeOK
<1>7. ASSUME NEW i \in StoredId, LookupStored(h, i) PROVE SourceInv'
  <2> DEFINE c == IF i \in DOMAIN store THEN store[i] ELSE Failure
             r == Answer(i, c, 0)
  <2>1. c \in Client
    BY DEF Client, SourceInv, TypeOK
  <2> HIDE DEF c
  <2>2. r \in Request /\ r.pc = "answered" /\ r.age = 0 /\ r.client = c
    BY <2>1, LifetimePositive DEF Answer, Request
  <2>3. 0 < FetchTimeout + Lifetime(c)
    BY LifetimePositive
  <2> HIDE DEF r
  <2> QED
    BY <1>7, <2>2, <2>3, RequestMove DEF LookupStored, SourceInv, TypeOK, r, c
<1> QED
  BY <1>2, <1>3, <1>4, <1>5, <1>6, <1>7

\* What Room leaves in the cache was there before.
LEMMA RoomKeeps ==
  ASSUME NEW u, NEW kept \in Room(u) PROVE kept \subseteq DOMAIN cache
  BY DEF Room, Survivors, Live

\* A result stored is at most as old as its fetch.
LEMMA StoreKeeps ==
  ASSUME SourceInv, NEW h \in Handler, Store(h) PROVE SourceInv'
<1> DEFINE u == req[h].id
           c == req[h].client
           e == [client |-> c, left |-> Lifetime(c), age |-> req[h].age]
<1>1. req[h] \in Request /\ req[h].pc = "fetched" /\ u \in Url /\ req[h].age <= req[h].waited
  BY DEF Store, Idle, SourceInv, TypeOK, RequestsFresh
<1>2. /\ c \in Client /\ req[h].age \in 0 .. FetchTimeout
      /\ req[h].age < FetchTimeout + Lifetime(c)
  BY <1>1, LifetimePositive DEF Request
<1>3. e \in Entry /\ e.age + e.left <= FetchTimeout + Lifetime(e.client)
  BY <1>2, LifetimePositive DEF Entry
<1>4. PICK kept \in Room(u) : cache' = With(Restrict(cache, kept), u, e)
  BY DEF Store
<1>5. /\ DOMAIN cache' = kept \cup {u}
      /\ \A x \in DOMAIN cache' : cache'[x] = IF x = u THEN e ELSE cache[x]
  BY <1>4 DEF With, Restrict
<1>6. kept \subseteq DOMAIN cache
  BY RoomKeeps
<1> DEFINE r == Answer(u, c, req[h].age)
<1>7. r \in Request /\ r.pc = "answered" /\ r.age = req[h].age /\ r.client = c
  BY <1>1, <1>2, LifetimePositive DEF Answer, Request
<1>8. req' = [req EXCEPT ![h] = r] /\ UNCHANGED store
  BY DEF Store
<1> HIDE DEF u, c, e, r
<1>9. req' \in [Handler -> Request \cup {Idle}]
      /\ \A k \in Handler : req'[k] = IF k = h THEN r ELSE req[k]
  BY <1>7, <1>8 DEF SourceInv, TypeOK
<1>10. TypeOK'
  BY <1>1, <1>3, <1>5, <1>6, <1>8, <1>9 DEF SourceInv, TypeOK
<1>11. EntriesFresh'
  BY <1>3, <1>5, <1>6 DEF SourceInv, EntriesFresh
<1>12. RequestsFresh'
  BY <1>2, <1>7, <1>9 DEF SourceInv, RequestsFresh, Answered
<1> QED
  BY <1>10, <1>11, <1>12 DEF SourceInv

\* Time takes from what is left what it adds to the age.
LEMMA TickKeeps == SourceInv /\ Tick => SourceInv'
<1> SUFFICES ASSUME SourceInv, Tick PROVE SourceInv'
  OBVIOUS
<1>1. DOMAIN cache' = DOMAIN cache /\ UNCHANGED store
  BY DEF Tick
<1>2. ASSUME NEW u \in DOMAIN cache
      PROVE  /\ cache'[u] \in Entry
             /\ cache'[u].left > 0 =>
                  cache'[u].age + cache'[u].left <= FetchTimeout + Lifetime(cache'[u].client)
  <2>1. cache[u] \in Entry /\ cache[u].left \in Nat /\ cache[u].age \in Nat
    BY LifetimePositive DEF SourceInv, TypeOK, Entry
  <2>2. CASE cache[u].left <= 1
    <3>1. cache'[u] = [client |-> cache[u].client, left |-> 0, age |-> 0]
      BY <2>2 DEF Tick
    <3> QED
      BY <2>1, <3>1, LifetimePositive DEF Entry
  <2>3. CASE cache[u].left > 1
    <3>1. cache'[u] = [cache[u] EXCEPT !.left = @ - 1, !.age = @ + 1]
      <4>1. cache'[u] = IF cache[u].left <= 1
                        THEN [client |-> cache[u].client, left |-> 0, age |-> 0]
                        ELSE [cache[u] EXCEPT !.left = @ - 1, !.age = @ + 1]
        BY DEF Tick
      <4> QED
        BY <2>1, <2>3, <4>1
    <3>2. /\ cache'[u].client = cache[u].client
          /\ cache'[u].left = cache[u].left - 1 /\ cache'[u].age = cache[u].age + 1
          /\ cache'[u] = [client |-> cache[u].client, left |-> cache[u].left - 1,
                          age |-> cache[u].age + 1]
      BY <2>1, <3>1 DEF Entry
    <3>3. cache[u].age + cache[u].left <= FetchTimeout + Lifetime(cache[u].client)
      BY <2>1, <2>3 DEF SourceInv, EntriesFresh
    <3>4. cache[u].client \in Client /\ cache[u].left <= Longest
      BY <2>1, LifetimePositive DEF Entry
    <3> QED
      BY <2>1, <2>3, <3>2, <3>3, <3>4, LifetimePositive DEF Entry
  <2> QED
    BY <2>1, <2>2, <2>3
<1>3. ASSUME NEW h \in Handler
      PROVE  /\ req'[h] \in Request \cup {Idle}
             /\ req'[h].pc \in {"fetching", "fetched"} => req'[h].id \in Url
             /\ req'[h].pc = "fetching" => req'[h].age = 0
             /\ req'[h].pc = "fetched" => req'[h].age <= req'[h].waited
             /\ req'[h].pc = "answered" =>
                  req'[h].age < FetchTimeout + Lifetime(req'[h].client)
  <2>1. req[h] \in Request \cup {Idle}
    BY DEF SourceInv, TypeOK
  <2>2. CASE req[h].pc = "fetching"
    <3>1. req'[h] = [req[h] EXCEPT !.waited = @ + 1] /\ req[h].waited < FetchTimeout
      BY <2>2 DEF Tick
    <3>2. req[h] \in Request /\ req[h].id \in Url /\ req[h].age = 0
      BY <2>1, <2>2 DEF Idle, SourceInv, RequestsFresh
    <3> QED
      BY <2>2, <3>1, <3>2, LifetimePositive DEF Request
  <2>3. CASE req[h].pc = "fetched"
    <3>1. req'[h] = [req[h] EXCEPT !.waited = @ + 1, !.age = @ + 1] /\ req[h].waited < FetchTimeout
      BY <2>3 DEF Tick
    <3>2. req[h] \in Request /\ req[h].id \in Url /\ req[h].age <= req[h].waited
      BY <2>1, <2>3 DEF Idle, SourceInv, RequestsFresh
    <3>3. req'[h] = [pc |-> "fetched", id |-> req[h].id, waited |-> req[h].waited + 1,
                     client |-> req[h].client, age |-> req[h].age + 1]
      BY <2>3, <3>1, <3>2 DEF Request
    <3>4. /\ req[h].waited + 1 \in 0 .. FetchTimeout
          /\ req[h].age + 1 \in 0 .. FetchTimeout + Longest
          /\ req[h].client \in Client
      BY <3>1, <3>2, LifetimePositive DEF Request
    <3>5. req[h].age + 1 <= req[h].waited + 1
      BY <3>2, LifetimePositive DEF Request
    <3> QED
      BY <3>2, <3>3, <3>4, <3>5 DEF Request
  <2>4. CASE req[h].pc \notin {"fetching", "fetched"}
    <3>1. req'[h] = req[h]
      BY <2>4 DEF Tick
    <3> QED
      BY <2>1, <2>4, <3>1 DEF SourceInv, RequestsFresh, Answered
  <2> QED
    BY <2>2, <2>3, <2>4
<1>4. req' \in [Handler -> Request \cup {Idle}]
  <2>1. req' = [h \in Handler |-> req'[h]]
    BY DEF Tick
  <2> QED
    BY <1>3, <2>1
<1>5. TypeOK'
  BY <1>1, <1>2, <1>4 DEF SourceInv, TypeOK
<1>6. EntriesFresh'
  BY <1>1, <1>2 DEF EntriesFresh
<1>7. RequestsFresh'
  BY <1>3 DEF RequestsFresh, Answered
<1> QED
  BY <1>5, <1>6, <1>7 DEF SourceInv

\* Registrations leave the cache and the requests alone.
LEMMA RegisterKeeps ==
  ASSUME SourceInv, \/ \E doc \in Application : Register(doc)
                    \/ \E i \in StoredId : Forget(i)
  PROVE  SourceInv'
<1>1. DOMAIN store' \subseteq StoredId /\ \A i \in DOMAIN store' : store'[i] \in Client
  <2>1. ASSUME NEW doc \in Application, Register(doc)
        PROVE  DOMAIN store' \subseteq StoredId /\ \A i \in DOMAIN store' : store'[i] \in Client
    BY <2>1 DEF Register, With, StoredId, Client, SourceInv, TypeOK
  <2>2. ASSUME NEW i \in StoredId, Forget(i)
        PROVE  DOMAIN store' \subseteq StoredId /\ \A k \in DOMAIN store' : store'[k] \in Client
    BY <2>2 DEF Forget, Restrict, SourceInv, TypeOK
  <2> QED
    BY <2>1, <2>2
<1>2. UNCHANGED <<cache, req>>
  BY DEF Register, Forget
<1> QED
  BY <1>1, <1>2 DEF SourceInv, TypeOK, EntriesFresh, RequestsFresh, Answered

\* SourceInv is inductive.
LEMMA SourceInvStep == SourceInv /\ [Next]_vars => SourceInv'
<1>1. SourceInv /\ UNCHANGED vars => SourceInv'
  BY DEF vars, SourceInv, TypeOK, EntriesFresh, RequestsFresh, Answered
<1> QED
  BY <1>1, FetchKeeps, StoreKeeps, TickKeeps, RegisterKeeps DEF Next

\* Nothing is cached and nobody asks at the start.
LEMMA SourceInvInit == Init => SourceInv
  BY DEF Init, SourceInv, TypeOK, EntriesFresh, RequestsFresh, Answered, Idle

\* Cache, registrations and requests are well typed, and nothing is kept longer than its
\* lifetime.
THEOREM SourceTyped == Spec => [](TypeOK /\ EntriesFresh /\ RequestsFresh)
  BY SourceInvInit, SourceInvStep, PTL DEF Spec, SourceInv

\* No answer is older than its lifetime and one fetch, for any number of concurrent
\* requests, in whatever order they store their results.
THEOREM AnswersStayFresh == Spec => []AnswersAreFresh
<1>1. TypeOK /\ EntriesFresh /\ RequestsFresh => AnswersAreFresh
  BY DEF RequestsFresh, AnswersAreFresh
<1> QED
  BY <1>1, SourceTyped, PTL

-----------------------------------------------------------------------------
(* A client is what the document under its own ID declares.                      *)

\* What resolving a URL may give: a failure, or the narrowed document some public page
\* holds under that very URL.
Resolved(u, c) ==
    \/ c = Failure
    \/ \E p \in Page : p.addr \notin NonPublic /\ ValidDocument(u, p.doc) /\ c = Narrowed(p.doc)

\* What looking up a registration may give.
Enrolled(i, c) ==
    \E doc \in Application : ValidRegistration(doc) /\ doc.id = i /\ c = Registered(doc)

\* The cache, the registrations and the requests hold nothing else.
ClientInv ==
    /\ \A u \in DOMAIN cache : Resolved(u, cache[u].client)
    /\ \A i \in DOMAIN store : Enrolled(i, store[i])
    /\ \A h \in Handler :
         /\ req[h].pc \in {"fetching", "fetched"} => Resolved(req[h].id, req[h].client)
         /\ Answered(h) => \/ Resolved(req[h].id, req[h].client)
                           \/ Enrolled(req[h].id, req[h].client)

\* One request moves on.
LEMMA ClientMove ==
  ASSUME SourceInv, ClientInv, NEW h \in Handler, NEW r, req' = [req EXCEPT ![h] = r],
         UNCHANGED <<cache, store>>,
         r.pc \in {"fetching", "fetched"} => Resolved(r.id, r.client),
         r.pc = "answered" => Resolved(r.id, r.client) \/ Enrolled(r.id, r.client)
  PROVE  ClientInv'
<1>1. \A k \in Handler : req'[k] = IF k = h THEN r ELSE req[k]
  BY DEF SourceInv, TypeOK
<1> QED
  BY <1>1 DEF ClientInv, Answered

\* ClientInv is inductive: a page is checked against the URL it was fetched for before
\* anything of it is kept.
LEMMA ClientInvStep == SourceInv /\ ClientInv /\ [Next]_vars => ClientInv'
<1> SUFFICES ASSUME SourceInv, ClientInv, [Next]_vars PROVE ClientInv'
  OBVIOUS
<1>0. req \in [Handler -> Request \cup {Idle}]
  BY DEF SourceInv, TypeOK
<1>1. ASSUME NEW h \in Handler, NEW u \in Url, Miss(h, u) PROVE ClientInv'
  BY <1>1, ClientMove DEF Miss, Resolved
<1>2. ASSUME NEW h \in Handler, NEW u \in Url, Hit(h, u) PROVE ClientInv'
  <2>1. Resolved(u, cache[u].client)
    BY <1>2 DEF Hit, Live, ClientInv
  <2> QED
    BY <1>2, <2>1, ClientMove DEF Hit, Answer
<1>3. ASSUME NEW h \in Handler, Fetch(h) PROVE ClientInv'
  <2>1. req[h].pc = "fetching" /\ req[h] \in Request
    BY <1>0, <1>3 DEF Fetch, Idle
  <2>2. PICK p \in Page :
          req' = [req EXCEPT ![h].pc = "fetched", ![h].client = Fetched(req[h].id, p)]
    BY <1>3 DEF Fetch
  <2> DEFINE c == Fetched(req[h].id, p)
  <2>3. Resolved(req[h].id, c)
    BY DEF Fetched, Resolved
  <2>4. c \in Client
    <3>1. req[h].id \in Url
      BY <2>1 DEF SourceInv, RequestsFresh
    <3> QED
      BY <3>1, FetchedTyped
  <2> HIDE DEF c
  <2> DEFINE r == [req[h] EXCEPT !.pc = "fetched", !.client = c]
  <2>5. req' = [req EXCEPT ![h] = r]
    BY <2>2 DEF c
  <2>6. r.pc = "fetched" /\ r.id = req[h].id
    BY <2>1, <2>4, FetchedRequest
  <2>7. r.client = c
    BY <2>1 DEF Request
  <2> HIDE DEF r
  <2> QED
    BY <1>3, <2>3, <2>5, <2>6, <2>7, ClientMove DEF Fetch
<1>4. ASSUME NEW h \in Handler, FetchFails(h) PROVE ClientInv'
  <2>1. req[h].pc = "fetching" /\ req[h] \in Request
    BY <1>0, <1>4 DEF FetchFails, Idle
  <2> DEFINE r == [req[h] EXCEPT !.pc = "fetched"]
  <2>2. r.pc = "fetched" /\ r.id = req[h].id /\ r.client = req[h].client
    BY <2>1 DEF Request
  <2> HIDE DEF r
  <2> QED
    BY <1>4, <2>1, <2>2, ClientMove DEF FetchFails, ClientInv, r
<1>5. ASSUME NEW h \in Handler, Store(h) PROVE ClientInv'
  <2> DEFINE u == req[h].id
             c == req[h].client
             e == [client |-> c, left |-> Lifetime(c), age |-> req[h].age]
             r == Answer(u, c, req[h].age)
  <2>1. PICK kept \in Room(u) : cache' = With(Restrict(cache, kept), u, e)
    BY <1>5 DEF Store
  <2>2. e.client = c
    OBVIOUS
  <2>3. /\ DOMAIN cache' = kept \cup {u}
        /\ \A x \in DOMAIN cache' : cache'[x] = IF x = u THEN e ELSE cache[x]
    BY <2>1 DEF With, Restrict
  <2>4. kept \subseteq DOMAIN cache
    BY RoomKeeps
  <2>5. Resolved(u, c)
    BY <1>5 DEF Store, ClientInv
  <2>6. r.pc = "answered" /\ r.id = u /\ r.client = c /\ UNCHANGED store
    BY <1>5 DEF Store, Answer
  <2>7. \A k \in Handler : req'[k] = IF k = h THEN r ELSE req[k]
    BY <1>0, <1>5 DEF Store
  <2> HIDE DEF u, c, e, r
  <2>8. \A x \in DOMAIN cache' : Resolved(x, cache'[x].client)
    BY <2>2, <2>3, <2>4, <2>5 DEF ClientInv
  <2> QED
    BY <2>5, <2>6, <2>7, <2>8 DEF ClientInv, Answered
<1>6. ASSUME NEW h \in Handler, Return(h) PROVE ClientInv'
  BY <1>6, ClientMove DEF Return, Idle
<1>7. CASE Tick
  <2>1. /\ DOMAIN cache' = DOMAIN cache /\ UNCHANGED store
        /\ \A u \in DOMAIN cache : cache'[u].client = cache[u].client
    <3>1. \A u \in DOMAIN cache : cache[u] \in Entry
      BY DEF SourceInv, TypeOK
    <3>2. ASSUME NEW u \in DOMAIN cache PROVE cache'[u].client = cache[u].client
      <4>1. CASE cache'[u] = [client |-> cache[u].client, left |-> 0, age |-> 0]
        BY <4>1
      <4>2. CASE cache'[u] = [cache[u] EXCEPT !.left = @ - 1, !.age = @ + 1]
        <5>1. cache[u] \in Entry
          BY <3>1
        <5> QED
          BY <4>2, <5>1 DEF Entry
      <4>3. cache'[u] = IF cache[u].left <= 1
                        THEN [client |-> cache[u].client, left |-> 0, age |-> 0]
                        ELSE [cache[u] EXCEPT !.left = @ - 1, !.age = @ + 1]
        BY <1>7 DEF Tick
      <4> QED
        BY <4>1, <4>2, <4>3
    <3> QED
      BY <1>7, <3>2 DEF Tick
  <2>2. ASSUME NEW h \in Handler
        PROVE  \/ req'[h] = req[h]
               \/ /\ req[h].pc \in {"fetching", "fetched"}
                  /\ req'[h].pc = req[h].pc /\ req'[h].id = req[h].id
                  /\ req'[h].client = req[h].client
    <3>1. CASE req[h].pc = "fetching"
      <4>1. req'[h] = [req[h] EXCEPT !.waited = @ + 1]
        BY <1>7, <3>1 DEF Tick
      <4>2. req[h] \in Request
        BY <1>0, <3>1 DEF Idle
      <4> QED
        BY <3>1, <4>1, <4>2 DEF Request
    <3>2. CASE req[h].pc = "fetched"
      <4>1. req'[h] = [req[h] EXCEPT !.waited = @ + 1, !.age = @ + 1]
        BY <1>7, <3>2 DEF Tick
      <4>2. req[h] \in Request
        BY <1>0, <3>2 DEF Idle
      <4> QED
        BY <3>2, <4>1, <4>2 DEF Request
    <3>3. CASE req[h].pc \notin {"fetching", "fetched"}
      BY <1>7, <3>3 DEF Tick
    <3> QED
      BY <3>1, <3>2, <3>3
  <2>3. \A h \in Handler :
          /\ req'[h].pc \in {"fetching", "fetched"} => Resolved(req'[h].id, req'[h].client)
          /\ req'[h].pc = "answered" => \/ Resolved(req'[h].id, req'[h].client)
                                        \/ Enrolled(req'[h].id, req'[h].client)
    BY <2>2 DEF ClientInv, Answered
  <2> QED
    BY <2>1, <2>3 DEF ClientInv, Answered
<1>8. ASSUME NEW doc \in Application, Register(doc) PROVE ClientInv'
  <2>1. /\ DOMAIN store' = DOMAIN store \cup {doc.id} /\ UNCHANGED <<cache, req>>
        /\ \A i \in DOMAIN store' : store'[i] = IF i = doc.id THEN Registered(doc) ELSE store[i]
    BY <1>8 DEF Register, With
  <2>2. Enrolled(doc.id, Registered(doc))
    BY <1>8 DEF Register, Enrolled
  <2> QED
    BY <2>1, <2>2 DEF ClientInv, Answered
<1>9. ASSUME NEW i \in StoredId, Forget(i) PROVE ClientInv'
  BY <1>9 DEF Forget, Restrict, ClientInv, Answered
<1>10. ASSUME NEW i \in StoredId, NEW h \in Handler, LookupStored(h, i) PROVE ClientInv'
  <2> DEFINE c == IF i \in DOMAIN store THEN store[i] ELSE Failure
  <2>1. Resolved(i, c) \/ Enrolled(i, c)
    BY DEF ClientInv, Resolved
  <2> HIDE DEF c
  <2> QED
    BY <1>10, <2>1, ClientMove DEF LookupStored, Answer, c
<1>11. CASE UNCHANGED vars
  BY <1>11 DEF vars, ClientInv, Answered
<1> QED
  BY <1>1, <1>2, <1>3, <1>4, <1>5, <1>6, <1>7, <1>8, <1>9, <1>10, <1>11 DEF Next

\* In every state: what the requests are answered with was resolved or enrolled.
LEMMA ClientInvHolds == Spec => [](SourceInv /\ ClientInv)
<1>1. Init => ClientInv
  BY DEF Init, ClientInv, Answered, Idle
<1> QED
  BY <1>1, SourceInvInit, SourceInvStep, ClientInvStep, PTL DEF Spec

\* A resolved client keeps the redirect URIs of its document, and a part of its grant
\* and response types.
LEMMA ResolvedDeclares ==
  ASSUME NEW u, NEW c, c # Failure, Resolved(u, c)
  PROVE  /\ c.id = u /\ c.redirects # {} /\ c.grants # {} /\ c.responses # {}
         /\ c.auth \in {"", "none"}
         /\ \A uri \in c.redirects : ValidRedirect(uri)
         /\ \E doc \in Documents :
               /\ doc.id = c.id /\ doc.redirects = c.redirects
               /\ c.grants \subseteq Grants(doc) \cap SupportedGrants
               /\ c.responses \subseteq Responses(doc) \cap SupportedResponses
<1>1. PICK p \in Page : /\ p.addr \notin NonPublic /\ ValidDocument(u, p.doc)
                        /\ c = Narrowed(p.doc)
  BY DEF Resolved
<1> DEFINE doc == p.doc
<1>2. IsDocument(doc)
  BY DocumentAssumption
<1>3. c = [id |-> doc.id, redirects |-> doc.redirects, auth |-> doc.auth,
           grants |-> Grants(doc) \cap SupportedGrants,
           responses |-> Responses(doc) \cap SupportedResponses]
  BY <1>1, <1>2 DEF IsDocument, Narrowed
<1>4. /\ c.id = doc.id /\ c.redirects = doc.redirects /\ c.auth = doc.auth
      /\ c.grants = Grants(doc) \cap SupportedGrants
      /\ c.responses = Responses(doc) \cap SupportedResponses
  BY <1>3
<1>5. doc \in Documents
  BY <1>1 DEF Documents
<1>6. ValidDocument(u, doc) /\ c = Narrowed(doc)
  BY <1>1
<1> HIDE DEF doc
<1>7. /\ doc.id = u /\ doc.redirects # {} /\ \A uri \in doc.redirects : ValidRedirect(uri)
      /\ doc.auth \in {"", "none"} /\ c.grants # {} /\ c.responses # {}
  BY <1>6 DEF ValidDocument
<1> QED
  BY <1>4, <1>5, <1>7

\* A registered client has what its request asks for and the server supports.
LEMMA EnrolledDeclares ==
  ASSUME NEW i, NEW c, Enrolled(i, c)
  PROVE  /\ c.id = i /\ c.redirects # {} /\ c.grants # {} /\ c.responses # {}
         /\ i \in StoredId
         /\ \A uri \in c.redirects : ValidRedirect(uri)
         /\ \E doc \in Documents :
               /\ doc.id = c.id /\ doc.redirects = c.redirects
               /\ c.grants \subseteq Grants(doc) \cap SupportedGrants
               /\ c.responses \subseteq Responses(doc) \cap SupportedResponses
<1>1. PICK doc \in Application : ValidRegistration(doc) /\ doc.id = i /\ c = Registered(doc)
  BY DEF Enrolled
<1>2. IsDocument(doc)
  BY DocumentAssumption
<1>3. /\ c.id = doc.id /\ c.redirects = doc.redirects
      /\ c.grants = Grants(doc) /\ c.responses = Responses(doc)
  BY <1>1, <1>2 DEF IsDocument, Registered
<1>4. Grants(doc) # {} /\ Responses(doc) # {}
  BY DEF Grants, Responses, OrDefault
<1>5. doc \in Documents /\ i \in StoredId
  BY <1>1 DEF Documents, StoredId
<1> QED
  BY <1>1, <1>3, <1>4, <1>5 DEF ValidRegistration

\* A client is what the document under its own ID declares, whatever the web answers, in
\* whatever order requests fetch and store, and whoever registers what.
THEOREM ClientsAreDeclared == Spec => []ClientsGetWhatTheyDeclare
<1>1. ClientInv => ClientsGetWhatTheyDeclare
  <2> SUFFICES ASSUME ClientInv, NEW h \in Handler, Answered(h), req[h].client # Failure
               PROVE  LET c == req[h].client IN
                      /\ c.id = req[h].id /\ c.redirects # {} /\ c.grants # {} /\ c.responses # {}
                      /\ c.id \in Url => c.auth \in {"", "none"}
                      /\ \E doc \in Documents :
                          /\ doc.id = c.id /\ doc.redirects = c.redirects
                          /\ c.grants \subseteq Grants(doc) \cap SupportedGrants
                          /\ c.responses \subseteq Responses(doc) \cap SupportedResponses
    BY DEF ClientsGetWhatTheyDeclare
  <2>1. CASE Resolved(req[h].id, req[h].client)
    BY <2>1, ResolvedDeclares
  <2>2. CASE Enrolled(req[h].id, req[h].client)
    BY <2>2, EnrolledDeclares, DocumentAssumption
  <2> QED
    BY <2>1, <2>2 DEF ClientInv
<1> QED
  BY <1>1, ClientInvHolds, PTL

\* What the authorize endpoint accepts beyond the redirect URIs a client lists are
\* plain-HTTP addresses of this machine, at a path and place the client lists.
LEMMA LoopbackOnly ==
  ASSUME NEW c, \A uri \in c.redirects : ValidRedirect(uri),
         NEW requested, AcceptsRedirect(c, requested), requested \notin c.redirects
  PROVE  /\ OnThisMachine(requested)
         /\ \E listed \in c.redirects : SamePlace(listed, requested)
<1>1. ASSUME NEW r \in c.redirects, MatchesLoopbackHostPort(r, requested)
      PROVE  OnThisMachine(requested) /\ SamePlace(r, requested)
  <2>1. /\ r.scheme = "http" /\ requested.scheme = "http" /\ r.path = requested.path
        /\ r.host \in LocalhostSpelling /\ requested.host \in LocalhostSpelling
    BY <1>1 DEF MatchesLoopbackHostPort
  <2>2. r.host = "localhost"
    BY <2>1, HostAssumption DEF HostAssumption, ValidRedirect, Loopback
  <2> QED
    BY <2>1, <2>2 DEF OnThisMachine, SamePlace
<1>2. CASE ~\E r \in c.redirects : MatchesLoopbackHostPort(r, requested)
  <2>1. FositeMatches(c.redirects, requested)
    BY <1>2 DEF AcceptsRedirect, ExpandLoopbackRedirects
  <2> QED
    BY <2>1 DEF FositeMatches, OnThisMachine, SamePlace
<1> QED
  BY <1>1, <1>2

\* The documents of a client's own ID list every redirect URI its requests may use, but for
\* plain HTTP to this machine, where they list the path and the loopback address or the
\* name "localhost".
THEOREM RedirectsAreDeclared == Spec => []RedirectsStayDeclared
<1>1. ClientInv => RedirectsStayDeclared
  <2> SUFFICES ASSUME ClientInv, NEW h \in Handler, Answered(h), req[h].client # Failure,
                      NEW requested \in Redirect, AcceptsRedirect(req[h].client, requested)
               PROVE  \E doc \in Documents : doc.id = req[h].id /\ \E listed \in doc.redirects :
                          /\ ValidRedirect(listed)
                          /\ \/ listed = requested
                             \/ OnThisMachine(requested) /\ SamePlace(listed, requested)
    BY DEF RedirectsStayDeclared
  <2> DEFINE c == req[h].client
  <2>1. /\ c.id = req[h].id /\ \A uri \in c.redirects : ValidRedirect(uri)
        /\ \E doc \in Documents : doc.id = c.id /\ doc.redirects = c.redirects
    <3>1. CASE Resolved(req[h].id, c)
      BY <3>1, ResolvedDeclares
    <3>2. CASE Enrolled(req[h].id, c)
      BY <3>2, EnrolledDeclares
    <3> QED
      BY <3>1, <3>2 DEF ClientInv
  <2>2. \E listed \in c.redirects :
            \/ listed = requested
            \/ OnThisMachine(requested) /\ SamePlace(listed, requested)
    <3>1. AcceptsRedirect(c, requested)
      OBVIOUS
    <3> HIDE DEF c
    <3>2. CASE requested \in c.redirects
      BY <3>2
    <3>3. CASE requested \notin c.redirects
      BY <2>1, <3>1, <3>3, LoopbackOnly
    <3> QED
      BY <3>2, <3>3
  <2> QED
    BY <2>1, <2>2
<1> QED
  BY <1>1, ClientInvHolds, PTL

-----------------------------------------------------------------------------
(* The cache at its limit.                                                       *)

\* The cache holds URLs, of which there are finitely many.
LEMMA CacheFinite ==
  ASSUME TypeOK
  PROVE  /\ IsFiniteSet(DOMAIN cache) /\ Cardinality(DOMAIN cache) \in Nat
         /\ \A S \in SUBSET DOMAIN cache :
               /\ IsFiniteSet(S) /\ Cardinality(S) \in Nat
               /\ Cardinality(S) <= Cardinality(DOMAIN cache)
               /\ Cardinality(S) = Cardinality(DOMAIN cache) => S = DOMAIN cache
<1>1. IsFiniteSet(DOMAIN cache)
  BY ResolverAssumption, FS_Subset DEF TypeOK
<1> QED
  BY <1>1, FS_Subset, FS_CardinalityType

\* Room makes room: with the new entry the cache is within its limit.
LEMMA RoomSuffices ==
  ASSUME TypeOK, CacheBounded, NEW u, NEW kept \in Room(u)
  PROVE  Cardinality(kept \cup {u}) <= MaxEntries
<1>1. /\ kept \subseteq DOMAIN cache /\ IsFiniteSet(kept) /\ Cardinality(kept) \in Nat
      /\ MaxEntries \in Nat \ {0}
  BY CacheFinite, RoomKeeps, ResolverAssumption
<1>2. Cardinality(kept \cup {u}) = IF u \in kept THEN Cardinality(kept) ELSE Cardinality(kept) + 1
  BY <1>1, FS_AddElement
<1>3. \/ u \in kept /\ kept = DOMAIN cache
      \/ Cardinality(kept) < MaxEntries
  <2>1. CASE u \in DOMAIN cache \/ Cardinality(DOMAIN cache) < MaxEntries
    BY <2>1 DEF Room
  <2>2. CASE ~(u \in DOMAIN cache \/ Cardinality(DOMAIN cache) < MaxEntries)
    BY <1>1, <2>2 DEF Room, Survivors
  <2> QED
    BY <2>1, <2>2
<1> QED
  BY <1>1, <1>2, <1>3 DEF CacheBounded

\* Only a stored result adds an entry.
LEMMA OnlyStoreGrows ==
  ASSUME [Next]_vars
  PROVE  DOMAIN cache' = DOMAIN cache \/ \E h \in Handler : Store(h)
  BY DEF Next, vars, Miss, Hit, Fetch, FetchFails, Return, Tick, Register, Forget, LookupStored

\* What a stored result leaves in the cache.
LEMMA StoreRoom ==
  ASSUME NEW h \in Handler, Store(h)
  PROVE  \E kept \in Room(req[h].id) : DOMAIN cache' = kept \cup {req[h].id}
<1>1. PICK kept \in Room(req[h].id) :
        cache' = With(Restrict(cache, kept), req[h].id,
                      [client |-> req[h].client, left |-> Lifetime(req[h].client),
                       age |-> req[h].age])
  BY DEF Store
<1> QED
  BY <1>1 DEF With, Restrict

\* However many URLs are asked for, the cache stays within its limit.
THEOREM CacheStaysBounded == Spec => []CacheBounded
<1>1. Init => CacheBounded
  BY ResolverAssumption, FS_EmptySet DEF Init, CacheBounded
<1>2. SourceInv /\ CacheBounded /\ [Next]_vars => CacheBounded'
  <2> SUFFICES ASSUME SourceInv, CacheBounded, [Next]_vars PROVE CacheBounded'
    OBVIOUS
  <2>1. CASE DOMAIN cache' = DOMAIN cache
    BY <2>1 DEF CacheBounded
  <2>2. ASSUME NEW h \in Handler, Store(h) PROVE CacheBounded'
    BY <2>2, StoreRoom, RoomSuffices DEF CacheBounded, SourceInv
  <2> QED
    BY <2>1, <2>2, OnlyStoreGrows
<1> QED
  BY <1>1, <1>2, ClientInvHolds, PTL DEF Spec

\* A good entry goes only to make room for one new entry in a cache full of good ones.
LEMMA EvictsOne ==
  ASSUME SourceInv, CacheBounded, [Next]_vars, NEW u \in Live, u \notin DOMAIN cache'
  PROVE  /\ Live = DOMAIN cache /\ Cardinality(Live) = MaxEntries
         /\ Live \ DOMAIN cache' = {u}
<1>1. Live \subseteq DOMAIN cache
  BY DEF Live
<1>2. PICK h \in Handler : Store(h)
  BY <1>1, OnlyStoreGrows
<1>3. PICK kept \in Room(req[h].id) : DOMAIN cache' = kept \cup {req[h].id}
  BY <1>2, StoreRoom
<1>4. /\ req[h].id \notin DOMAIN cache /\ ~(Cardinality(DOMAIN cache) < MaxEntries)
      /\ kept \in Survivors
  BY <1>1, <1>3 DEF Room
<1>5. /\ ~(Cardinality(Live) < MaxEntries)
      /\ kept \subseteq Live /\ Cardinality(kept) = MaxEntries - 1
  BY <1>3, <1>4 DEF Survivors
<1>6. /\ MaxEntries \in Nat \ {0} /\ IsFiniteSet(Live) /\ Cardinality(Live) \in Nat
      /\ Cardinality(Live) <= Cardinality(DOMAIN cache) /\ Cardinality(DOMAIN cache) \in Nat
      /\ Cardinality(Live) = Cardinality(DOMAIN cache) => Live = DOMAIN cache
  BY <1>1, CacheFinite, ResolverAssumption DEF SourceInv
<1>7. Cardinality(Live) = MaxEntries /\ Live = DOMAIN cache
  BY <1>5, <1>6 DEF CacheBounded
<1>8. Live \ DOMAIN cache' = Live \ kept
  BY <1>1, <1>3, <1>4
<1>9. u \notin kept
  BY <1>3
<1>10. kept \cup {u} = Live
  <2>1. IsFiniteSet(kept) /\ Cardinality(kept \cup {u}) = Cardinality(kept) + 1
    BY <1>5, <1>6, <1>9, FS_Subset, FS_AddElement
  <2>2. kept \cup {u} \in SUBSET Live
    BY <1>5
  <2>3. Cardinality(kept \cup {u}) = Cardinality(Live)
    BY <1>5, <1>6, <1>7, <2>1
  <2> QED
    BY <1>6, <2>2, <2>3, FS_Subset
<1> QED
  BY <1>7, <1>8, <1>9, <1>10

\* An entry that is still good is displaced last and alone, for every size of the cache.
THEOREM GoodEntriesGoLast == Spec => EvictionIsLast
<1>1. SourceInv /\ CacheBounded /\ [Next]_vars =>
        [\A u \in Live : u \notin DOMAIN cache' =>
            /\ Live = DOMAIN cache /\ Cardinality(Live) = MaxEntries
            /\ Live \ DOMAIN cache' = {u}]_vars
  BY EvictsOne
<1> QED
  BY <1>1, ClientInvHolds, CacheStaysBounded, PTL DEF Spec, EvictionIsLast

================================================================================
