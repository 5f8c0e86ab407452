-------------------------- MODULE OperatorAccountProofs --------------------------
(***************************************************************************)
(* What holds of OperatorAccount for any number of requests, accounts and  *)
(* passkeys and any deployments.                                           *)
(***************************************************************************)
EXTENDS OperatorAccount, FiniteSetTheorems, TLAPS

\* A set of numbers that is not empty has a least one: the shortest of the intervals that
\* reach up to its members.
LEMMA LeastNumber ==
  ASSUME NEW T \in SUBSET Nat, T # {}
  PROVE  \E m \in T : \A n \in T : m <= n
<1> DEFINE upTo == {0 .. n : n \in T}
<1>1. upTo \subseteq FiniteSubsetsOf(Nat) /\ upTo # {}
  <2>1. \A n \in T : 0 .. n \subseteq Nat /\ IsFiniteSet(0 .. n)
    BY FS_Interval
  <2> QED
    BY <2>1 DEF FiniteSubsetsOf
<1> HIDE DEF upTo
<1>2. PICK s \in upTo : \A t \in upTo : ~ (<<t, s>> \in StrictSubsetOrdering(Nat))
  BY <1>1, FS_StrictSubsetOrderingWellFounded, WFMin
<1>3. PICK m \in T : s = 0 .. m
  BY DEF upTo
<1>4. ASSUME NEW n \in T, n < m PROVE FALSE
  <2>1. 0 .. n \in upTo /\ 0 .. n \subseteq s /\ 0 .. n # s /\ s \in SUBSET Nat /\ 0 .. n \in SUBSET Nat
    BY <1>3, <1>4 DEF upTo
  <2> QED
    BY <1>2, <2>1 DEF StrictSubsetOrdering
<1> QED
  BY <1>4

LEMMA LeastUser ==
  ASSUME NEW S \in SUBSET User, S # {}
  PROVE  \E u \in S : \A v \in S : u.id <= v.id
<1> DEFINE Ids == {u.id : u \in S}
<1>1. Ids \in SUBSET Nat /\ Ids # {}
  BY OperatorAssumption DEF OperatorAssumption, User
<1>2. PICK m \in Ids : \A n \in Ids : m <= n
  BY <1>1, LeastNumber
<1>3. PICK u \in S : u.id = m
  BY <1>2
<1> QED
  BY <1>2, <1>3

\* GetUser returns a stored account, and none has a smaller ID.
LEMMA AccountIsLeast ==
  ASSUME users \subseteq User, users # {}
  PROVE  Account \in users /\ \A v \in users : Account.id <= v.id
  BY LeastUser DEF Account

-----------------------------------------------------------------------------
(* The shape of the state.                                                 *)

Admissible == Identity \cap Admitted(conf.settings)
Working == {"count", "own", "save", "delete", "add", "assert", "persist"}

\* What a request in its stage has read.
Grounded(q) ==
    /\ q.pc \in Working => q.user \in User /\ q.user.id \in issued
    /\ q.pc \in {"persist", "delete", "add"} => q.cred \in enrolled
    /\ q.pc = "granted" => q.subject \in issued \cup Admissible
    /\ q.pc \in {"create", "count"} => conf.hashed

Shape ==
    /\ TypeOK
    /\ \A r \in Request : Grounded(req[r])
    /\ sessions \subseteq issued \cup Admissible
    /\ users = {} => issued = {}

LEMMA IdleReq == Idle \in Req /\ Idle.pc = "idle"
  BY OperatorAssumption DEF OperatorAssumption, Idle, Req, NoUser

LEMMA GrantedReq ==
  ASSUME NEW s \in UserId \cup Identity
  PROVE  Granted(s) \in Req /\ Granted(s).pc = "granted" /\ Granted(s).subject = s
  BY IdleReq DEF Granted, Req

\* The step of one request keeps the shape of all.
LEMMA OneRequest ==
  ASSUME Shape, NEW r \in Request, NEW to \in Req, Goes(r, to), Grounded(to)',
         issued \subseteq issued', enrolled \subseteq enrolled', UNCHANGED conf
  PROVE  req' \in [Request -> Req] /\ \A x \in Request : Grounded(req[x])'
<1>1. req' = [req EXCEPT ![r] = to] /\ req \in [Request -> Req]
  BY DEF Goes, Shape, TypeOK
<1>2. ASSUME NEW x \in Request PROVE Grounded(req[x])'
  <2>1. CASE x = r
    BY <1>1, <2>1
  <2>2. CASE x # r
    <3>1. req'[x] = req[x] /\ Grounded(req[x])
      BY <1>1, <2>2 DEF Shape
    <3> QED
      BY <3>1 DEF Grounded, Admissible
  <2> QED
    BY <2>1, <2>2
<1> QED
  BY <1>1, <1>2

\* A step that only moves one request.
LEMMA OnlyRequest ==
  ASSUME Shape, NEW r \in Request, NEW to \in Req, Goes(r, to), Grounded(to), Unstored
  PROVE  Shape'
<1>1. UNCHANGED <<users, issued, creds, enrolled, conf, sessions, deleted, floor, settled>>
  BY DEF Unstored, store
<1>2. Grounded(to)'
  BY <1>1 DEF Grounded, Admissible
<1>3. req' \in [Request -> Req] /\ \A x \in Request : Grounded(req[x])'
  BY <1>1, <1>2, OneRequest
<1>4. seen' \subseteq Request
  BY DEF Unstored, Watches
<1>5. TypeOK'
  BY <1>1, <1>3, <1>4 DEF Shape, TypeOK
<1> QED
  BY <1>1, <1>3, <1>5 DEF Shape, Admissible

-----------------------------------------------------------------------------
(* The steps that choose.                                                  *)

\* An assertion is taken of a stored passkey, and does not lower its count.
LEMMA AssertsChooses ==
  ASSUME Shape, NEW r \in Request, Asserts(r)
  PROVE  \E to \in Req :
           /\ Goes(r, to)
           /\ \/ to = Idle
              \/ /\ to.pc = "persist" /\ to.user = req[r].user
                 /\ to.cred \in PasskeysOf(req[r].user.id) /\ to.count >= creds[to.cred].count
<1>1. CASE Ends(r)
  BY <1>1, IdleReq DEF Ends
<1>2. CASE \E c \in PasskeysOf(req[r].user.id), n \in 0 .. MaxCount :
             /\ ~CloneWarning(creds[c].count, n)
             /\ Goes(r, [req[r] EXCEPT !.pc = "persist", !.cred = c, !.count = n])
  <2>1. PICK c \in PasskeysOf(req[r].user.id), n \in 0 .. MaxCount :
          /\ ~CloneWarning(creds[c].count, n)
          /\ Goes(r, [req[r] EXCEPT !.pc = "persist", !.cred = c, !.count = n])
    BY <1>2
  <2> DEFINE to == [req[r] EXCEPT !.pc = "persist", !.cred = c, !.count = n]
  <2>2. c \in DOMAIN creds /\ c \in Passkey /\ creds[c].count \in Nat /\ n \in Nat
    BY OperatorAssumption DEF OperatorAssumption, PasskeysOf, Shape, TypeOK
  <2>3. n >= creds[c].count
    BY <2>1, <2>2 DEF CloneWarning
  <2>4. req[r] \in Req
    BY DEF Shape, TypeOK
  <2>5. to \in Req /\ to.pc = "persist" /\ to.user = req[r].user /\ to.cred = c /\ to.count = n
    BY <2>2, <2>4 DEF Req
  <2> QED
    BY <2>1, <2>3, <2>5
<1> QED
  BY <1>1, <1>2 DEF Asserts

\* What the settings page and the enrolment go on to do.
LEMMA OwnPasskeysChooses ==
  ASSUME Shape, NEW r \in Request, OwnPasskeys(r)
  PROVE  \E to \in Req :
           /\ Goes(r, to)
           /\ \/ to = Idle /\ UNCHANGED enrolled
              \/ /\ to.pc = "save" /\ to.user \in User /\ to.user.id = req[r].user.id
                 /\ UNCHANGED enrolled
              \/ /\ to.pc = "delete" /\ to.user = req[r].user
                 /\ to.cred \in PasskeysOf(req[r].user.id) /\ UNCHANGED enrolled
              \/ /\ to.pc = "add" /\ to.user = req[r].user
                 /\ to.cred \in Enrollable(r) /\ enrolled' = enrolled \cup {to.cred}
<1> DEFINE q == req[r]
<1>0. q \in Req /\ q.pc = "own" /\ q.user \in User
  <2>1. q.pc = "own" /\ q.pc \in Working
    BY DEF OwnPasskeys, Working
  <2> QED
    BY <2>1 DEF Shape, TypeOK, Grounded
<1>1. CASE Ends(r) /\ UNCHANGED enrolled
  BY <1>1, IdleReq DEF Ends
<1>2. CASE \E d \in BOOLEAN : Goes(r, [q EXCEPT !.pc = "save", !.user.disabled = d]) /\ UNCHANGED enrolled
  <2>1. PICK d \in BOOLEAN :
          Goes(r, [q EXCEPT !.pc = "save", !.user.disabled = d]) /\ UNCHANGED enrolled
    BY <1>2
  <2> DEFINE u == [q.user EXCEPT !.disabled = d]
             to == [q EXCEPT !.pc = "save", !.user = u]
  <2>2. to = [q EXCEPT !.pc = "save", !.user.disabled = d]
    BY <1>0 DEF Req
  <2>3. u \in User /\ u.id = q.user.id
    BY <1>0 DEF User
  <2> HIDE DEF u
  <2>4. to \in Req /\ to.pc = "save" /\ to.user = u
    BY <1>0, <2>3 DEF Req
  <2> QED
    BY <2>1, <2>2, <2>3, <2>4
<1>4. CASE \E c \in PasskeysOf(q.user.id) :
             Goes(r, [q EXCEPT !.pc = "delete", !.cred = c]) /\ UNCHANGED enrolled
  <2>1. PICK c \in PasskeysOf(q.user.id) :
          Goes(r, [q EXCEPT !.pc = "delete", !.cred = c]) /\ UNCHANGED enrolled
    BY <1>4
  <2>2. c \in Passkey
    BY DEF PasskeysOf, Shape, TypeOK
  <2> DEFINE to == [q EXCEPT !.pc = "delete", !.cred = c]
  <2>3. to \in Req /\ to.pc = "delete" /\ to.user = q.user /\ to.cred = c
    BY <1>0, <2>2 DEF Req
  <2>4. Goes(r, to)
    BY <2>1
  <2> HIDE DEF to, q
  <2> QED
    BY <2>1, <2>3, <2>4 DEF q
<1>5. CASE \E c \in Enrollable(r) :
             Goes(r, [q EXCEPT !.pc = "add", !.cred = c]) /\ enrolled' = enrolled \cup {c}
  <2>1. PICK c \in Enrollable(r) :
          Goes(r, [q EXCEPT !.pc = "add", !.cred = c]) /\ enrolled' = enrolled \cup {c}
    BY <1>5
  <2>2. c \in Passkey
    BY DEF Enrollable, Shape, TypeOK, Grounded
  <2> DEFINE to == [q EXCEPT !.pc = "add", !.cred = c]
  <2>3. to \in Req /\ to.pc = "add" /\ to.user = q.user /\ to.cred = c
    BY <1>0, <2>2 DEF Req
  <2>4. Goes(r, to)
    BY <2>1
  <2> HIDE DEF to, q
  <2> QED
    BY <2>1, <2>3, <2>4 DEF q
<1> QED
  BY <1>1, <1>2, <1>4, <1>5 DEF OwnPasskeys

-----------------------------------------------------------------------------
(* Every step keeps the shape.                                             *)

LEMMA ShapeInit == Init => Shape
<1> SUFFICES ASSUME Init PROVE Shape
  OBVIOUS
<1>1. \A r \in Request : req[r] = Idle
  BY DEF Init
<1>2. floor \in [Passkey -> 0 .. MaxCount] /\ req \in [Request -> Req] /\ conf \in Deployment
  BY OperatorAssumption, IdleReq DEF OperatorAssumption, Init
<1>3. TypeOK
  BY <1>2 DEF Init, TypeOK
<1>4. \A r \in Request : Grounded(req[r])
  BY <1>1, IdleReq DEF Grounded, Working
<1> QED
  BY <1>3, <1>4 DEF Init, Shape

\* Whoever the provider's settings let in is named by one of them.
LEMMA AllowedIsAdmitted ==
  ASSUME conf \in Deployment, NEW i \in Identity, IsAllowed(Provider(conf.settings), i)
  PROVE  i \in Admitted(conf.settings)
<1> DEFINE s == conf.settings
           p == Provider(s)
<1>1. /\ p.users = s.users /\ p.globs = s.globs \ {EmptyPattern}
      /\ p.attributes = s.attributes /\ p.attributeGlobs = CompileAttributes(s.attributeGlobs)
  BY OperatorAssumption DEF OperatorAssumption, Provider, CompileGlobs
<1>2. \A k \in DOMAIN p.attributeGlobs :
        k \in DOMAIN s.attributeGlobs /\ p.attributeGlobs[k] = s.attributeGlobs[k] \ {EmptyPattern}
  BY <1>1 DEF CompileAttributes, CompileGlobs
<1> HIDE DEF p, s
<1>3. IsAllowed(p, i)
  BY DEF p, s
<1>4. CASE i \in s.users
  BY <1>4 DEF Admitted, s
<1>5. CASE \E g \in s.globs \ {EmptyPattern} : i \in g
  BY <1>5 DEF Admitted, s
<1>6. CASE \E k \in DOMAIN s.attributes : Attribute(i, k) \cap s.attributes[k] # {}
  <2>1. PICK k \in DOMAIN s.attributes : Attribute(i, k) \cap s.attributes[k] # {}
    BY <1>6
  <2> DEFINE H(x) == {n \in Identity : Attribute(n, x) \cap s.attributes[x] # {}}
  <2>2. i \in H(k) /\ H(k) \in {H(x) : x \in DOMAIN s.attributes}
    BY <2>1
  <2>3. UNION {H(x) : x \in DOMAIN s.attributes} \subseteq Admitted(s)
    BY DEF Admitted
  <2> QED
    BY <2>2, <2>3 DEF s
<1>7. CASE \E k \in DOMAIN s.attributeGlobs :
             \E g \in s.attributeGlobs[k] \ {EmptyPattern} : Attribute(i, k) \cap g # {}
  <2>0. PICK k \in DOMAIN s.attributeGlobs :
          \E g \in s.attributeGlobs[k] \ {EmptyPattern} : Attribute(i, k) \cap g # {}
    BY <1>7
  <2>1. PICK g \in s.attributeGlobs[k] \ {EmptyPattern} : Attribute(i, k) \cap g # {}
    BY <2>0
  <2> DEFINE H(x, v) == {n \in Identity : Attribute(n, x) \cap v # {}}
             F(x) == {H(x, v) : v \in s.attributeGlobs[x] \ {EmptyPattern}}
  <2>2. i \in H(k, g) /\ H(k, g) \in F(k)
    BY <2>1
  <2>3. UNION UNION {F(x) : x \in DOMAIN s.attributeGlobs} \subseteq Admitted(s)
    BY DEF Admitted
  <2>4. F(k) \in {F(x) : x \in DOMAIN s.attributeGlobs}
    OBVIOUS
  <2> HIDE DEF F, H
  <2>5. i \in UNION UNION {F(x) : x \in DOMAIN s.attributeGlobs}
    BY <2>2, <2>4
  <2> QED
    BY <2>3, <2>5 DEF s
<1> QED
  BY <1>1, <1>2, <1>3, <1>4, <1>5, <1>6, <1>7 DEF IsAllowed

\* Whom a setting names, the provider built from it lets in.
LEMMA AdmittedIsAllowed ==
  ASSUME conf \in Deployment, NEW i \in Identity, i \in Admitted(conf.settings)
  PROVE  IsAllowed(Provider(conf.settings), i)
<1> DEFINE s == conf.settings
           p == Provider(s)
           H(x, v) == {n \in Identity : Attribute(n, x) \cap v # {}}
           F(x) == {H(x, v) : v \in s.attributeGlobs[x] \ {EmptyPattern}}
<1>1. /\ p.users = s.users /\ p.globs = s.globs \ {EmptyPattern}
      /\ p.attributes = s.attributes /\ p.attributeGlobs = CompileAttributes(s.attributeGlobs)
  BY OperatorAssumption DEF OperatorAssumption, Provider, CompileGlobs
<1>2. ASSUME NEW k \in DOMAIN s.attributeGlobs, s.attributeGlobs[k] \ {EmptyPattern} # {}
      PROVE  /\ k \in DOMAIN p.attributeGlobs
             /\ p.attributeGlobs[k] = s.attributeGlobs[k] \ {EmptyPattern}
  BY <1>1, <1>2 DEF CompileAttributes, CompileGlobs
<1>3. i \in UNION ({s.users} \cup (s.globs \ {EmptyPattern})
                     \cup {H(x, s.attributes[x]) : x \in DOMAIN s.attributes}
                     \cup UNION {F(x) : x \in DOMAIN s.attributeGlobs})
  BY DEF Admitted
<1> HIDE DEF s, p, F, H
<1>4. CASE i \in s.users \/ \E g \in s.globs \ {EmptyPattern} : i \in g
  BY <1>1, <1>4 DEF IsAllowed, p, s
<1>5. CASE \E x \in DOMAIN s.attributes : i \in H(x, s.attributes[x])
  BY <1>1, <1>5 DEF IsAllowed, H, p, s
<1>6. CASE \E x \in DOMAIN s.attributeGlobs : \E h \in F(x) : i \in h
  <2>1. PICK x \in DOMAIN s.attributeGlobs : \E h \in F(x) : i \in h
    BY <1>6
  <2>2. PICK v \in s.attributeGlobs[x] \ {EmptyPattern} : i \in H(x, v)
    BY <2>1 DEF F
  <2>3. Attribute(i, x) \cap v # {}
    BY <2>2 DEF H
  <2> QED
    BY <1>2, <2>2, <2>3 DEF IsAllowed, p, s
<1> QED
  BY <1>3, <1>4, <1>5, <1>6

\* The reads, which store nothing.
LEMMA ReadsKeepShape ==
  ASSUME Shape, NEW r \in Request,
         \/ PasswordLogin(r) \/ CountPasskeys(r) \/ OidcLogin(r) \/ PasskeyLogin(r)
         \/ Asserts(r) \/ OwnRequest(r) \/ StoreFails(r)
  PROVE  Shape'
<1>0. Idle \in Req /\ Grounded(Idle)
  BY IdleReq DEF Grounded, Working
<1>a. users # {} => Account \in User /\ Account.id \in issued
  BY AccountIsLeast DEF Shape, TypeOK
<1>b. req[r] \in Req /\ Grounded(req[r])
  BY DEF Shape, TypeOK
<1>1. CASE PasswordLogin(r)
  <2>1. CASE Bootstraps
    <3> DEFINE to == [Idle EXCEPT !.pc = "create"]
    <3>1. to \in Req /\ to.pc = "create"
      BY <1>0 DEF Req
    <3>2. Grounded(to)
      BY <1>1, <3>1 DEF Grounded, Working, PasswordLogin
    <3>3. Goes(r, to) /\ Unstored
      BY <1>1, <2>1 DEF PasswordLogin
    <3> QED
      BY <3>1, <3>2, <3>3, OnlyRequest
  <2>2. CASE ~Bootstraps
    <3> DEFINE to == [Idle EXCEPT !.pc = "count", !.user = Account]
    <3>0. Account \in User /\ Account.id \in issued
      BY <1>a, <2>2 DEF Bootstraps
    <3>1. to \in Req /\ to.pc = "count" /\ to.user = Account
      BY <1>0, <3>0 DEF Req
    <3>2. Grounded(to)
      BY <1>1, <3>0, <3>1 DEF Grounded, Working, PasswordLogin
    <3>3. Goes(r, to) /\ Unstored
      BY <1>1, <2>2 DEF PasswordLogin
    <3> QED
      BY <3>1, <3>2, <3>3, OnlyRequest
  <2> QED
    BY <2>1, <2>2
<1>2. CASE CountPasskeys(r)
  <2>0. req[r].user.id \in issued /\ issued \subseteq UserId
    BY <1>2, <1>b DEF CountPasskeys, Grounded, Working, Shape, TypeOK
  <2> DEFINE g == Granted(req[r].user.id)
  <2>1. g \in Req /\ Grounded(g)
    <3>1. g \in Req /\ g.pc = "granted" /\ g.subject = req[r].user.id
      BY <2>0, GrantedReq
    <3> QED
      BY <2>0, <3>1 DEF Grounded, Working
  <2>2. (Goes(r, g) \/ Goes(r, Idle)) /\ Unstored
    BY <1>2 DEF CountPasskeys, Ends
  <2> HIDE DEF g
  <2> QED
    BY <1>0, <2>1, <2>2, OnlyRequest
<1>3. CASE OidcLogin(r)
  <2>1. PICK i \in Identity : IsAllowed(Provider(conf.settings), i) /\ Goes(r, Granted(i))
    BY <1>3 DEF OidcLogin
  <2>2. i \in Admitted(conf.settings)
    BY <2>1, AllowedIsAdmitted DEF Shape, TypeOK
  <2>3. Granted(i) \in Req /\ Granted(i).pc = "granted" /\ Granted(i).subject = i
    BY GrantedReq
  <2>4. Grounded(Granted(i))
    BY <2>2, <2>3 DEF Grounded, Working, Admissible
  <2> QED
    BY <1>3, <2>1, <2>3, <2>4, OnlyRequest DEF OidcLogin
<1>4. CASE PasskeyLogin(r)
  <2> DEFINE to == [Idle EXCEPT !.pc = "assert", !.user = Account]
  <2>0. Account \in User /\ Account.id \in issued
    BY <1>a, <1>4 DEF PasskeyLogin
  <2>1. to \in Req /\ to.pc = "assert" /\ to.user = Account
    BY <1>0, <2>0 DEF Req
  <2>2. Grounded(to)
    BY <2>0, <2>1 DEF Grounded, Working
  <2>3. Goes(r, to) /\ Unstored
    BY <1>4 DEF PasskeyLogin
  <2> QED
    BY <2>1, <2>2, <2>3, OnlyRequest
<1>5. CASE Asserts(r)
  <2>1. PICK to \in Req :
          /\ Goes(r, to)
          /\ \/ to = Idle
             \/ to.pc = "persist" /\ to.user = req[r].user /\ to.cred \in PasskeysOf(req[r].user.id)
    BY <1>5, AssertsChooses
  <2>2. req[r].user \in User /\ req[r].user.id \in issued
    BY <1>5, <1>b DEF Asserts, Grounded, Working
  <2>3. Grounded(to)
    BY <1>0, <2>1, <2>2 DEF Grounded, Working, PasskeysOf, Shape, TypeOK
  <2> QED
    BY <1>5, <2>1, <2>3, OnlyRequest DEF Asserts
<1>6. CASE OwnRequest(r)
  <2>1. PICK s \in sessions : Goes(r, [Idle EXCEPT !.pc = "own", !.subject = s, !.user = Account])
    BY <1>6 DEF OwnRequest
  <2> DEFINE to == [Idle EXCEPT !.pc = "own", !.subject = s, !.user = Account]
  <2>0. Account \in User /\ Account.id \in issued /\ s \in UserId \cup Identity
    BY <1>a, <1>6 DEF OwnRequest, Shape, TypeOK
  <2>2. to \in Req /\ to.pc = "own" /\ to.user = Account
    BY <1>0, <2>0 DEF Req
  <2>3. Grounded(to)
    BY <2>0, <2>2 DEF Grounded, Working
  <2>4. Unstored
    BY <1>6 DEF OwnRequest
  <2> QED
    BY <2>1, <2>2, <2>3, <2>4, OnlyRequest
<1>7. CASE StoreFails(r)
  BY <1>0, <1>7, OnlyRequest DEF StoreFails, Ends
<1> QED
  BY <1>1, <1>2, <1>3, <1>4, <1>5, <1>6, <1>7

\* The writes.
LEMMA WritesKeepShape ==
  ASSUME Shape, NEW r \in Request,
         \/ CreateUser(r) \/ Respond(r) \/ Persist(r) \/ OwnPasskeys(r) \/ SavePassword(r)
         \/ DeletePasskey(r) \/ AddPasskey(r)
  PROVE  Shape'
<1>0. Idle \in Req /\ Grounded(Idle)'
  BY IdleReq DEF Grounded, Working
<1>b. req[r] \in Req /\ Grounded(req[r])
  BY DEF Shape, TypeOK
<1>c. seen' \subseteq Request
  BY DEF CreateUser, Respond, Persist, OwnPasskeys, SavePassword, DeletePasskey, AddPasskey, Watches
<1>1. CASE CreateUser(r)
  <2>1. PICK id \in UserId \ issued :
          /\ users' \in {{[id |-> id, disabled |-> FALSE]}, users \cup {[id |-> id, disabled |-> FALSE]}}
          /\ issued' = issued \cup {id}
          /\ settled' \in {id, settled}
          /\ Goes(r, Granted(id))
    BY <1>1 DEF CreateUser
  <2>2. UNCHANGED <<conf, creds, enrolled, sessions, deleted, floor>>
    BY <1>1 DEF CreateUser
  <2>3. Granted(id) \in Req /\ Granted(id).pc = "granted" /\ Granted(id).subject = id
    BY GrantedReq
  <2>4. Grounded(Granted(id))'
    <3>1. Grounded(Granted(id))' = Grounded(Granted(id))'
      OBVIOUS
    <3> QED
      BY <2>1, <2>3 DEF Grounded, Working
  <2>5. req' \in [Request -> Req] /\ \A x \in Request : Grounded(req[x])'
    BY <2>1, <2>2, <2>3, <2>4, OneRequest
  <2>6. users' \subseteq User /\ users' # {} /\ \A u \in users' : u.id \in issued'
    <3>1. [id |-> id, disabled |-> FALSE] \in User
      BY DEF User
    <3> DEFINE new == [id |-> id, disabled |-> FALSE]
    <3>2. new \in User /\ new.id = id /\ id \in issued' /\ issued \subseteq issued'
      BY <2>1, <3>1
    <3>3. users' \in {{new}, users \cup {new}} /\ users \subseteq User /\ \A u \in users : u.id \in issued
      BY <2>1 DEF Shape, TypeOK
    <3> HIDE DEF new
    <3> QED
      BY <3>2, <3>3
  <2>7. \A c \in DOMAIN creds' : creds'[c] \in [owner : issued', count : 0 .. MaxCount]
    BY <2>1, <2>2 DEF Shape, TypeOK
  <2>8. settled' \in {Nobody} \cup issued' /\ issued' \subseteq UserId
        /\ sessions' \subseteq issued' \cup Admissible' /\ sessions' \subseteq issued' \cup Identity'
    BY <2>1, <2>2 DEF Shape, TypeOK, Admissible
  <2> QED
    BY <1>c, <2>2, <2>5, <2>6, <2>7, <2>8 DEF Shape, TypeOK
<1>2. CASE Respond(r)
  <2>1. /\ Goes(r, Idle) /\ sessions' = sessions \cup {req[r].subject}
        /\ UNCHANGED <<users, issued, creds, enrolled, conf, deleted, floor, settled>>
    BY <1>2 DEF Respond, Ends, store
  <2>2. req[r].subject \in issued \cup Admissible
    BY <1>2, <1>b DEF Respond, Grounded
  <2>3. req' \in [Request -> Req] /\ \A x \in Request : Grounded(req[x])'
    BY <1>0, <2>1, OneRequest
  <2> QED
    BY <1>c, <2>1, <2>2, <2>3 DEF Shape, TypeOK, Admissible
<1>3. CASE Persist(r)
  <2> DEFINE c == req[r].cred
             record == [owner |-> req[r].user.id, count |-> req[r].count]
  <2>1. /\ creds' = Updated(c, record) /\ req[r].pc = "persist"
        /\ UNCHANGED <<conf, users, issued, enrolled, sessions, deleted, settled>>
    BY <1>3 DEF Persist
  <2>2. req[r].user.id \in issued /\ req[r].count \in 0 .. MaxCount /\ issued \subseteq UserId
    BY <1>b, <2>1 DEF Grounded, Working, Req, Shape, TypeOK
  <2>3. record \in [owner : issued, count : 0 .. MaxCount]
    BY <2>2
  <2>4. DOMAIN creds' = DOMAIN creds
        /\ \A x \in DOMAIN creds' : creds'[x] \in [owner : issued, count : 0 .. MaxCount]
    BY <2>1, <2>3 DEF Updated, Shape, TypeOK
  <2>5. PICK to \in {Granted(req[r].user.id), Idle} :
          Goes(r, to) /\ (floor' = floor \/ \E n \in {0, req[r].count, floor[c]} : floor' = [floor EXCEPT ![c] = n])
    BY <1>3 DEF Persist, Ends
  <2>6. to \in Req /\ Grounded(to)'
    <3>1. CASE to = Idle
      BY <1>0, <3>1
    <3>2. CASE to = Granted(req[r].user.id)
      <4>1. to \in Req /\ to.pc = "granted" /\ to.subject = req[r].user.id
        BY <2>2, <3>2, GrantedReq
      <4> QED
        BY <2>1, <2>2, <4>1 DEF Grounded, Working
    <3> QED
      BY <2>5, <3>1, <3>2
  <2>7. req' \in [Request -> Req] /\ \A x \in Request : Grounded(req[x])'
    BY <2>1, <2>5, <2>6, OneRequest
  <2>8. floor' \in [Passkey -> 0 .. MaxCount]
    <3>1. c \in Passkey => floor[c] \in 0 .. MaxCount
      BY DEF Shape, TypeOK
    <3>2. c \in Passkey
      BY <1>b, <2>1 DEF Grounded, Shape, TypeOK
    <3>3. 0 \in 0 .. MaxCount
      BY OperatorAssumption DEF OperatorAssumption
    <3> QED
      BY <2>2, <2>5, <3>1, <3>2, <3>3 DEF Shape, TypeOK
  <2> HIDE DEF c, record
  <2> QED
    BY <1>c, <2>1, <2>4, <2>7, <2>8 DEF Shape, TypeOK, Admissible
<1>4. CASE OwnPasskeys(r)
  <2>1. PICK to \in Req :
           /\ Goes(r, to)
           /\ \/ to = Idle /\ UNCHANGED enrolled
              \/ /\ to.pc = "save" /\ to.user \in User /\ to.user.id = req[r].user.id
                 /\ UNCHANGED enrolled
              \/ /\ to.pc = "delete" /\ to.user = req[r].user
                 /\ to.cred \in PasskeysOf(req[r].user.id) /\ UNCHANGED enrolled
              \/ /\ to.pc = "add" /\ to.user = req[r].user
                 /\ to.cred \in Enrollable(r) /\ enrolled' = enrolled \cup {to.cred}
    BY <1>4, OwnPasskeysChooses
  <2>2. UNCHANGED <<conf, users, issued, creds, sessions, deleted, floor, settled>>
    BY <1>4 DEF OwnPasskeys
  <2>3. req[r].user \in User /\ req[r].user.id \in issued
    BY <1>4, <1>b DEF OwnPasskeys, Grounded, Working
  <2>4. enrolled \subseteq enrolled' /\ enrolled' \subseteq Passkey
    BY <2>1 DEF Shape, TypeOK, Enrollable, Grounded
  <2>5. Grounded(to)'
    <3>1. CASE to = Idle
      BY <1>0, <3>1
    <3>2. CASE to.pc = "save" /\ to.user \in User /\ to.user.id = req[r].user.id
      BY <2>2, <2>3, <3>2 DEF Grounded, Working
    <3>3. CASE to.pc = "delete" /\ to.user = req[r].user /\ to.cred \in PasskeysOf(req[r].user.id)
      BY <2>2, <2>3, <2>4, <3>3 DEF Grounded, Working, PasskeysOf, Shape, TypeOK
    <3>4. CASE to.pc = "add" /\ to.user = req[r].user /\ enrolled' = enrolled \cup {to.cred}
      BY <2>2, <2>3, <3>4 DEF Grounded, Working
    <3> QED
      BY <2>1, <3>1, <3>2, <3>3, <3>4
  <2>6. req' \in [Request -> Req] /\ \A x \in Request : Grounded(req[x])'
    BY <2>1, <2>2, <2>4, <2>5, OneRequest
  <2> QED
    BY <1>c, <2>2, <2>4, <2>6 DEF Shape, TypeOK, Admissible
<1>5. CASE SavePassword(r)
  <2>1. /\ Goes(r, Idle) /\ req[r].user \in User /\ req[r].user.id \in issued
        /\ UNCHANGED <<conf, issued, creds, enrolled, sessions, deleted, floor, settled>>
    BY <1>5, <1>b DEF SavePassword, Ends, Grounded, Working
  <2>2. users' \subseteq User /\ (\A u \in users' : u.id \in issued') /\ (users' = {} => users = {})
    BY <1>5, <2>1 DEF SavePassword, Shape, TypeOK
  <2>3. req' \in [Request -> Req] /\ \A x \in Request : Grounded(req[x])'
    BY <1>0, <2>1, OneRequest
  <2> QED
    BY <1>c, <2>1, <2>2, <2>3 DEF Shape, TypeOK, Admissible
<1>6. CASE DeletePasskey(r)
  <2>1. /\ Goes(r, Idle) /\ req[r].cred \in enrolled
        /\ UNCHANGED <<conf, users, issued, enrolled, sessions, floor, settled>>
        /\ DOMAIN creds' \subseteq DOMAIN creds /\ \A x \in DOMAIN creds' : creds'[x] = creds[x]
        /\ deleted' \subseteq deleted \cup {req[r].cred}
    BY <1>6, <1>b DEF DeletePasskey, Ends, Grounded
  <2>2. req' \in [Request -> Req] /\ \A x \in Request : Grounded(req[x])'
    BY <1>0, <2>1, OneRequest
  <2> QED
    BY <1>c, <2>1, <2>2 DEF Shape, TypeOK, Admissible
<1>7. CASE AddPasskey(r)
  <2> DEFINE c == req[r].cred
             record == [owner |-> req[r].user.id, count |-> 0]
  <2>1. /\ Goes(r, Idle) /\ c \in enrolled /\ req[r].user.id \in issued
        /\ UNCHANGED <<conf, users, issued, enrolled, sessions, deleted, settled>>
    BY <1>7, <1>b DEF AddPasskey, Ends, Grounded, Working
  <2>2. \/ UNCHANGED <<creds, floor>>
        \/ creds' = UpdatedOrInserted(c, record) /\ floor' = [floor EXCEPT ![c] = 0]
    BY <1>7 DEF AddPasskey
  <2>3. req' \in [Request -> Req] /\ \A x \in Request : Grounded(req[x])'
    BY <1>0, <2>1, OneRequest
  <2>4. 0 \in 0 .. MaxCount /\ record \in [owner : issued, count : 0 .. MaxCount]
    BY <2>1, OperatorAssumption DEF OperatorAssumption
  <2> HIDE DEF c, record
  <2>5. DOMAIN creds' \subseteq enrolled
        /\ \A x \in DOMAIN creds' : creds'[x] \in [owner : issued, count : 0 .. MaxCount]
    BY <2>1, <2>2, <2>4 DEF UpdatedOrInserted, Shape, TypeOK
  <2>6. floor' \in [Passkey -> 0 .. MaxCount]
    BY <2>1, <2>2, <2>4 DEF Shape, TypeOK
  <2> QED
    BY <1>c, <2>1, <2>3, <2>5, <2>6 DEF Shape, TypeOK, Admissible
<1> QED
  BY <1>1, <1>2, <1>3, <1>4, <1>5, <1>6, <1>7

LEMMA RestartKeepsShape == Shape /\ (SessionEnds \/ Restart) => Shape'
<1> SUFFICES ASSUME Shape, SessionEnds \/ Restart PROVE Shape'
  OBVIOUS
<1>1. CASE SessionEnds
  BY <1>1 DEF SessionEnds, Watches, store, Shape, TypeOK, Grounded, Admissible
<1>2. CASE Restart
  <2>1. /\ conf' \in Deployment /\ conf'.settings = conf.settings
        /\ req' = [r \in Request |-> Idle] /\ seen' \subseteq Request
        /\ UNCHANGED <<users, issued, creds, enrolled, sessions, deleted, floor, settled>>
    BY <1>2, OperatorAssumption DEF OperatorAssumption, Restart, Watches, store, Shape, TypeOK
  <2>2. req' \in [Request -> Req] /\ \A r \in Request : req'[r] = Idle
    BY <2>1, IdleReq
  <2>3. \A r \in Request : Grounded(req[r])'
    BY <2>2, IdleReq DEF Grounded, Working
  <2> QED
    BY <2>1, <2>2, <2>3 DEF Shape, TypeOK, Admissible
<1> QED
  BY <1>1, <1>2

LEMMA ShapeNext == Shape /\ [Next]_vars => Shape'
<1> SUFFICES ASSUME Shape, [Next]_vars PROVE Shape'
  OBVIOUS
<1>1. CASE UNCHANGED vars
  BY <1>1 DEF vars, Shape, TypeOK, Grounded, Admissible
<1>2. CASE Next
  BY <1>2, ReadsKeepShape, WritesKeepShape, RestartKeepsShape DEF Next
<1> QED
  BY <1>1, <1>2

-----------------------------------------------------------------------------
(* What a request may go on to, whichever step it takes.                   *)

Takes(r, to) ==
    \/ to.pc \in {"idle", "granted"}
    \/ to.pc = "create" /\ users = {} /\ UNCHANGED users
    \/ to.pc \in {"count", "assert", "own"} /\ users # {} /\ to.user = Account /\ UNCHANGED users
    \/ /\ to.pc = "persist" /\ to.user.id = req[r].user.id /\ req[r].pc \in Working
       /\ to.cred \in DOMAIN creds /\ to.count >= creds[to.cred].count /\ UNCHANGED <<creds, floor>>
    \/ /\ to.pc \in {"save", "delete", "add"} /\ to.user.id = req[r].user.id
       /\ req[r].pc = "own" /\ req[r].pc \in Working /\ UNCHANGED deleted
       /\ to.pc = "add" => to.cred \in Enrollable(r)

Moves(r) ==
    \/ PasswordLogin(r) \/ CreateUser(r) \/ CountPasskeys(r) \/ Respond(r)
    \/ OidcLogin(r) \/ PasskeyLogin(r) \/ Asserts(r) \/ Persist(r)
    \/ OwnRequest(r) \/ OwnPasskeys(r) \/ SavePassword(r) \/ DeletePasskey(r) \/ AddPasskey(r)
    \/ StoreFails(r)

LEMMA RequestMoves ==
  ASSUME Shape, NEW r \in Request, Moves(r)
  PROVE  /\ \E to \in Req : Goes(r, to) /\ Takes(r, to)
         /\ Watches /\ UNCHANGED conf
<1>0. Idle \in Req /\ Idle.pc = "idle" /\ Takes(r, Idle)
  BY IdleReq DEF Takes
<1>a. Watches /\ UNCHANGED conf
  BY DEF Moves, PasswordLogin, CreateUser, CountPasskeys, Respond, OidcLogin, PasskeyLogin, Asserts,
     Persist, OwnRequest, OwnPasskeys, SavePassword, DeletePasskey, AddPasskey, StoreFails, Unstored
<1>b. users # {} => Account \in User
  BY AccountIsLeast DEF Shape, TypeOK
<1>c. ASSUME NEW id \in UserId \cup Identity PROVE Granted(id) \in Req /\ Takes(r, Granted(id))
  BY GrantedReq DEF Takes
<1>d. ASSUME Unstored PROVE UNCHANGED <<users, creds, floor, deleted>>
  BY <1>d DEF Unstored, store
<1>1. CASE PasswordLogin(r)
  <2> DEFINE to == IF users = {} THEN [Idle EXCEPT !.pc = "create"]
                   ELSE [Idle EXCEPT !.pc = "count", !.user = Account]
  <2>1. Goes(r, to) /\ UNCHANGED users
    BY <1>1, <1>d DEF PasswordLogin, Bootstraps
  <2>2. to \in Req /\ \/ to.pc = "create" /\ users = {}
                      \/ to.pc = "count" /\ users # {} /\ to.user = Account
    BY <1>0, <1>b DEF Req
  <2> HIDE DEF to
  <2> QED
    BY <1>a, <2>1, <2>2 DEF Takes
<1>2. CASE CreateUser(r)
  <2>1. PICK id \in UserId : Goes(r, Granted(id))
    BY <1>2 DEF CreateUser
  <2> QED
    BY <1>a, <1>c, <2>1
<1>3. CASE CountPasskeys(r) \/ Persist(r)
  <2>1. req[r].user.id \in UserId
    BY <1>3 DEF CountPasskeys, Persist, Working, Shape, TypeOK, Grounded
  <2>2. Goes(r, Granted(req[r].user.id)) \/ Goes(r, Idle)
    BY <1>3 DEF CountPasskeys, Persist, Ends
  <2> QED
    BY <1>0, <1>a, <1>c, <2>1, <2>2
<1>4. CASE OidcLogin(r)
  <2>1. PICK i \in Identity : Goes(r, Granted(i))
    BY <1>4 DEF OidcLogin
  <2> QED
    BY <1>a, <1>c, <2>1
<1>5. CASE PasskeyLogin(r)
  <2> DEFINE to == [Idle EXCEPT !.pc = "assert", !.user = Account]
  <2>1. Goes(r, to) /\ users # {} /\ UNCHANGED users
    BY <1>5, <1>d DEF PasskeyLogin
  <2>2. to \in Req /\ to.pc = "assert" /\ to.user = Account
    BY <1>0, <1>b, <2>1 DEF Req
  <2> HIDE DEF to
  <2> QED
    BY <1>a, <2>1, <2>2 DEF Takes
<1>6. CASE OwnRequest(r)
  <2>1. PICK s \in sessions : Goes(r, [Idle EXCEPT !.pc = "own", !.subject = s, !.user = Account])
    BY <1>6 DEF OwnRequest
  <2> DEFINE to == [Idle EXCEPT !.pc = "own", !.subject = s, !.user = Account]
  <2>2. users # {} /\ UNCHANGED users /\ s \in UserId \cup Identity
    BY <1>6, <1>d DEF OwnRequest, Shape, TypeOK
  <2>3. to \in Req /\ to.pc = "own" /\ to.user = Account
    BY <1>0, <1>b, <2>2 DEF Req
  <2>4. Goes(r, to)
    BY <2>1
  <2> HIDE DEF to
  <2> QED
    BY <1>a, <2>2, <2>3, <2>4 DEF Takes
<1>7. CASE Asserts(r)
  <2>1. PICK to \in Req :
          /\ Goes(r, to)
          /\ \/ to = Idle
             \/ /\ to.pc = "persist" /\ to.user = req[r].user
                /\ to.cred \in PasskeysOf(req[r].user.id) /\ to.count >= creds[to.cred].count
    BY <1>7, AssertsChooses
  <2>2. UNCHANGED <<creds, floor>> /\ req[r].pc \in Working
    BY <1>7, <1>d DEF Asserts, Working
  <2> QED
    BY <1>0, <1>a, <2>1, <2>2 DEF Takes, PasskeysOf
<1>8. CASE OwnPasskeys(r)
  <2>1. PICK to \in Req :
           /\ Goes(r, to)
           /\ \/ to = Idle
              \/ to.pc = "save" /\ to.user.id = req[r].user.id
              \/ to.pc = "delete" /\ to.user = req[r].user
              \/ to.pc = "add" /\ to.user = req[r].user /\ to.cred \in Enrollable(r)
    BY <1>8, OwnPasskeysChooses
  <2>2. UNCHANGED deleted /\ req[r].pc = "own" /\ req[r].pc \in Working
    BY <1>8 DEF OwnPasskeys, Working
  <2> QED
    BY <1>0, <1>a, <2>1, <2>2 DEF Takes
<1>9. CASE Respond(r) \/ SavePassword(r) \/ DeletePasskey(r) \/ AddPasskey(r) \/ StoreFails(r)
  <2>1. Goes(r, Idle)
    BY <1>9 DEF Respond, SavePassword, DeletePasskey, AddPasskey, StoreFails, Ends
  <2> QED
    BY <1>0, <1>a, <2>1
<1> QED
  BY <1>1, <1>2, <1>3, <1>4, <1>5, <1>6, <1>7, <1>8, <1>9 DEF Moves

\* Every step is a request's, or one of these.
LEMMA Steps ==
  [Next]_vars => (\E r \in Request : Moves(r)) \/ SessionEnds \/ Restart \/ UNCHANGED vars
  BY DEF Next, Moves

\* All requests but one stay where they are.
LEMMA OthersStay ==
  ASSUME Shape, NEW r \in Request, NEW to, Goes(r, to)
  PROVE  req'[r] = to /\ \A x \in Request \ {r} : req'[x] = req[x]
  BY DEF Goes, Shape, TypeOK

-----------------------------------------------------------------------------
(* The account, and the passkeys that are gone.                            *)

\* The first account is the only one, and nobody is about to create another.
SettledIsAlone == settled # Nobody => issued = {settled} /\ \A r \in Request : req[r].pc # "create"

LEMMA SettledNext == Shape /\ SettledIsAlone /\ [Next]_vars => SettledIsAlone'
<1> SUFFICES ASSUME Shape, SettledIsAlone, [Next]_vars, settled' # Nobody
             PROVE  issued' = {settled'} /\ \A x \in Request : req'[x].pc # "create"
  BY DEF SettledIsAlone
<1>1. ASSUME NEW r \in Request, CreateUser(r)
      PROVE  issued' = {settled'} /\ \A x \in Request : req'[x].pc # "create"
  <2>1. PICK id \in UserId \ issued :
          /\ issued' = issued \cup {id}
          /\ settled' = IF users = {} /\ ~Creating(r) THEN id ELSE settled
          /\ Goes(r, Granted(id))
    BY <1>1 DEF CreateUser
  <2>2. users = {} /\ ~Creating(r) /\ settled' = id
    BY <1>1, <2>1 DEF SettledIsAlone, CreateUser
  <2>3. issued' = {settled'}
    BY <2>1, <2>2 DEF Shape
  <2>4. Granted(id).pc = "granted"
    BY GrantedReq
  <2> QED
    BY <2>1, <2>2, <2>3, <2>4, OthersStay DEF Creating
<1>2. ASSUME NEW r \in Request, Moves(r), ~CreateUser(r)
      PROVE  issued' = {settled'} /\ \A x \in Request : req'[x].pc # "create"
  <2>1. UNCHANGED <<issued, settled>>
    BY <1>2 DEF Moves, PasswordLogin, CountPasskeys, Respond, OidcLogin, PasskeyLogin, Asserts,
       Persist, OwnRequest, OwnPasskeys, SavePassword, DeletePasskey, AddPasskey, StoreFails,
       Unstored, store
  <2>2. issued = {settled} /\ users # {} /\ \A x \in Request : req[x].pc # "create"
    BY <2>1 DEF SettledIsAlone, Shape
  <2>3. PICK to \in Req : Goes(r, to) /\ Takes(r, to)
    BY <1>2, RequestMoves
  <2>4. to.pc # "create"
    BY <2>2, <2>3 DEF Takes
  <2> QED
    BY <2>1, <2>2, <2>3, <2>4, OthersStay
<1>3. CASE SessionEnds \/ UNCHANGED vars
  BY <1>3 DEF SettledIsAlone, SessionEnds, vars, store
<1>4. CASE Restart
  BY <1>4, IdleReq DEF SettledIsAlone, Restart, store
<1> QED
  BY <1>1, <1>2, <1>3, <1>4, Steps

\* No enrolment in flight is of a deleted passkey.
AddsAreNew == \A r \in Request : req[r].pc = "add" => req[r].cred \notin deleted

LEMMA DeletedNext ==
  Shape /\ DeletedPasskeysStayDeleted /\ AddsAreNew /\ [Next]_vars
    => DeletedPasskeysStayDeleted' /\ AddsAreNew'
<1> SUFFICES ASSUME Shape, DeletedPasskeysStayDeleted, AddsAreNew, [Next]_vars
             PROVE  DeletedPasskeysStayDeleted' /\ AddsAreNew'
  OBVIOUS
<1>1. ASSUME NEW r \in Request, DeletePasskey(r)
      PROVE  DeletedPasskeysStayDeleted' /\ AddsAreNew'
  <2> DEFINE c == req[r].cred
  <2>1. /\ DOMAIN creds' = DOMAIN creds \ {c} /\ Goes(r, Idle)
        /\ deleted' = IF \E g \in Request : req[g].pc = "add" /\ req[g].cred = c
                      THEN deleted ELSE deleted \cup {c}
    BY <1>1 DEF DeletePasskey, Ends
  <2>2. DeletedPasskeysStayDeleted'
    BY <2>1 DEF DeletedPasskeysStayDeleted
  <2>3. \A x \in Request : req[x].pc = "add" => req[x].cred \notin deleted'
    BY <2>1 DEF AddsAreNew
  <2> QED
    BY <2>1, <2>2, <2>3, IdleReq, OthersStay DEF AddsAreNew
<1>2. ASSUME NEW r \in Request, Moves(r), ~DeletePasskey(r)
      PROVE  DeletedPasskeysStayDeleted' /\ AddsAreNew'
  <2>1. UNCHANGED deleted
    BY <1>2 DEF Moves, PasswordLogin, CreateUser, CountPasskeys, Respond, OidcLogin, PasskeyLogin,
       Asserts, Persist, OwnRequest, OwnPasskeys, SavePassword, AddPasskey, StoreFails, Unstored
  <2>2. DOMAIN creds' \subseteq DOMAIN creds \cup {x \in {req[r].cred} : req[r].pc = "add"}
    <3>1. CASE AddPasskey(r)
      BY <3>1 DEF AddPasskey, UpdatedOrInserted
    <3>2. CASE Persist(r)
      BY <3>2 DEF Persist, Updated
    <3>3. CASE ~AddPasskey(r) /\ ~Persist(r)
      BY <1>2, <3>3 DEF Moves, PasswordLogin, CreateUser, CountPasskeys, Respond, OidcLogin,
         PasskeyLogin, Asserts, OwnRequest, OwnPasskeys, SavePassword, StoreFails, Unstored, store
    <3> QED
      BY <3>1, <3>2, <3>3
  <2>3. DeletedPasskeysStayDeleted'
    BY <2>1, <2>2 DEF DeletedPasskeysStayDeleted, AddsAreNew
  <2>4. PICK to \in Req : Goes(r, to) /\ Takes(r, to)
    BY <1>2, RequestMoves
  <2>5. to.pc = "add" => to.cred \notin deleted
    <3>1. deleted \subseteq enrolled
      BY DEF Shape, TypeOK
    <3> QED
      BY <2>4, <3>1 DEF Takes, Enrollable, AddsAreNew
  <2> QED
    BY <2>1, <2>3, <2>4, <2>5, OthersStay DEF AddsAreNew
<1>3. CASE SessionEnds \/ UNCHANGED vars
  BY <1>3 DEF DeletedPasskeysStayDeleted, AddsAreNew, SessionEnds, vars, store
<1>4. CASE Restart
  BY <1>4, IdleReq DEF DeletedPasskeysStayDeleted, AddsAreNew, Restart, store
<1> QED
  BY <1>1, <1>2, <1>3, <1>4, Steps

-----------------------------------------------------------------------------
(* The sign counts.                                                        *)

\* A count that is about to be stored is as high as any that was accepted alone.
CountsRise == \A r \in Request : req[r].pc = "persist" => req[r].count >= floor[req[r].cred]

LEMMA CountsNext ==
  Shape /\ SignCountIsKept /\ CountsRise /\ [Next]_vars => SignCountIsKept' /\ CountsRise'
<1> SUFFICES ASSUME Shape, SignCountIsKept, CountsRise, [Next]_vars
             PROVE  SignCountIsKept' /\ CountsRise'
  OBVIOUS
<1>0. /\ \A c \in Passkey : floor[c] \in Nat
      /\ \A x \in Request : req[x].count \in Nat /\ (req[x].pc = "persist" => req[x].cred \in Passkey)
      /\ DOMAIN creds \subseteq Passkey /\ floor \in [Passkey -> Nat]
      /\ \A c \in DOMAIN creds : creds[c].count \in Nat
  BY OperatorAssumption DEF OperatorAssumption, Shape, TypeOK, Grounded, Req
<1>1. ASSUME NEW r \in Request, Persist(r)
      PROVE  SignCountIsKept' /\ CountsRise'
  <2> DEFINE c == req[r].cred
             n == req[r].count
  <2>1. /\ creds' = Updated(c, [owner |-> req[r].user.id, count |-> n])
        /\ IF c \in DOMAIN creds
           THEN floor' = [floor EXCEPT ![c] =
                            IF Others(r, c) THEN 0 ELSE IF n > floor[c] THEN n ELSE floor[c]]
           ELSE UNCHANGED floor
        /\ req[r].pc = "persist"
    BY <1>1 DEF Persist
  <2>2. c \in Passkey /\ n \in Nat /\ n >= floor[c] /\ floor[c] \in Nat
    BY <1>0, <2>1 DEF CountsRise
  <2>3. /\ DOMAIN creds' = DOMAIN creds
        /\ \A x \in DOMAIN creds : creds'[x].count = IF x = c THEN n ELSE creds[x].count
    BY <2>1 DEF Updated
  <2>4. /\ \A x \in Passkey \ {c} : floor'[x] = floor[x]
        /\ floor'[c] <= n /\ (Others(r, c) => floor'[c] = 0 \/ floor'[c] = floor[c])
    BY <1>0, <2>1, <2>2
  <2>5. SignCountIsKept'
    BY <1>0, <2>3, <2>4 DEF SignCountIsKept
  <2>6. PICK to \in Req : Goes(r, to) /\ to.pc # "persist"
    <3>1. req[r].user.id \in UserId
      BY <2>1 DEF Working, Shape, TypeOK, Grounded
    <3>2. Goes(r, Granted(req[r].user.id)) \/ Goes(r, Idle)
      BY <1>1 DEF Persist, Ends
    <3> QED
      BY <3>1, <3>2, GrantedReq, IdleReq
  <2>7. ASSUME NEW x \in Request, req'[x].pc = "persist" PROVE req'[x].count >= floor'[req'[x].cred]
    <3>1. x # r /\ req'[x] = req[x] /\ req[x].pc = "persist"
      BY <2>6, <2>7, OthersStay
    <3>2. req[x].count >= floor[req[x].cred] /\ req[x].count \in Nat /\ req[x].cred \in Passkey
      BY <1>0, <3>1 DEF CountsRise
    <3>3. req[x].cred = c => Others(r, c)
      BY <3>1 DEF Others
    <3> QED
      BY <2>4, <3>1, <3>2, <3>3
  <2> QED
    BY <2>5, <2>7 DEF CountsRise
<1>2. ASSUME NEW r \in Request, Moves(r), ~Persist(r)
      PROVE  SignCountIsKept' /\ CountsRise'
  <2> DEFINE c == req[r].cred
  <2>1. \/ UNCHANGED <<creds, floor>>
        \/ /\ req[r].pc = "add" /\ creds' = UpdatedOrInserted(c, [owner |-> req[r].user.id, count |-> 0])
           /\ floor' = [floor EXCEPT ![c] = 0]
        \/ creds' = [x \in DOMAIN creds \ {c} |-> creds[x]] /\ UNCHANGED floor
    <3>1. CASE AddPasskey(r)
      BY <3>1 DEF AddPasskey
    <3>2. CASE DeletePasskey(r)
      BY <3>2 DEF DeletePasskey
    <3>3. CASE ~AddPasskey(r) /\ ~DeletePasskey(r)
      BY <1>2, <3>3 DEF Moves, PasswordLogin, CreateUser, CountPasskeys, Respond, OidcLogin,
         PasskeyLogin, Asserts, OwnRequest, OwnPasskeys, SavePassword, StoreFails, Unstored, store
    <3> QED
      BY <3>1, <3>2, <3>3
  <2>2. \A x \in Passkey : floor'[x] \in {0, floor[x]}
    BY <1>0, <2>1
  <2>3. SignCountIsKept'
    <3>1. CASE UNCHANGED <<creds, floor>>
      BY <3>1 DEF SignCountIsKept
    <3>2. CASE /\ req[r].pc = "add" /\ creds' = UpdatedOrInserted(c, [owner |-> req[r].user.id, count |-> 0])
               /\ floor' = [floor EXCEPT ![c] = 0]
      <4>1. c \in Passkey
        BY <3>2 DEF Shape, TypeOK, Grounded
      <4> QED
        BY <1>0, <3>2, <4>1 DEF SignCountIsKept, UpdatedOrInserted
    <3>3. CASE creds' = [x \in DOMAIN creds \ {c} |-> creds[x]] /\ UNCHANGED floor
      BY <3>3 DEF SignCountIsKept
    <3> QED
      BY <2>1, <3>1, <3>2, <3>3
  <2>4. PICK to \in Req : Goes(r, to) /\ Takes(r, to)
    BY <1>2, RequestMoves
  <2>5. ASSUME NEW x \in Request, req'[x].pc = "persist" PROVE req'[x].count >= floor'[req'[x].cred]
    <3>1. CASE x # r
      <4>1. req'[x] = req[x]
        BY <2>4, <3>1, OthersStay
      <4>2. req[x].count >= floor[req[x].cred] /\ req[x].count \in Nat /\ req[x].cred \in Passkey
        BY <1>0, <2>5, <4>1 DEF CountsRise
      <4> QED
        BY <1>0, <2>2, <4>1, <4>2
    <3>2. CASE x = r
      <4>1. req'[x] = to
        BY <2>4, <3>2, OthersStay
      <4>2. to.cred \in DOMAIN creds /\ to.count >= creds[to.cred].count /\ UNCHANGED floor
        BY <2>4, <2>5, <4>1 DEF Takes
      <4>3. to.count \in Nat
        BY DEF Req
      <4> QED
        BY <1>0, <4>1, <4>2, <4>3 DEF SignCountIsKept
    <3> QED
      BY <3>1, <3>2
  <2> QED
    BY <2>3, <2>5 DEF CountsRise
<1>3. CASE SessionEnds \/ UNCHANGED vars
  BY <1>3 DEF SignCountIsKept, CountsRise, SessionEnds, vars, store
<1>4. CASE Restart
  BY <1>4, IdleReq DEF SignCountIsKept, CountsRise, Restart, store
<1> QED
  BY <1>1, <1>2, <1>3, <1>4, Steps

-----------------------------------------------------------------------------
(* The password login.                                                     *)

\* Whoever read an account with the flag off, or none, saw the login active.
WitnessesSaw == \A r \in Request :
    req[r].pc = "create" \/ (req[r].pc = "count" /\ ~req[r].user.disabled) => r \in seen

LEMMA WitnessesNext == Shape /\ WitnessesSaw /\ [Next]_vars => WitnessesSaw'
<1> SUFFICES ASSUME Shape, WitnessesSaw, [Next]_vars PROVE WitnessesSaw'
  OBVIOUS
<1>0. Shape'
  BY ShapeNext
<1>1. ASSUME NEW r \in Request, Moves(r) PROVE WitnessesSaw'
  <2>1. PICK to \in Req : Goes(r, to) /\ Takes(r, to)
    BY <1>1, RequestMoves
  <2>2. Watches
    BY <1>1, RequestMoves
  <2> SUFFICES ASSUME NEW x \in Request,
                      req'[x].pc = "create" \/ (req'[x].pc = "count" /\ ~req'[x].user.disabled)
               PROVE  x \in seen \/ PasswordOpen'
    BY <2>2 DEF WitnessesSaw, Watches
  <2>3. CASE x # r
    BY <2>1, <2>3, OthersStay DEF WitnessesSaw
  <2>4. CASE x = r
    <3>1. req'[x] = to
      BY <2>1, <2>4, OthersStay
    <3>2. conf'.hashed
      BY <1>0, <3>1 DEF Shape, Grounded
    <3>3. CASE to.pc = "create"
      BY <2>1, <3>2, <3>3 DEF Takes, PasswordOpen
    <3>4. CASE to.pc = "count" /\ ~to.user.disabled
      <4>1. to.user = Account /\ users' = users
        BY <2>1, <3>4 DEF Takes
      <4>2. Account' = Account
        BY <4>1 DEF Account
      <4> QED
        BY <3>2, <3>4, <4>1, <4>2 DEF PasswordOpen
    <3> QED
      BY <3>1, <3>3, <3>4
  <2> QED
    BY <2>3, <2>4
<1>2. CASE SessionEnds
  BY <1>2 DEF SessionEnds, WitnessesSaw, Watches
<1>3. CASE Restart
  BY <1>3, IdleReq DEF WitnessesSaw, Restart
<1>4. CASE UNCHANGED vars
  BY <1>4 DEF WitnessesSaw, vars
<1> QED
  BY <1>1, <1>2, <1>3, <1>4, Steps

LEMMA GrantsWereAllowed ==
  ASSUME Shape, SettledIsAlone, WitnessesSaw, [Next]_vars, NEW r \in Request,
         req[r].pc = "create" \/ (req[r].pc = "count" /\ settled # Nobody),
         req'[r].pc = "granted"
  PROVE  r \in seen \/ PasswordOpen
<1>1. CASE req[r].pc = "create"
  BY <1>1 DEF WitnessesSaw
<1>2. CASE req[r].pc = "count" /\ settled # Nobody
  <2>1. CountPasskeys(r)
    <3>1. req'[r] # req[r] /\ ~Restart /\ ~SessionEnds
      BY <1>2, IdleReq DEF Restart, SessionEnds
    <3>2. PICK x \in Request : Moves(x)
      BY <3>1, Steps DEF vars
    <3>3. x = r
      BY <3>1, <3>2, RequestMoves, OthersStay
    <3>4. ~StoreFails(r)
      BY IdleReq, OthersStay DEF StoreFails, Ends
    <3> QED
      BY <1>2, <3>2, <3>3, <3>4 DEF Moves, PasswordLogin, CreateUser, CountPasskeys, Respond,
         OidcLogin, PasskeyLogin, Asserts, Persist, OwnRequest, OwnPasskeys, SavePassword,
         DeletePasskey, AddPasskey
  <2> DEFINE u == req[r].user
  <2>2. conf.hashed /\ (~u.disabled \/ PasskeysOf(u.id) = {})
    BY <2>1, IdleReq, OthersStay DEF CountPasskeys, Ends, IsPasswordLoginActive
  <2>3. CASE ~u.disabled
    BY <1>2, <2>3 DEF WitnessesSaw
  <2>4. CASE PasskeysOf(u.id) = {}
    <3>1. u.id \in issued /\ issued = {settled} /\ users # {}
      BY <1>2 DEF SettledIsAlone, Shape, Grounded, Working
    <3>2. Account.id = u.id
      BY <3>1, AccountIsLeast DEF Shape, TypeOK
    <3> QED
      BY <2>2, <2>4, <3>2 DEF PasswordOpen, HasEnrolledPasskey
  <2> QED
    BY <2>2, <2>3, <2>4
<1> QED
  BY <1>1, <1>2

-----------------------------------------------------------------------------
(* Locking oneself out.                                                    *)

\* Without a password no account is created, so every request has the one account.
OneAccountUnhashed ==
    ~conf.hashed => \A r \in Request : req[r].pc \in Working => req[r].user.id = Account.id

\* SQLite matches the row by its ID, so a save does not change which rows there are.
LEMMA RowsKeepAccount ==
  ASSUME Shape, NEW r \in Request, SavePassword(r), conf.backend # "kvs", users # {}
  PROVE  users' # {} /\ Account'.id = Account.id
<1> DEFINE u == req[r].user
<1>1. u \in User /\ users \subseteq User
  BY DEF SavePassword, Shape, TypeOK, Grounded, Working
<1>2. users' = {IF v.id = u.id THEN u ELSE v : v \in users}
  BY DEF SavePassword
<1>3. users' # {} /\ users' \subseteq User
  BY <1>1, <1>2
<1>4. Account' \in users' /\ \A v \in users' : Account'.id <= v.id
  BY <1>3, LeastUser DEF Account
<1>5. Account \in users /\ \A v \in users : Account.id <= v.id
  BY <1>1, AccountIsLeast
<1>6. /\ \A v \in users : \E w \in users' : w.id = v.id
      /\ \A w \in users' : \E v \in users : w.id = v.id
  BY <1>2
<1>7. Account'.id \in Nat /\ Account.id \in Nat
  BY <1>1, <1>3, <1>4, <1>5, OperatorAssumption DEF OperatorAssumption, User
<1>8. Account.id <= Account'.id /\ Account'.id <= Account.id
  BY <1>4, <1>5, <1>6
<1> QED
  BY <1>3, <1>7, <1>8

\* On bbolt the record that is saved becomes the account.
LEMMA SaveKeepsAccount ==
  ASSUME Shape, NEW r \in Request, SavePassword(r), req[r].user.id = Account.id
  PROVE  users' # {} /\ Account'.id = Account.id
<1>1. CASE conf.backend = "kvs"
  <2> DEFINE u == req[r].user
  <2>1. u \in User /\ users' = {u}
    BY <1>1 DEF SavePassword, Shape, TypeOK, Grounded, Working
  <2>2. Account' \in users'
    BY <2>1, LeastUser DEF Account
  <2> QED
    BY <2>1, <2>2
<1>2. CASE conf.backend # "kvs"
  <2>1. users # {}
    BY DEF SavePassword, Shape, Grounded, Working
  <2> QED
    BY <1>2, <2>1, RowsKeepAccount
<1> QED
  BY <1>1, <1>2

\* A request that begins or goes on does so with the account of the moment or its own, and
\* none begins to create an account when there is one.
LEMMA NobodyReplaces ==
  ASSUME Shape, users # {}, Account'.id = Account.id, UNCHANGED conf, NEW r \in Request,
         NEW to \in Req, Goes(r, to), Takes(r, to), \A x \in Request : ~Replacing(x)
  PROVE  \A x \in Request : ~Replacing(x)'
<1> SUFFICES ASSUME NEW x \in Request PROVE ~Replacing(x)'
  OBVIOUS
<1>1. req'[r] = to /\ (x # r => req'[x] = req[x])
  BY OthersStay
<1>2. CASE x # r
  <2>1. ~Replacing(x) /\ req'[x] = req[x]
    BY <1>1, <1>2
  <2> QED
    BY <2>1 DEF Replacing
<1>3. CASE x = r
  <2>1. to.pc # "create"
    BY DEF Takes
  <2>2. to.pc \in {"own", "save"} => to.user.id = Account.id \/ (req[r].pc = "own" /\ to.user.id = req[r].user.id)
    BY DEF Takes
  <2>3. ~Replacing(r)
    OBVIOUS
  <2>4. req'[x] = to
    BY <1>1, <1>3
  <2> QED
    BY <2>1, <2>2, <2>3, <2>4 DEF Replacing
<1> QED
  BY <1>2, <1>3

\* The account changes by a creation, or on bbolt by a save of another account's record.
LEMMA AccountStep ==
  ASSUME Shape, [Next]_vars, users # {}
  PROVE  /\ users' # {}
         /\ Account'.id = Account.id \/ \E r \in Request : Replacing(r) /\ req'[r] # req[r]
         /\ (\A r \in Request : ~Replacing(r)) => (\A r \in Request : ~Replacing(r)')
<1>a. ASSUME UNCHANGED users PROVE users' # {} /\ Account' = Account
  BY <1>a DEF Account
<1>1. ASSUME NEW r \in Request, Moves(r)
      PROVE  /\ users' # {}
             /\ Account'.id = Account.id \/ (Replacing(r) /\ req'[r] # req[r])
             /\ (\A x \in Request : ~Replacing(x)) => (\A x \in Request : ~Replacing(x)')
  <2>1. PICK to \in Req : Goes(r, to) /\ Takes(r, to) /\ UNCHANGED conf
    BY <1>1, RequestMoves
  <2>2. req'[r] = to
    BY <2>1, OthersStay
  <2>3. CASE CreateUser(r)
    <3>1. req[r].pc = "create" /\ users' # {} /\ to.pc = "granted"
      <4>1. PICK id \in UserId : Goes(r, Granted(id)) /\ users' # {}
        BY <2>3 DEF CreateUser
      <4> QED
        BY <2>2, <2>3, <4>1, OthersStay, GrantedReq DEF CreateUser
    <3> QED
      BY <2>2, <3>1 DEF Replacing
  <2>4. CASE SavePassword(r)
    <3>1. req[r].pc = "save" /\ to.pc = "idle"
      BY <2>2, <2>4, IdleReq, OthersStay DEF SavePassword, Ends
    <3>2. CASE req[r].user.id = Account.id
      <4>1. users' # {} /\ Account'.id = Account.id
        BY <2>4, <3>2, SaveKeepsAccount
      <4> QED
        BY <2>1, <4>1, NobodyReplaces
    <3>3. CASE req[r].user.id # Account.id /\ conf.backend = "kvs"
      <4>1. users' # {}
        BY <2>4, <3>3 DEF SavePassword
      <4> QED
        BY <2>2, <3>1, <3>3, <4>1 DEF Replacing
    <3>4. CASE conf.backend # "kvs"
      <4>1. users' # {} /\ Account'.id = Account.id
        BY <2>4, <3>4, RowsKeepAccount
      <4> QED
        BY <2>1, <4>1, NobodyReplaces
    <3> QED
      BY <3>2, <3>3, <3>4
  <2>5. CASE ~CreateUser(r) /\ ~SavePassword(r)
    <3>1. UNCHANGED users
      BY <1>1, <2>5 DEF Moves, PasswordLogin, CountPasskeys, Respond, OidcLogin, PasskeyLogin,
         Asserts, Persist, OwnRequest, OwnPasskeys, DeletePasskey, AddPasskey, StoreFails,
         Unstored, store
    <3> QED
      BY <1>a, <2>1, <3>1, NobodyReplaces
  <2> QED
    BY <2>3, <2>4, <2>5
<1>2. CASE SessionEnds \/ UNCHANGED vars
  <2>1. UNCHANGED <<users, req, conf>>
    BY <1>2 DEF SessionEnds, vars, store
  <2> QED
    BY <1>a, <2>1 DEF Replacing
<1>3. CASE Restart
  <2>1. UNCHANGED users /\ req' = [r \in Request |-> Idle]
    BY <1>3 DEF Restart, store
  <2> QED
    BY <1>a, <2>1, IdleReq DEF Replacing
<1> QED
  BY <1>1, <1>2, <1>3, Steps

LEMMA OneAccountNext == Shape /\ OneAccountUnhashed /\ [Next]_vars => OneAccountUnhashed'
<1> SUFFICES ASSUME Shape, OneAccountUnhashed, [Next]_vars, ~conf'.hashed,
                    NEW x \in Request, req'[x].pc \in Working
             PROVE  req'[x].user.id = Account'.id
  BY DEF OneAccountUnhashed
<1>0. UNCHANGED users => Account' = Account
  BY DEF Account
<1>1. ASSUME NEW r \in Request, Moves(r) PROVE req'[x].user.id = Account'.id
  <2>1. PICK to \in Req : Goes(r, to) /\ Takes(r, to) /\ UNCHANGED conf
    BY <1>1, RequestMoves
  <2>2. \A y \in Request : req[y].pc \in Working => req[y].user.id = Account.id
    BY <2>1 DEF OneAccountUnhashed
  <2>3. Account'.id = Account.id
    <3>1. CASE SavePassword(r)
      BY <2>2, <3>1, SaveKeepsAccount DEF SavePassword, Working
    <3>2. CASE CreateUser(r)
      BY <2>1, <3>2 DEF CreateUser, Shape, Grounded
    <3>3. CASE ~SavePassword(r) /\ ~CreateUser(r)
      <4>1. UNCHANGED users
        BY <1>1, <3>3 DEF Moves, PasswordLogin, CountPasskeys, Respond, OidcLogin, PasskeyLogin,
           Asserts, Persist, OwnRequest, OwnPasskeys, DeletePasskey, AddPasskey, StoreFails,
           Unstored, store
      <4> QED
        BY <1>0, <4>1
    <3> QED
      BY <3>1, <3>2, <3>3
  <2>4. CASE x # r
    BY <2>1, <2>2, <2>3, <2>4, OthersStay
  <2>5. CASE x = r
    <3>1. req'[x] = to
      BY <2>1, <2>5, OthersStay
    <3>2. to.user = Account \/ (to.user.id = req[r].user.id /\ req[r].pc \in Working)
      BY <2>1, <3>1 DEF Takes, Working
    <3> QED
      BY <2>2, <2>3, <3>1, <3>2
  <2> QED
    BY <2>4, <2>5
<1>2. CASE SessionEnds
  BY <1>0, <1>2 DEF SessionEnds, store, OneAccountUnhashed
<1>3. CASE Restart
  BY <1>3, IdleReq DEF Restart, Working
<1>4. CASE UNCHANGED vars
  BY <1>0, <1>4 DEF vars, OneAccountUnhashed
<1> QED
  BY <1>1, <1>2, <1>3, <1>4, Steps

\* A step that leaves the passkeys' IDs alone leaves the account one that can log in.
LEMMA PasskeysAreKept ==
  ASSUME Shape, OneAccountUnhashed, [Next]_vars, ~conf.hashed, UNCHANGED conf,
         HasEnrolledPasskey, DOMAIN creds' = DOMAIN creds
  PROVE  HasEnrolledPasskey'
<1>1. PICK c \in DOMAIN creds : users # {} /\ creds[c].owner = Account.id
  BY DEF HasEnrolledPasskey, PasskeysOf
<1> SUFFICES users' # {} /\ creds'[c].owner = Account'.id
  BY DEF HasEnrolledPasskey, PasskeysOf
<1>2. \A r \in Request : req[r].pc \in Working => req[r].user.id = Account.id
  BY DEF OneAccountUnhashed
<1>3. users' # {} /\ Account'.id = Account.id
  <2>1. UNCHANGED users => users' # {} /\ Account' = Account
    BY <1>1 DEF Account
  <2>2. ASSUME NEW r \in Request, Moves(r) PROVE users' # {} /\ Account'.id = Account.id
    <3>1. CASE SavePassword(r)
      BY <1>2, <3>1, SaveKeepsAccount DEF SavePassword, Working
    <3>2. CASE CreateUser(r)
      BY <3>2 DEF CreateUser, Shape, Grounded
    <3>3. CASE ~SavePassword(r) /\ ~CreateUser(r)
      <4>1. UNCHANGED users
        BY <2>2, <3>3 DEF Moves, PasswordLogin, CountPasskeys, Respond, OidcLogin, PasskeyLogin,
           Asserts, Persist, OwnRequest, OwnPasskeys, DeletePasskey, AddPasskey, StoreFails,
           Unstored, store
      <4> QED
        BY <2>1, <4>1
    <3> QED
      BY <3>1, <3>2, <3>3
  <2>3. CASE SessionEnds \/ Restart \/ UNCHANGED vars
    BY <2>1, <2>3 DEF SessionEnds, Restart, vars, store
  <2> QED
    BY <2>2, <2>3, Steps
<1>4. creds'[c].owner = creds[c].owner \/ creds'[c].owner = Account.id
  <2>1. ASSUME NEW r \in Request, Moves(r) PROVE creds'[c].owner \in {creds[c].owner, Account.id}
    <3>1. CASE Persist(r)
      <4>1. req[r].user.id = Account.id
        BY <1>2, <3>1 DEF Persist, Working
      <4> QED
        BY <3>1, <4>1 DEF Persist, Updated
    <3>2. CASE AddPasskey(r)
      <4>1. req[r].user.id = Account.id
        BY <1>2, <3>2 DEF AddPasskey, Working
      <4> QED
        BY <3>2, <4>1 DEF AddPasskey, UpdatedOrInserted
    <3>3. CASE DeletePasskey(r)
      BY <3>3 DEF DeletePasskey
    <3>4. CASE ~Persist(r) /\ ~AddPasskey(r) /\ ~DeletePasskey(r)
      BY <2>1, <3>4 DEF Moves, PasswordLogin, CreateUser, CountPasskeys, Respond, OidcLogin,
         PasskeyLogin, Asserts, OwnRequest, OwnPasskeys, SavePassword, StoreFails, Unstored, store
    <3> QED
      BY <3>1, <3>2, <3>3, <3>4
  <2>2. CASE SessionEnds \/ Restart \/ UNCHANGED vars
    BY <2>2 DEF SessionEnds, Restart, vars, store
  <2> QED
    BY <2>1, <2>2, Steps
<1> QED
  BY <1>1, <1>3, <1>4

LEMMA LockoutIsOwn ==
  ASSUME Shape, OneAccountUnhashed, [Next]_vars, CanLogIn
  PROVE  \/ CanLogIn'
         \/ ~conf'.hashed /\ conf' = conf /\ DOMAIN creds' # DOMAIN creds
<1>1. CASE conf'.hashed \/ HasProvider(conf)'
  BY <1>1 DEF CanLogIn, IsPasswordLoginActive, HasEnrolledPasskey
<1>2. CASE ~conf'.hashed /\ ~HasProvider(conf)'
  <2>1. CASE Restart
    <3>1. UNCHANGED <<users, creds>> /\ Starts(conf')
      BY <2>1 DEF Restart, store
    <3>2. HasEnrolledPasskey
      BY <1>2, <3>1 DEF Starts, HasProvider
    <3>3. HasEnrolledPasskey'
      BY <3>1, <3>2 DEF HasEnrolledPasskey, PasskeysOf, Account
    <3> QED
      BY <3>3 DEF CanLogIn
  <2>2. CASE ~Restart
    <3>1. conf' = conf
      <4>1. ASSUME NEW r \in Request, Moves(r) PROVE conf' = conf
        BY <4>1, RequestMoves
      <4> QED
        BY <2>2, <4>1, Steps DEF SessionEnds, vars
    <3>2. HasEnrolledPasskey
      BY <1>2, <3>1 DEF CanLogIn, IsPasswordLoginActive, HasProvider
    <3>3. DOMAIN creds' = DOMAIN creds => HasEnrolledPasskey'
      BY <1>2, <3>1, <3>2, PasskeysAreKept
    <3> QED
      BY <1>2, <3>1, <3>3 DEF CanLogIn
  <2> QED
    BY <2>1, <2>2
<1> QED
  BY <1>1, <1>2

-----------------------------------------------------------------------------
AccountInv ==
    /\ Shape /\ SettledIsAlone /\ DeletedPasskeysStayDeleted /\ AddsAreNew
    /\ SignCountIsKept /\ CountsRise /\ WitnessesSaw /\ OneAccountUnhashed

LEMMA AccountInvHolds == Spec => []AccountInv
<1>1. Init => AccountInv
  <2> SUFFICES ASSUME Init PROVE AccountInv
    OBVIOUS
  <2>1. \A r \in Request : req[r].pc = "idle"
    BY IdleReq DEF Init
  <2> QED
    BY <2>1, ShapeInit DEF Init, AccountInv, SettledIsAlone, DeletedPasskeysStayDeleted, AddsAreNew,
       SignCountIsKept, CountsRise, WitnessesSaw, OneAccountUnhashed, Working
<1>2. AccountInv /\ [Next]_vars => AccountInv'
  BY ShapeNext, SettledNext, DeletedNext, CountsNext, WitnessesNext, OneAccountNext DEF AccountInv
<1> QED
  BY <1>1, <1>2, PTL DEF Spec

\* Every variable keeps its type, and no record names an account that was never created.
THEOREM AccountTypeCorrect == Spec => []TypeOK
<1>1. AccountInv => TypeOK
  BY DEF AccountInv, Shape
<1> QED
  BY <1>1, AccountInvHolds, PTL

\* The account GetUser returns is never lost, changes only by a bootstrap that had found
\* none or by bbolt's save of a replaced one, and is for life when these are over, whether
\* or not the first logins overlapped.
THEOREM AccountStays == Spec => AccountIsForLife
<1>1. AccountInv /\ [Next]_vars =>
        [users # {} =>
           /\ users' # {}
           /\ Account'.id = Account.id \/ \E r \in Request : Replacing(r) /\ req'[r] # req[r]
           /\ (\A r \in Request : ~Replacing(r)) => (\A r \in Request : ~Replacing(r)')]_vars
  BY AccountStep DEF AccountInv
<1> QED
  BY <1>1, AccountInvHolds, PTL DEF Spec, AccountIsForLife

\* UpdateWebAuthnCredential does not bring back what DeleteWebAuthnCredential removed.
THEOREM DeletedStayDeleted == Spec => []DeletedPasskeysStayDeleted
<1>1. AccountInv => DeletedPasskeysStayDeleted
  BY DEF AccountInv
<1> QED
  BY <1>1, AccountInvHolds, PTL

\* persistUsedCredential stores no sign count below one that was accepted, unless two
\* requests were at the passkey.
THEOREM SignCountsAreKept == Spec => []SignCountIsKept
<1>1. AccountInv => SignCountIsKept
  BY DEF AccountInv
<1> QED
  BY <1>1, AccountInvHolds, PTL

\* Nobody has a session through the provider who is not named by a rule (isAllowed).
THEOREM OnlyAllowedEnter == Spec => []OnlyTheAllowedEnter
<1>1. AccountInv => OnlyTheAllowedEnter
  BY OperatorAssumption DEF OperatorAssumption, AccountInv, Shape, TypeOK, Admissible,
     OnlyTheAllowedEnter
<1> QED
  BY <1>1, AccountInvHolds, PTL

\* A blank pattern or an empty list of patterns is as if it were not there, and any one rule
\* is enough: NewOIDCProvider and isAllowed let in whom the settings name, and nobody else.
THEOREM AllowListIsExact ==
  ASSUME conf \in Deployment, NEW i \in Identity
  PROVE  IsAllowed(Provider(conf.settings), i) <=> i \in Admitted(conf.settings)
  BY AllowedIsAdmitted, AdmittedIsAllowed

\* ensureUser grants no login that was forbidden during the whole request.
THEOREM GrantedLoginsWereAllowed == Spec => PasswordLoginsWereAllowed
<1>1. AccountInv /\ [Next]_vars =>
        [\A r \in Request :
           /\ req[r].pc = "create" \/ (req[r].pc = "count" /\ settled # Nobody)
           /\ req'[r].pc = "granted"
           => r \in seen \/ PasswordOpen]_vars
  BY GrantsWereAllowed DEF AccountInv
<1> QED
  BY <1>1, AccountInvHolds, PTL DEF Spec, PasswordLoginsWereAllowed

\* Only the operator's own deletion of passkeys, on a gateway without a password, ends the
\* last way to log in.
THEOREM LockedOutByOneself == Spec => LockedOutByOwnHandOnly
<1>1. AccountInv /\ [Next]_vars =>
        [CanLogIn => \/ CanLogIn'
                     \/ ~conf'.hashed /\ conf' = conf /\ DOMAIN creds' # DOMAIN creds]_vars
  BY LockoutIsOwn DEF AccountInv
<1> QED
  BY <1>1, AccountInvHolds, PTL DEF Spec, LockedOutByOwnHandOnly
================================================================================
