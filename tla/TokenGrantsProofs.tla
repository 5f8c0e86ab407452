--------------------------- MODULE TokenGrantsProofs ---------------------------
(***************************************************************************)
(* Theorems about TokenGrants for every set of grants, clients and         *)
(* handlers, both backends and all lifetimes.                              *)
(***************************************************************************)
EXTENDS TokenGrants, TLAPS

\* The stages at which a handler has not loaded a record yet.
Unloaded == {"idle", "x_code", "r_load"}

\* Records, codes and tokens bear IDs the authorization endpoint handed out ...
GrantsKnown ==
    /\ \A r \in authReqs \cup codes \cup pkces \cup access \cup refresh : r.grant \in used
    /\ \A t \in sentCodes \cup held : t.grant \in used

\* ... and so does whatever a handler has loaded from them.
HandlersKnow ==
    \A p \in Proc : IF proc[p].pc \in Unloaded THEN proc[p].grant = NoGrant
                                               ELSE proc[p].grant \in used

TypeInv == TypeOK /\ GrantsKnown /\ HandlersKnow

-----------------------------------------------------------------------------
(* Types.  TypeOK alone is not inductive: that a record is written with a grant  *)
(* rests on what the handler loaded.                                             *)

\* The initial state is well typed: no record, no handler in flight.
LEMMA TypeInvInit == Init => TypeInv
  BY GrantAssumption DEF Init, TypeInv, TypeOK, GrantsKnown, HandlersKnow, Handler, Idle,
     SweepOff, SweepPC, Unloaded, RegState

\* The authorization endpoint and the consent POST write well-typed records.
LEMMA ConsentTyped ==
  ASSUME TypeInv, NEW p \in Proc, ConsentStep(p) PROVE TypeInv'
<1> USE GrantAssumption, TimeAssumption
        DEF TypeInv, TypeOK, GrantsKnown, HandlersKnow, At, records, ids, history,
        Handler, Unloaded
<1>1. ASSUME NEW g \in Grant, ConsentLoad(p, g) PROVE TypeInv'
  <2>1. PICK r \in authReqs :
          /\ r.grant = g
          /\ proc' = [proc EXCEPT ![p] = [Idle EXCEPT !.pc = "c_code", !.grant = g,
                  !.at = r.stamp]]
    BY <1>1 DEF ConsentLoad
  <2>2. [Idle EXCEPT !.pc = "c_code", !.grant = g, !.at = r.stamp] \in Handler
    BY DEF Idle, ConsentPC, AuthReqRec
  <2>3. g \in used
    BY <2>1
  <2> QED
    BY <1>1, <2>1, <2>2, <2>3 DEF ConsentLoad, Idle
<1>2. CASE ConsentCode(p)
  <2> DEFINE code == [sig |-> nextCode, grant |-> proc[p].grant,
                      stamp |-> Stamp(proc[p].at), exp |-> now + CodeTTL]
  <2>1. proc[p].grant \in used
    BY <1>2 DEF ConsentCode
  <2>2. code \in CodeRec
    BY <2>1 DEF CodeRec, Stamp
  <2>3. proc' \in [Proc -> Handler] /\ HandlersKnow'
    <3> DEFINE h == [proc[p] EXCEPT !.pc = "c_pkce", !.key = nextCode]
    <3>1. h \in Handler /\ h.pc = "c_pkce" /\ h.grant = proc[p].grant
      BY DEF ConsentPC
    <3>2. proc' = [proc EXCEPT ![p] = h]
      BY <1>2 DEF ConsentCode
    <3> HIDE DEF h, Handler
    <3> QED
      BY <1>2, <2>1, <3>1, <3>2 DEF ConsentCode
  <2>4. codes' = codes \cup {code} /\ code.grant = proc[p].grant
    BY <1>2 DEF ConsentCode
  <2> HIDE DEF code
  <2> QED
    BY <1>2, <2>1, <2>2, <2>3, <2>4 DEF ConsentCode
<1>3. CASE ConsentPKCE(p)
  BY <1>3 DEF ConsentPKCE, Stamp, ConsentPC, PkceRec
<1>4. CASE ConsentFails(p)
  BY <1>4 DEF ConsentFails, ConsentPC
<1>5. CASE ConsentDone(p)
  BY <1>5 DEF ConsentDone, Idle, Ticket
<1> QED
  BY ConsentStep(p), <1>1, <1>2, <1>3, <1>4, <1>5 DEF ConsentStep

\* The code exchange hands on the grant it loaded.
LEMMA RedeemTyped ==
  ASSUME TypeInv, NEW p \in Proc, RedeemStep(p) PROVE TypeInv'
<1> USE GrantAssumption, TimeAssumption
        DEF TypeInv, TypeOK, GrantsKnown, HandlersKnow, At, records, ids, history,
        Handler, Unloaded
<1>1. ASSUME NEW c \in sentCodes, RedeemStart(p, c) PROVE TypeInv'
  <2> DEFINE h == [Idle EXCEPT !.pc = "x_code", !.key = c.sig, !.at = now,
                               !.tainted = (c.sig \in spent)]
  <2>1. h \in Handler /\ h.pc = "x_code" /\ h.grant = NoGrant
    <3>1. (c.sig \in spent) \in BOOLEAN
      OBVIOUS
    <3> QED
      BY <3>1 DEF Idle, RedeemPC, Ticket
  <2>2. proc' = [proc EXCEPT ![p] = h]
    BY <1>1 DEF RedeemStart
  <2> HIDE DEF h, Handler
  <2>3. proc' \in [Proc -> Handler] /\ HandlersKnow'
    BY <1>1, <2>1, <2>2 DEF RedeemStart
  <2> QED
    BY <1>1, <2>3 DEF RedeemStart
<1>2. CASE RedeemLoad(p)
  BY <1>2 DEF RedeemLoad, RedeemPC, CodeRec
<1>3. CASE RedeemPKCE(p)
  BY <1>3 DEF RedeemPKCE, RedeemPC
<1>4. CASE RedeemBurn(p)
  BY <1>4 DEF RedeemBurn, RedeemPC
<1>5. CASE RedeemAgain(p)
  BY <1>5 DEF RedeemAgain, RedeemPC
<1>6. CASE RedeemInvalidate(p)
  BY <1>6 DEF RedeemInvalidate, MintPC
<1> QED
  BY RedeemStep(p), <1>1, <1>2, <1>3, <1>4, <1>5, <1>6 DEF RedeemStep

\* The refresh hands on the grant of the token it loaded; rotation keeps the record's type.
LEMMA RefreshTyped ==
  ASSUME TypeInv, NEW p \in Proc, RefreshStep(p) PROVE TypeInv'
<1> USE GrantAssumption, TimeAssumption
        DEF TypeInv, TypeOK, GrantsKnown, HandlersKnow, At, records, ids, history,
        Handler, Unloaded
<1>1. ASSUME NEW t \in held, RefreshStart(p, t) PROVE TypeInv'
  BY <1>1 DEF RefreshStart, Idle, RefreshPC, Ticket
<1>2. CASE RefreshLoad(p)
  BY <1>2 DEF RefreshLoad, RefreshPC, RefreshRec
<1>3. CASE RotateGet(p)
  BY <1>3 DEF RotateGet, RefreshPC
<1>4. CASE RotatePut(p)
  <2> DEFINE rotate(r) == [r EXCEPT !.rotated = @ \/ r.sig = proc[p].key]
  <2>1. ASSUME NEW r \in refresh
        PROVE  rotate(r) \in RefreshRec /\ rotate(r).grant = r.grant
    <3>1. (r.rotated \/ r.sig = proc[p].key) \in BOOLEAN
      OBVIOUS
    <3> QED
      BY <3>1 DEF RefreshRec
  <2>2. refresh' \subseteq RefreshRec /\ \A s \in refresh' : s.grant \in used
    <3>1. refresh' = {rotate(r) : r \in refresh}
      BY <1>4 DEF RotatePut
    <3> HIDE DEF rotate
    <3> QED
      BY <2>1, <3>1
  <2>3. proc' \in [Proc -> Handler]
    BY <1>4 DEF RotatePut, MintPC
  <2> QED
    BY <1>4, <2>2, <2>3 DEF RotatePut
<1> QED
  BY RefreshStep(p), <1>1, <1>2, <1>3, <1>4 DEF RefreshStep

\* RFC 7009 revocation only removes records.
LEMMA RevokeTyped ==
  ASSUME TypeInv, NEW p \in Proc, RevokeStep(p) PROVE TypeInv'
<1> USE GrantAssumption, TimeAssumption
        DEF TypeInv, TypeOK, GrantsKnown, HandlersKnow, At, records, ids, history,
        Handler, Unloaded
<1>1. ASSUME NEW t \in held, RevokeLoad(p, t) PROVE TypeInv'
  BY <1>1 DEF RevokeLoad, Idle, RevokePC, Ticket
<1>2. CASE RevokeRefresh(p)
  <2> DEFINE g == Revivable(proc[p].grant)
  <2>1. g \in BOOLEAN
    BY DEF Revivable, Pending
  <2> QED
    BY <1>2, <2>1 DEF RevokeRefresh, RevokePC
<1>3. CASE RevokeAccess(p)
  BY <1>3 DEF RevokeAccess, Idle, RevokePC
<1> QED
  BY RevokeStep(p), <1>1, <1>2, <1>3 DEF RevokeStep

\* Issuance writes tokens of the grant the handler loaded.
LEMMA MintTyped ==
  ASSUME TypeInv, NEW p \in Proc, MintAccess(p) \/ MintRefresh(p) \/ Reply(p) \/ Abort(p)
  PROVE TypeInv'
<1> USE GrantAssumption, TimeAssumption
        DEF TypeInv, TypeOK, GrantsKnown, HandlersKnow, At, records, ids, history,
        Handler, Unloaded
<1>1. CASE MintAccess(p)
  <2> DEFINE token == [sig |-> nextToken, grant |-> proc[p].grant, stamp |-> Stamp(proc[p].at),
                     exp |-> proc[p].from + AccessTTL]
  <2>1. proc[p].grant \in used
    BY <1>1 DEF MintAccess
  <2>2. token \in AccessRec /\ token.grant \in used
    BY <2>1 DEF AccessRec, Stamp
  <2>3. proc' \in [Proc -> Handler] /\ HandlersKnow'
    <3> DEFINE h == [proc[p] EXCEPT !.pc = "m_refresh", !.key = nextToken]
    <3>1. h \in Handler /\ h.pc = "m_refresh" /\ h.grant = proc[p].grant
      BY DEF MintPC
    <3>2. proc' = [proc EXCEPT ![p] = h]
      BY <1>1 DEF MintAccess
    <3> HIDE DEF h, Handler
    <3> QED
      BY <1>1, <2>1, <3>1, <3>2 DEF MintAccess
  <2>4. access' = access \cup {token}
    BY <1>1 DEF MintAccess
  <2> HIDE DEF token
  <2> QED
    BY <1>1, <2>1, <2>2, <2>3, <2>4 DEF MintAccess
<1>2. CASE MintRefresh(p)
  <2> DEFINE token == [sig |-> proc[p].key, grant |-> proc[p].grant, stamp |-> Stamp(proc[p].at),
                     exp |-> proc[p].from + RefreshTTL, rotated |-> FALSE]
  <2>1. proc[p].grant \in used
    BY <1>2 DEF MintRefresh
  <2>2. token \in RefreshRec /\ token.grant \in used
    BY <2>1 DEF RefreshRec, Stamp
  <2>3. proc' \in [Proc -> Handler]
    BY <1>2 DEF MintRefresh, MintPC
  <2>4. refresh' = refresh \cup {token}
    BY <1>2 DEF MintRefresh
  <2> HIDE DEF token
  <2> QED
    BY <1>2, <2>1, <2>2, <2>3, <2>4 DEF MintRefresh
<1>3. CASE Reply(p)
  BY <1>3 DEF Reply, Idle, MintPC, Ticket, RegState
<1>4. CASE Abort(p)
  BY <1>4 DEF Abort, Idle
<1> QED
  BY <1>1, <1>2, <1>3, <1>4

\* An operator revoke of known grants only removes records and registrations.
LEMMA KillTyped ==
  ASSUME TypeInv, NEW S \in SUBSET used, Kill(S), registration' \in [Dcr -> RegState]
  PROVE  TypeInv'
  BY DEF Kill, ids, TypeInv, TypeOK, GrantsKnown, HandlersKnow

\* TypeInv is inductive: one step per action of Next, the handlers by the lemmas above.
LEMMA TypeInvStep == TypeInv /\ [Next]_vars => TypeInv'
<1> SUFFICES ASSUME TypeInv, [Next]_vars PROVE TypeInv'
  OBVIOUS
<1> USE GrantAssumption, TimeAssumption
        DEF TypeInv, TypeOK, GrantsKnown, HandlersKnow, records, ids, history
<1>1. CASE Tick
  BY <1>1 DEF Tick
<1>2. ASSUME NEW c \in Client, RegistrationExpires(c) PROVE TypeInv'
  BY <1>2 DEF RegistrationExpires, RegState
<1>3. ASSUME NEW c \in Client, RevokeClient(c) PROVE TypeInv'
  <2> DEFINE S == {g \in used : ClientOf[g] = c}
  <2>1. S \in SUBSET used /\ Kill(S) /\ registration' \in [Dcr -> RegState]
    BY <1>3 DEF RevokeClient, RegState
  <2> HIDE DEF TypeInv
  <2> QED
    BY <2>1, KillTyped
<1>4. ASSUME NEW g \in Grant, Authorize(g) PROVE TypeInv'
  BY <1>4 DEF Authorize, AuthReqRec
<1>5. ASSUME NEW g \in Grant, RevokeGrant(g) PROVE TypeInv'
  <2>1. {g} \in SUBSET used /\ Kill({g}) /\ registration' \in [Dcr -> RegState]
    BY <1>5 DEF RevokeGrant
  <2> HIDE DEF TypeInv
  <2> QED
    BY <2>1, KillTyped
<1>6. CASE RevokeAll
  <2>1. used \in SUBSET used /\ Kill(used) /\ registration' \in [Dcr -> RegState]
    BY <1>6 DEF RevokeAll, RegState
  <2> HIDE DEF TypeInv
  <2> QED
    BY <2>1, KillTyped
<1>7. ASSUME NEW p \in Proc, HandlerStep(p) PROVE TypeInv'
  <2> HIDE DEF TypeInv
  <2> QED
    BY <1>7, ConsentTyped, RedeemTyped, RefreshTyped, RevokeTyped,
       MintTyped DEF HandlerStep
<1>8. CASE SweepStart
  BY <1>8 DEF SweepStart, SweepPC
<1>9. CASE SweepFails
  BY <1>9 DEF SweepFails, SweepOff, SweepPC
<1>10. ASSUME NEW kind \in SweepPC \ {"off"}, Sweep(kind) PROVE TypeInv'
  BY <1>10 DEF Sweep, SweepPC, NextKind, SweepOff
<1>11. CASE Crash
  BY <1>11 DEF Crash, Idle, Handler, Unloaded, SweepOff, SweepPC
<1>12. CASE UNCHANGED vars
  BY <1>12 DEF vars
<1>13. ASSUME NEW c \in Client, RegistrationSwept(c) PROVE TypeInv'
  BY <1>13 DEF RegistrationSwept, RegState
<1> QED
  BY <1>1, <1>2, <1>3, <1>4, <1>5, <1>6, <1>7, <1>8, <1>9, <1>10, <1>11, <1>12,
     <1>13 DEF Next

\* Every record is well typed and belongs to an ID handleAuth handed out, whatever
\* the handlers, the sweeper and crashes do.
THEOREM TypesHold == Spec => []TypeInv
<1>1. Init => TypeInv
  BY TypeInvInit
<1>2. TypeInv /\ [Next]_vars => TypeInv'
  BY TypeInvStep
<1> QED
  BY <1>1, <1>2, PTL DEF Spec

\* The type invariant the runs check, for every number of grants, clients and handlers.
THEOREM TypeCorrect == Spec => []TypeOK
<1>1. TypeInv => TypeOK
  BY DEF TypeInv
<1> QED
  BY <1>1, TypesHold, PTL
-----------------------------------------------------------------------------
(* TokenGrants implements GrantPresence. *)

Present == {g \in Grant : RecordsOf(g) # {}}
Busy    == {g \in Grant : Pending(g)}

\* Handler record h is about to write a record of grant g.
Writes(h, g) ==
    /\ h.grant = g
    /\ h.pc \in (ConsentPC \cup RedeemPC \cup RefreshPC \cup MintPC)
                  \ {"c_done", "c_fail", "m_reply"}

\* A step that deletes records or rewrites some only removes grants from the store.
LEMMA PresentShrinks ==
  ASSUME authReqs' \subseteq authReqs, codes' \subseteq codes, pkces' \subseteq pkces,
         access' \subseteq access,
         \A r \in refresh' : \E s \in refresh : s.grant = r.grant
  PROVE  Present' \subseteq Present
  BY DEF Present, RecordsOf

\* Creating a record of a kind adds its grant and no other.
LEMMA PresentGrows ==
  ASSUME NEW r, r.grant \in Grant,
         \/ codes' = codes \cup {r} /\ UNCHANGED <<authReqs, pkces, access, refresh>>
         \/ pkces' = pkces \cup {r} /\ UNCHANGED <<authReqs, codes, access, refresh>>
         \/ access' = access \cup {r} /\ UNCHANGED <<authReqs, codes, pkces, refresh>>
         \/ refresh' = refresh \cup {r} /\ UNCHANGED <<authReqs, codes, pkces, access>>
  PROVE  Present' = Present \cup {r.grant}
  BY DEF Present, RecordsOf

\* When one handler moves, the grants in work change by its own share only.
LEMMA BusyAfter ==
  ASSUME TypeOK, NEW p \in Proc, NEW h, proc' = [proc EXCEPT ![p] = h]
  PROVE  /\ (\A g \in Grant : Writes(h, g) => Writes(proc[p], g)) => Busy' \subseteq Busy
         /\ (\A g \in Grant : Writes(h, g) <=> Writes(proc[p], g)) => Busy' = Busy
         /\ \A g \in Grant :
               /\ (\A k \in Grant : ~Writes(proc[p], k) /\ (Writes(h, k) <=> k = g))
                     => Busy' = Busy \cup {g}
               /\ (\A k \in Grant : ~Writes(h, k) /\ (Writes(proc[p], k) <=> k = g))
                     => Busy' \in {Busy, Busy \ {g}}
<1>1. \A g \in Grant : g \in Busy <=> \E q \in Proc : Writes(proc[q], g)
  BY DEF Busy, Pending, Writing, Writes
<1>2. \A g \in Grant : g \in Busy' <=> \E q \in Proc : Writes(proc'[q], g)
  BY DEF Busy, Pending, Writing, Writes
<1>3. \A q \in Proc : proc'[q] = IF q = p THEN h ELSE proc[q]
  BY DEF TypeOK
<1>4. \A g \in Grant : g \in Busy' <=>
           Writes(h, g) \/ \E q \in Proc \ {p} : Writes(proc[q], g)
  BY <1>2, <1>3
<1>5. \A g \in Grant : g \in Busy <=>
           Writes(proc[p], g) \/ \E q \in Proc \ {p} : Writes(proc[q], g)
  BY <1>1
<1>6. Busy \subseteq Grant /\ Busy' \subseteq Grant
  BY DEF Busy
<1> QED
  BY <1>4, <1>5, <1>6

\* The three ways a step of TokenGrants is a step of GrantPresence.
LEMMA AsShrink ==
  ASSUME Present' \subseteq Present, Busy' \subseteq Busy, used' = used
  PROVE  Presence!Next
  BY DEF Presence!Next, Presence!Shrink, Present, Busy

\* ... a handler found a record of g and now holds the grant; the records stay ...
LEMMA AsLoad ==
  ASSUME NEW g \in Present, Present' = Present, Busy' = Busy \cup {g}, used' = used
  PROVE  Presence!Next
  BY DEF Presence!Next, Presence!Load, Present, Busy

\* ... a handler that holds g writes a record of it, and may let go of the grant.
LEMMA AsWrite ==
  ASSUME NEW g \in Busy, Present' = Present \cup {g}, Busy' \in {Busy, Busy \ {g}}, used' = used
  PROVE  Presence!Next
  BY DEF Presence!Next, Presence!Write, Present, Busy

\* The consent POST: loading the authorize request is a Load, storing the code and its
\* PKCE session are Writes, the deferred deletion is a Shrink.
LEMMA ConsentPresence ==
  ASSUME TypeInv, NEW p \in Proc, ConsentStep(p) PROVE Presence!Next
<1> USE DEF TypeInv, TypeOK, Handler
<1>1. ASSUME NEW g \in Grant, ConsentLoad(p, g) PROVE Presence!Next
  <2>1. PICK r \in authReqs :
          proc' = [proc EXCEPT ![p] =
              [Idle EXCEPT !.pc = "c_code", !.grant = r.grant, !.at = r.stamp]]
    BY <1>1 DEF ConsentLoad
  <2> DEFINE h == [Idle EXCEPT !.pc = "c_code", !.grant = r.grant, !.at = r.stamp]
  <2>2. r.grant \in Present /\ r.grant \in Grant /\ proc' = [proc EXCEPT ![p] = h]
    BY <2>1 DEF Present, RecordsOf, AuthReqRec, CodeRec, RefreshRec
  <2>3. \A k \in Grant : ~Writes(proc[p], k) /\ (Writes(h, k) <=> k = r.grant)
    BY <1>1, <2>1, GrantAssumption DEF ConsentLoad, At, Idle, HandlersKnow, Unloaded,
       Writes, ConsentPC, RedeemPC, RefreshPC, MintPC
  <2> HIDE DEF h
  <2>4. Busy' = Busy \cup {r.grant}
    BY <2>2, <2>3, BusyAfter
  <2>5. Present' = Present
    BY <1>1 DEF ConsentLoad, records, Present, RecordsOf
  <2> QED
    BY <1>1, <2>2, <2>4, <2>5, AsLoad DEF ConsentLoad, ids
<1>2. CASE ConsentCode(p)
  <2> DEFINE h == [proc[p] EXCEPT !.pc = "c_pkce", !.key = nextCode]
             r == [sig |-> nextCode, grant |-> proc[p].grant,
                   stamp |-> Stamp(proc[p].at), exp |-> now + CodeTTL]
  <2>1. proc' = [proc EXCEPT ![p] = h] /\ codes' = codes \cup {r}
    BY <1>2 DEF ConsentCode
  <2>2. proc[p].grant \in Grant /\ proc[p].grant \in Busy
    BY <1>2 DEF ConsentCode, At, HandlersKnow, Unloaded, Busy, Pending, Writing,
       ConsentPC, MintPC
  <2>3. Present' = Present \cup {proc[p].grant}
    <3>1. r.grant = proc[p].grant
      OBVIOUS
    <3> HIDE DEF r
    <3> QED
      BY <1>2, <2>1, <2>2, <3>1, PresentGrows DEF ConsentCode
  <2>4. \A k \in Grant : Writes(h, k) <=> Writes(proc[p], k)
    BY <1>2, <2>2 DEF ConsentCode, At, Writes, ConsentPC, RedeemPC, RefreshPC, MintPC
  <2> HIDE DEF h, r
  <2>5. Busy' = Busy
    BY <2>1, <2>2, <2>4, BusyAfter
  <2> QED
    BY <1>2, <2>2, <2>3, <2>5, AsWrite DEF ConsentCode, ids
<1>3. CASE ConsentPKCE(p)
  <2> DEFINE h == [proc[p] EXCEPT !.pc = "c_done"]
             r == [sig |-> proc[p].key, grant |-> proc[p].grant,
                   stamp |-> Stamp(proc[p].at)]
  <2>1. proc' = [proc EXCEPT ![p] = h] /\ pkces' = pkces \cup {r}
    BY <1>3 DEF ConsentPKCE
  <2>2. proc[p].grant \in Grant /\ proc[p].grant \in Busy
    BY <1>3 DEF ConsentPKCE, At, HandlersKnow, Unloaded, Busy, Pending, Writing,
       ConsentPC, MintPC
  <2>3. Present' = Present \cup {proc[p].grant}
    <3>1. r.grant = proc[p].grant
      OBVIOUS
    <3> HIDE DEF r
    <3> QED
      BY <1>3, <2>1, <2>2, <3>1, PresentGrows DEF ConsentPKCE
  <2>4. \A k \in Grant : ~Writes(h, k) /\ (Writes(proc[p], k) <=> k = proc[p].grant)
    BY <1>3, <2>2 DEF ConsentPKCE, At, Writes, ConsentPC, RedeemPC, RefreshPC, MintPC
  <2> HIDE DEF h, r
  <2>5. Busy' \in {Busy, Busy \ {proc[p].grant}}
    BY <2>1, <2>2, <2>4, BusyAfter
  <2> QED
    BY <1>3, <2>2, <2>3, <2>5, AsWrite DEF ConsentPKCE, ids
<1>4. CASE ConsentFails(p)
  <2> DEFINE h == [proc[p] EXCEPT !.pc = "c_fail"]
  <2>1. proc' = [proc EXCEPT ![p] = h]
    BY <1>4 DEF ConsentFails
  <2>2. Present' \subseteq Present
    BY <1>4, PresentShrinks DEF ConsentFails, records
  <2>3. \A g \in Grant : Writes(h, g) => Writes(proc[p], g)
    BY <1>4, GrantAssumption DEF ConsentFails, At, Idle, Writes, ConsentPC, RedeemPC,
       RefreshPC, MintPC
  <2> HIDE DEF h
  <2>4. Busy' \subseteq Busy
    BY <2>1, <2>3, BusyAfter
  <2> QED
    BY <1>4, <2>2, <2>4, AsShrink DEF ConsentFails, ids
<1>5. CASE ConsentDone(p)
  <2> DEFINE h == Idle
  <2>1. proc' = [proc EXCEPT ![p] = h]
    BY <1>5 DEF ConsentDone
  <2>2. Present' \subseteq Present
    BY <1>5, PresentShrinks DEF ConsentDone, records
  <2>3. \A g \in Grant : Writes(h, g) => Writes(proc[p], g)
    BY <1>5, GrantAssumption DEF ConsentDone, At, Idle, Writes, ConsentPC, RedeemPC,
       RefreshPC, MintPC
  <2> HIDE DEF h
  <2>4. Busy' \subseteq Busy
    BY <2>1, <2>3, BusyAfter
  <2> QED
    BY <1>5, <2>2, <2>4, AsShrink DEF ConsentDone, ids
<1> QED
  BY ConsentStep(p), <1>1, <1>2, <1>3, <1>4, <1>5 DEF ConsentStep

\* The code exchange: loading the code is a Load, consuming it a Shrink.
LEMMA RedeemPresence ==
  ASSUME TypeInv, NEW p \in Proc, RedeemStep(p) PROVE Presence!Next
<1> USE DEF TypeInv, TypeOK, Handler
<1>1. ASSUME NEW c \in sentCodes, RedeemStart(p, c) PROVE Presence!Next
  <2> DEFINE h == [Idle EXCEPT !.pc = "x_code", !.key = c.sig, !.at = now,
                               !.tainted = (c.sig \in spent)]
  <2>1. proc' = [proc EXCEPT ![p] = h]
    BY <1>1 DEF RedeemStart
  <2>2. Present' \subseteq Present
    BY <1>1, PresentShrinks DEF RedeemStart, records
  <2>3. \A g \in Grant : Writes(h, g) => Writes(proc[p], g)
    BY <1>1, GrantAssumption DEF RedeemStart, At, Idle, Writes, ConsentPC, RedeemPC,
       RefreshPC, MintPC
  <2> HIDE DEF h
  <2>4. Busy' \subseteq Busy
    BY <2>1, <2>3, BusyAfter
  <2> QED
    BY <1>1, <2>2, <2>4, AsShrink DEF RedeemStart, ids
<1>2. CASE RedeemLoad(p)
  <2>1. PICK r \in codes :
          proc' = [proc EXCEPT ![p] =
              [proc[p] EXCEPT !.pc = "x_pkce", !.grant = r.grant, !.from = now]]
    BY <1>2 DEF RedeemLoad
  <2> DEFINE h == [proc[p] EXCEPT !.pc = "x_pkce", !.grant = r.grant, !.from = now]
  <2>2. r.grant \in Present /\ r.grant \in Grant /\ proc' = [proc EXCEPT ![p] = h]
    BY <2>1 DEF Present, RecordsOf, AuthReqRec, CodeRec, RefreshRec
  <2>3. \A k \in Grant : ~Writes(proc[p], k) /\ (Writes(h, k) <=> k = r.grant)
    BY <1>2, <2>1, GrantAssumption DEF RedeemLoad, At, Idle, HandlersKnow, Unloaded,
       Writes, ConsentPC, RedeemPC, RefreshPC, MintPC
  <2> HIDE DEF h
  <2>4. Busy' = Busy \cup {r.grant}
    BY <2>2, <2>3, BusyAfter
  <2>5. Present' = Present
    BY <1>2 DEF RedeemLoad, records, Present, RecordsOf
  <2> QED
    BY <1>2, <2>2, <2>4, <2>5, AsLoad DEF RedeemLoad, ids
<1>3. CASE RedeemPKCE(p)
  <2> DEFINE h == [proc[p] EXCEPT !.pc = "x_burn"]
  <2>1. proc' = [proc EXCEPT ![p] = h]
    BY <1>3 DEF RedeemPKCE
  <2>2. Present' \subseteq Present
    BY <1>3, PresentShrinks DEF RedeemPKCE, records
  <2>3. \A g \in Grant : Writes(h, g) => Writes(proc[p], g)
    BY <1>3, GrantAssumption DEF RedeemPKCE, At, Idle, Writes, ConsentPC, RedeemPC,
       RefreshPC, MintPC
  <2> HIDE DEF h
  <2>4. Busy' \subseteq Busy
    BY <2>1, <2>3, BusyAfter
  <2> QED
    BY <1>3, <2>2, <2>4, AsShrink DEF RedeemPKCE, ids
<1>4. CASE RedeemBurn(p)
  <2> DEFINE h == [proc[p] EXCEPT !.pc = "x_again"]
  <2>1. proc' = [proc EXCEPT ![p] = h]
    BY <1>4 DEF RedeemBurn
  <2>2. Present' \subseteq Present
    BY <1>4, PresentShrinks DEF RedeemBurn, records
  <2>3. \A g \in Grant : Writes(h, g) => Writes(proc[p], g)
    BY <1>4, GrantAssumption DEF RedeemBurn, At, Idle, Writes, ConsentPC, RedeemPC,
       RefreshPC, MintPC
  <2> HIDE DEF h
  <2>4. Busy' \subseteq Busy
    BY <2>1, <2>3, BusyAfter
  <2> QED
    BY <1>4, <2>2, <2>4, AsShrink DEF RedeemBurn, ids
<1>5. CASE RedeemAgain(p)
  <2> DEFINE h == [proc[p] EXCEPT !.pc = "x_inval"]
  <2>1. proc' = [proc EXCEPT ![p] = h]
    BY <1>5 DEF RedeemAgain
  <2>2. Present' \subseteq Present
    BY <1>5, PresentShrinks DEF RedeemAgain, records
  <2>3. \A g \in Grant : Writes(h, g) => Writes(proc[p], g)
    BY <1>5, GrantAssumption DEF RedeemAgain, At, Idle, Writes, ConsentPC, RedeemPC,
       RefreshPC, MintPC
  <2> HIDE DEF h
  <2>4. Busy' \subseteq Busy
    BY <2>1, <2>3, BusyAfter
  <2> QED
    BY <1>5, <2>2, <2>4, AsShrink DEF RedeemAgain, ids
<1>6. CASE RedeemInvalidate(p)
  <2> DEFINE h == [proc[p] EXCEPT !.pc = "m_access"]
  <2>1. proc' = [proc EXCEPT ![p] = h]
    BY <1>6 DEF RedeemInvalidate
  <2>2. Present' \subseteq Present
    BY <1>6, PresentShrinks DEF RedeemInvalidate, records
  <2>3. \A g \in Grant : Writes(h, g) => Writes(proc[p], g)
    BY <1>6, GrantAssumption DEF RedeemInvalidate, At, Idle, Writes, ConsentPC,
       RedeemPC, RefreshPC, MintPC
  <2> HIDE DEF h
  <2>4. Busy' \subseteq Busy
    BY <2>1, <2>3, BusyAfter
  <2> QED
    BY <1>6, <2>2, <2>4, AsShrink DEF RedeemInvalidate, ids
<1> QED
  BY RedeemStep(p), <1>1, <1>2, <1>3, <1>4, <1>5, <1>6 DEF RedeemStep

\* The refresh: loading the token is a Load; rotation, which rewrites a record that is
\* there and creates none, a Shrink.
LEMMA RefreshPresence ==
  ASSUME TypeInv, NEW p \in Proc, RefreshStep(p) PROVE Presence!Next
<1> USE DEF TypeInv, TypeOK, Handler
<1>1. ASSUME NEW t \in held, RefreshStart(p, t) PROVE Presence!Next
  <2> DEFINE h == [Idle EXCEPT !.pc = "r_load", !.key = t.sig, !.at = now]
  <2>1. proc' = [proc EXCEPT ![p] = h]
    BY <1>1 DEF RefreshStart
  <2>2. Present' \subseteq Present
    BY <1>1, PresentShrinks DEF RefreshStart, records
  <2>3. \A g \in Grant : Writes(h, g) => Writes(proc[p], g)
    BY <1>1, GrantAssumption DEF RefreshStart, At, Idle, Writes, ConsentPC, RedeemPC,
       RefreshPC, MintPC
  <2> HIDE DEF h
  <2>4. Busy' \subseteq Busy
    BY <2>1, <2>3, BusyAfter
  <2> QED
    BY <1>1, <2>2, <2>4, AsShrink DEF RefreshStart, ids
<1>2. CASE RefreshLoad(p)
  <2>1. PICK r \in refresh :
          proc' = [proc EXCEPT ![p] =
              [proc[p] EXCEPT !.pc = "r_get", !.grant = r.grant, !.from = now]]
    BY <1>2 DEF RefreshLoad
  <2> DEFINE h == [proc[p] EXCEPT !.pc = "r_get", !.grant = r.grant, !.from = now]
  <2>2. r.grant \in Present /\ r.grant \in Grant /\ proc' = [proc EXCEPT ![p] = h]
    BY <2>1 DEF Present, RecordsOf, AuthReqRec, CodeRec, RefreshRec
  <2>3. \A k \in Grant : ~Writes(proc[p], k) /\ (Writes(h, k) <=> k = r.grant)
    BY <1>2, <2>1, GrantAssumption DEF RefreshLoad, At, Idle, HandlersKnow, Unloaded,
       Writes, ConsentPC, RedeemPC, RefreshPC, MintPC
  <2> HIDE DEF h
  <2>4. Busy' = Busy \cup {r.grant}
    BY <2>2, <2>3, BusyAfter
  <2>5. Present' = Present
    BY <1>2 DEF RefreshLoad, records, Present, RecordsOf
  <2> QED
    BY <1>2, <2>2, <2>4, <2>5, AsLoad DEF RefreshLoad, ids
<1>3. CASE RotateGet(p)
  <2> DEFINE h == [proc[p] EXCEPT !.pc = "r_put"]
  <2>1. proc' = [proc EXCEPT ![p] = h]
    BY <1>3 DEF RotateGet
  <2>2. Present' \subseteq Present
    BY <1>3, PresentShrinks DEF RotateGet, records
  <2>3. \A g \in Grant : Writes(h, g) => Writes(proc[p], g)
    BY <1>3, GrantAssumption DEF RotateGet, At, Idle, Writes, ConsentPC, RedeemPC,
       RefreshPC, MintPC
  <2> HIDE DEF h
  <2>4. Busy' \subseteq Busy
    BY <2>1, <2>3, BusyAfter
  <2> QED
    BY <1>3, <2>2, <2>4, AsShrink DEF RotateGet, ids
<1>4. CASE RotatePut(p)
  <2> DEFINE h == [proc[p] EXCEPT !.pc = "m_access"]
  <2>1. proc' = [proc EXCEPT ![p] = h]
    BY <1>4 DEF RotatePut
  <2>2. Present' \subseteq Present
    <3> DEFINE rotate(r) == [r EXCEPT !.rotated = @ \/ r.sig = proc[p].key]
    <3>1. \A r \in refresh : rotate(r).grant = r.grant
      BY DEF RefreshRec
    <3>2. refresh' = {rotate(r) : r \in refresh}
      BY <1>4 DEF RotatePut
    <3> HIDE DEF rotate
    <3>3. \A r \in refresh' : \E s \in refresh : s.grant = r.grant
      BY <3>1, <3>2
    <3> QED
      BY <1>4, <3>3, PresentShrinks DEF RotatePut
  <2>3. \A g \in Grant : Writes(h, g) => Writes(proc[p], g)
    BY <1>4, GrantAssumption DEF RotatePut, At, Idle, Writes, ConsentPC, RedeemPC,
       RefreshPC, MintPC
  <2> HIDE DEF h
  <2>4. Busy' \subseteq Busy
    BY <2>1, <2>3, BusyAfter
  <2> QED
    BY <1>4, <2>2, <2>4, AsShrink DEF RotatePut, ids
<1> QED
  BY RefreshStep(p), <1>1, <1>2, <1>3, <1>4 DEF RefreshStep

\* RFC 7009 revocation is a Shrink.
LEMMA RevokePresence ==
  ASSUME TypeInv, NEW p \in Proc, RevokeStep(p) PROVE Presence!Next
<1> USE DEF TypeInv, TypeOK, Handler
<1>1. ASSUME NEW t \in held, RevokeLoad(p, t) PROVE Presence!Next
  <2> DEFINE h == [Idle EXCEPT !.pc = "v_refresh", !.grant = t.grant]
  <2>1. proc' = [proc EXCEPT ![p] = h]
    BY <1>1 DEF RevokeLoad
  <2>2. Present' \subseteq Present
    BY <1>1, PresentShrinks DEF RevokeLoad, records
  <2>3. \A g \in Grant : Writes(h, g) => Writes(proc[p], g)
    BY <1>1, GrantAssumption DEF RevokeLoad, At, Idle, Writes, ConsentPC, RedeemPC,
       RefreshPC, MintPC
  <2> HIDE DEF h
  <2>4. Busy' \subseteq Busy
    BY <2>1, <2>3, BusyAfter
  <2> QED
    BY <1>1, <2>2, <2>4, AsShrink DEF RevokeLoad, ids
<1>2. CASE RevokeRefresh(p)
  <2>1. PICK h : /\ proc' = [proc EXCEPT ![p] = h]
                 /\ \A g \in Grant : ~Writes(h, g)
    <3>1. CASE proc' = [proc EXCEPT ![p].pc = "v_access", ![p].tainted = Revivable(proc[p].grant)]
      <4> DEFINE h == [proc[p] EXCEPT !.pc = "v_access",
                               !.tainted = Revivable(proc[p].grant)]
      <4>1. h.pc = "v_access"
        OBVIOUS
      <4>2. proc' = [proc EXCEPT ![p] = h]
        BY <3>1
      <4> HIDE DEF h
      <4> QED
        BY <4>1, <4>2 DEF Writes, ConsentPC, RedeemPC, RefreshPC, MintPC
    <3>2. CASE proc' = [proc EXCEPT ![p].pc = "v_access", ![p].tainted = TRUE]
      <4> DEFINE h == [proc[p] EXCEPT !.pc = "v_access", !.tainted = TRUE]
      <4>1. h.pc = "v_access"
        OBVIOUS
      <4>2. proc' = [proc EXCEPT ![p] = h]
        BY <3>2
      <4> HIDE DEF h
      <4> QED
        BY <4>1, <4>2 DEF Writes, ConsentPC, RedeemPC, RefreshPC, MintPC
    <3> QED
      BY <1>2, <3>1, <3>2 DEF RevokeRefresh
  <2>2. Busy' \subseteq Busy
    BY <2>1, BusyAfter
  <2>3. Present' \subseteq Present
    BY <1>2, PresentShrinks DEF RevokeRefresh
  <2> QED
    BY <1>2, <2>2, <2>3, AsShrink DEF RevokeRefresh, ids
<1>3. CASE RevokeAccess(p)
  <2> DEFINE h == Idle
  <2>1. proc' = [proc EXCEPT ![p] = h]
    BY <1>3 DEF RevokeAccess
  <2>2. Present' \subseteq Present
    BY <1>3, PresentShrinks DEF RevokeAccess, records
  <2>3. \A g \in Grant : Writes(h, g) => Writes(proc[p], g)
    BY <1>3, GrantAssumption DEF RevokeAccess, At, Idle, Writes, ConsentPC, RedeemPC,
       RefreshPC, MintPC
  <2> HIDE DEF h
  <2>4. Busy' \subseteq Busy
    BY <2>1, <2>3, BusyAfter
  <2> QED
    BY <1>3, <2>2, <2>4, AsShrink DEF RevokeAccess, ids
<1> QED
  BY RevokeStep(p), <1>1, <1>2, <1>3 DEF RevokeStep

\* Issuance: both records are Writes, the second lets go of the grant.
LEMMA MintPresence ==
  ASSUME TypeInv, NEW p \in Proc, MintAccess(p) \/ MintRefresh(p) \/ Reply(p) \/ Abort(p)
  PROVE  Presence!Next
<1> USE DEF TypeInv, TypeOK, Handler
<1>1. CASE MintAccess(p)
  <2> DEFINE h == [proc[p] EXCEPT !.pc = "m_refresh", !.key = nextToken]
             r == [sig |-> nextToken, grant |-> proc[p].grant,
                   stamp |-> Stamp(proc[p].at), exp |-> proc[p].from + AccessTTL]
  <2>1. proc' = [proc EXCEPT ![p] = h] /\ access' = access \cup {r}
    BY <1>1 DEF MintAccess
  <2>2. proc[p].grant \in Grant /\ proc[p].grant \in Busy
    BY <1>1 DEF MintAccess, At, HandlersKnow, Unloaded, Busy, Pending, Writing,
       ConsentPC, MintPC
  <2>3. Present' = Present \cup {proc[p].grant}
    <3>1. r.grant = proc[p].grant
      OBVIOUS
    <3> HIDE DEF r
    <3> QED
      BY <1>1, <2>1, <2>2, <3>1, PresentGrows DEF MintAccess
  <2>4. \A k \in Grant : Writes(h, k) <=> Writes(proc[p], k)
    BY <1>1, <2>2 DEF MintAccess, At, Writes, ConsentPC, RedeemPC, RefreshPC, MintPC
  <2> HIDE DEF h, r
  <2>5. Busy' = Busy
    BY <2>1, <2>2, <2>4, BusyAfter
  <2> QED
    BY <1>1, <2>2, <2>3, <2>5, AsWrite DEF MintAccess, ids
<1>2. CASE MintRefresh(p)
  <2> DEFINE h == [proc[p] EXCEPT !.pc = "m_reply"]
             r == [sig |-> proc[p].key, grant |-> proc[p].grant,
             stamp |-> Stamp(proc[p].at),
                   exp |-> proc[p].from + RefreshTTL, rotated |-> FALSE]
  <2>1. proc' = [proc EXCEPT ![p] = h] /\ refresh' = refresh \cup {r}
    BY <1>2 DEF MintRefresh
  <2>2. proc[p].grant \in Grant /\ proc[p].grant \in Busy
    BY <1>2 DEF MintRefresh, At, HandlersKnow, Unloaded, Busy, Pending, Writing,
       ConsentPC, MintPC
  <2>3. Present' = Present \cup {proc[p].grant}
    <3>1. r.grant = proc[p].grant
      OBVIOUS
    <3> HIDE DEF r
    <3> QED
      BY <1>2, <2>1, <2>2, <3>1, PresentGrows DEF MintRefresh
  <2>4. \A k \in Grant : ~Writes(h, k) /\ (Writes(proc[p], k) <=> k = proc[p].grant)
    BY <1>2, <2>2 DEF MintRefresh, At, Writes, ConsentPC, RedeemPC, RefreshPC, MintPC
  <2> HIDE DEF h, r
  <2>5. Busy' \in {Busy, Busy \ {proc[p].grant}}
    BY <2>1, <2>2, <2>4, BusyAfter
  <2> QED
    BY <1>2, <2>2, <2>3, <2>5, AsWrite DEF MintRefresh, ids
<1>3. CASE Reply(p)
  <2> DEFINE h == Idle
  <2>1. proc' = [proc EXCEPT ![p] = h]
    BY <1>3 DEF Reply
  <2>2. Present' \subseteq Present
    BY <1>3, PresentShrinks DEF Reply, records
  <2>3. \A g \in Grant : Writes(h, g) => Writes(proc[p], g)
    BY <1>3, GrantAssumption DEF Reply, At, Idle, Writes, ConsentPC, RedeemPC,
       RefreshPC, MintPC
  <2> HIDE DEF h
  <2>4. Busy' \subseteq Busy
    BY <2>1, <2>3, BusyAfter
  <2> QED
    BY <1>3, <2>2, <2>4, AsShrink DEF Reply
<1>4. CASE Abort(p)
  <2> DEFINE h == Idle
  <2>1. proc' = [proc EXCEPT ![p] = h]
    BY <1>4 DEF Abort
  <2>2. Present' \subseteq Present
    BY <1>4, PresentShrinks DEF Abort, records
  <2>3. \A g \in Grant : Writes(h, g) => Writes(proc[p], g)
    BY <1>4, GrantAssumption DEF Abort, At, Idle, Writes, ConsentPC, RedeemPC,
       RefreshPC, MintPC
  <2> HIDE DEF h
  <2>4. Busy' \subseteq Busy
    BY <2>1, <2>3, BusyAfter
  <2> QED
    BY <1>4, <2>2, <2>4, AsShrink DEF Abort, ids
<1> QED
  BY <1>1, <1>2, <1>3, <1>4

\* An operator revoke is a Shrink.
LEMMA KillPresence ==
  ASSUME NEW S, Kill(S) PROVE Presence!Next
<1>1. Present' \subseteq Present
  BY PresentShrinks DEF Kill
<1>2. Busy' \subseteq Busy
  BY DEF Kill, Busy, Pending, Writing
<1> QED
  BY <1>1, <1>2, AsShrink DEF Kill, ids

\* Every step of TokenGrants is a step of GrantPresence or changes nothing it sees.
LEMMA PresenceStep ==
  TypeInv /\ [Next]_vars => [Presence!Next]_(Presence!vars)
<1> SUFFICES ASSUME TypeInv, [Next]_vars PROVE Presence!Next \/ UNCHANGED Presence!vars
  OBVIOUS
<1>1. ASSUME Present' \subseteq Present, UNCHANGED <<proc, used>> PROVE Presence!Next
  <2>1. Busy' \subseteq Busy
    BY <1>1 DEF Busy, Pending, Writing
  <2> QED
    BY <1>1, <2>1, AsShrink
<1>2. CASE Tick
  BY <1>1, <1>2, PresentShrinks DEF Tick, records, ids
<1>3. ASSUME NEW c \in Client, RegistrationExpires(c) PROVE Presence!Next
  BY <1>1, <1>3, PresentShrinks DEF RegistrationExpires, records, ids
<1>4. ASSUME NEW c \in Client, RevokeClient(c) PROVE Presence!Next
  BY <1>4, KillPresence DEF RevokeClient
<1>5. ASSUME NEW g \in Grant, Authorize(g) PROVE Presence!Next
  <2>1. Present' \in {Present, Present \cup {g}}
    BY <1>5 DEF Authorize, Present, RecordsOf
  <2>2. Busy' = Busy
    BY <1>5 DEF Authorize, Busy, Pending, Writing
  <2> QED
    BY <1>5, <2>1, <2>2
    DEF Authorize, Presence!Next, Presence!Issue, Present, Busy
<1>6. ASSUME NEW g \in Grant, RevokeGrant(g) PROVE Presence!Next
  BY <1>6, KillPresence DEF RevokeGrant
<1>7. CASE RevokeAll
  BY <1>7, KillPresence DEF RevokeAll
<1>8. ASSUME NEW p \in Proc, HandlerStep(p) PROVE Presence!Next
  BY <1>8, ConsentPresence, RedeemPresence, RefreshPresence, RevokePresence, MintPresence
  DEF HandlerStep
<1>9. CASE SweepStart
  BY <1>1, <1>9, PresentShrinks DEF SweepStart, records, ids
<1>10. CASE SweepFails
  BY <1>1, <1>10, PresentShrinks DEF SweepFails, records, ids
<1>11. ASSUME NEW kind \in SweepPC \ {"off"}, Sweep(kind) PROVE Presence!Next
  <2>1. Present' \subseteq Present
    BY <1>11, PresentShrinks DEF Sweep
  <2> QED
    BY <1>1, <1>11, <2>1 DEF Sweep, ids
<1>12. CASE Crash
  <2>1. Busy' \subseteq Busy
    BY <1>12 DEF Crash, Busy, Pending, Writing, Idle, ConsentPC, RedeemPC, RefreshPC,
       MintPC
  <2>2. Present' \subseteq Present
    BY <1>12, PresentShrinks DEF Crash, records
  <2> QED
    BY <1>12, <2>1, <2>2, AsShrink DEF Crash, ids
<1>13. CASE UNCHANGED vars
  <2>1. Present' = Present
    BY <1>13 DEF vars, records, Present, RecordsOf
  <2>2. Busy' = Busy
    BY <1>13 DEF vars, Busy, Pending, Writing
  <2> QED
    BY <1>13, <2>1, <2>2 DEF vars, ids, Presence!vars, Present, Busy
<1>14. ASSUME NEW c \in Client, RegistrationSwept(c) PROVE Presence!Next
  BY <1>1, <1>14, PresentShrinks DEF RegistrationSwept, records, ids
<1> QED
  BY <1>2, <1>3, <1>4, <1>5, <1>6, <1>7, <1>8, <1>9, <1>10, <1>11, <1>12, <1>13,
     <1>14 DEF Next

\* The empty store is the abstract initial state.
LEMMA PresenceInit == Init => Presence!Init
  BY DEF Init, Presence!Init, RecordsOf, Pending, Writing, Idle, ConsentPC, RedeemPC,
     RefreshPC, MintPC

\* The handlers, the sweeper, the revokes and crashes together keep the store's
\* promise: a record of a grant is written only by a handler that found one before.
THEOREM StoreKeepsPromise == Spec => ImplementsGrantPresence
<1>1. TypeInv /\ [Next]_vars => [Presence!Next]_(Presence!vars)
  BY PresenceStep
<1> QED
  BY <1>1, PresenceInit, TypesHold, PTL DEF Spec, ImplementsGrantPresence, Presence!Spec

-----------------------------------------------------------------------------
(* An operator revoke that meets no handler in the middle of a write is final. *)

\* What GrantPresence allows cannot bring back a grant that is absent and not in work.
LEMMA AbsentStaysAbsent ==
  ASSUME [Presence!Next]_(Presence!vars), NEW g \in used, g \notin Present \cup Busy
  PROVE  g \notin Present' \cup Busy'
  BY DEF Presence!Next, Presence!vars, Presence!Issue, Presence!Load, Presence!Write,
     Presence!Shrink, Present, Busy

\* A revoke empties the store of the grants it names and leaves the handlers alone.
LEMMA KillBuries ==
  ASSUME NEW S, Kill(S), NEW g \in dead', g \notin dead
  PROVE  g \notin Present' \cup Busy'
<1>1. g \in S /\ ~Pending(g) /\ UNCHANGED proc
  BY DEF Kill
<1>2. RecordsOf(g)' = {}
  BY <1>1 DEF Kill, RecordsOf
<1>3. ~Pending(g)'
  BY <1>1 DEF Pending, Writing
<1> QED
  BY <1>2, <1>3 DEF Present, Busy

\* Only the three operator revokes add to `dead`.
LEMMA OnlyKillBuries ==
  ASSUME [Next]_vars PROVE dead' = dead \/ \E S : Kill(S)
<1>1. ASSUME NEW p \in Proc, HandlerStep(p) PROVE dead' = dead
  BY <1>1 DEF HandlerStep, ConsentStep, RedeemStep, RefreshStep, RevokeStep, ConsentLoad,
     ConsentCode, ConsentPKCE, ConsentFails, ConsentDone, RedeemStart, RedeemLoad, RedeemPKCE,
     RedeemBurn, RedeemAgain, RedeemInvalidate, RefreshStart, RefreshLoad, RotateGet,
     RotatePut, RevokeLoad, RevokeRefresh, RevokeAccess, MintAccess, MintRefresh, Reply,
     Abort, history
<1> QED
  BY <1>1 DEF Next, Tick, RegistrationExpires, RegistrationSwept, RevokeClient,
     Authorize, RevokeGrant,
     RevokeAll, SweepStart, SweepFails, Sweep, Crash, vars, history

\* A dead grant is neither in the store nor in the hands of a handler.
DeadInv == \A g \in dead : g \notin Present \cup Busy

\* DeadInv is inductive: a dead grant has no record a handler could load, so no handler
\* comes to hold it and none writes it.
LEMMA DeadInvStep == TypeInv /\ DeadInv /\ [Next]_vars => DeadInv'
<1> SUFFICES ASSUME TypeInv, DeadInv, [Next]_vars, NEW g \in dead'
             PROVE  g \notin Present' \cup Busy'
  BY DEF DeadInv
<1>1. CASE g \in dead
  BY <1>1, PresenceStep, AbsentStaysAbsent DEF DeadInv, TypeInv, TypeOK
<1>2. CASE g \notin dead
  BY <1>2, OnlyKillBuries, KillBuries
<1> QED
  BY <1>1, <1>2

\* A grant an operator revoked while no handler was writing for it never has a record
\* of any kind again.
THEOREM RevokesAreFinal == Spec => []KilledGrantsStayDead
<1>1. Init => DeadInv
  BY DEF Init, DeadInv
<1>2. TypeInv /\ DeadInv /\ [Next]_vars => DeadInv'
  BY DeadInvStep
<1>3. TypeInv /\ DeadInv => KilledGrantsStayDead
  BY DEF TypeInv, TypeOK, DeadInv, Present, KilledGrantsStayDead
<1> QED
  BY <1>1, <1>2, <1>3, TypesHold, PTL DEF Spec

-----------------------------------------------------------------------------
(* An exchange of a code whose PKCE session is consumed never reaches issuance. *)

\* A consent POST that has its code and not sent it yet.
Unsent == {"c_pkce", "c_done"}

\* A code leaves the gateway once: it is fresh until its consent POST answers.
CodesSentOnce ==
    /\ \A c \in sentCodes : c.sig < nextCode
    /\ \A p \in Proc : proc[p].pc \in Unsent =>
          proc[p].key < nextCode /\ \A c \in sentCodes : c.sig # proc[p].key
    /\ \A p, q \in Proc : proc[p].pc \in Unsent /\ proc[q].pc \in Unsent
          /\ proc[p].key = proc[q].key => p = q

\* Only codes that were sent are exchanged, so only those can be spent ...
OnlySentAreSpent ==
    /\ \A p \in Proc : proc[p].pc \in RedeemPC => \E c \in sentCodes : c.sig = proc[p].key
    /\ \A s \in spent : \E c \in sentCodes : c.sig = s

\* ... and the PKCE session of a spent code does not come back: a late exchange is stuck
\* before the step that needs it.
SpentStaysSpent ==
    /\ \A r \in pkces : r.sig \notin spent
    /\ \A p \in Proc : proc[p].tainted =>
          \/ proc[p].pc = "v_access"
          \/ proc[p].pc \in {"x_code", "x_pkce"} /\ proc[p].key \in spent

CodeInv == CodesSentOnce /\ OnlySentAreSpent /\ SpentStaysSpent

\* A handler moves on without creating, sending or spending a code.
LEMMA CodeMove ==
  ASSUME TypeOK, CodeInv, NEW p \in Proc, NEW h, proc' = [proc EXCEPT ![p] = h],
         UNCHANGED <<sentCodes, nextCode, spent>>, pkces' \subseteq pkces,
         h.pc \in Unsent => proc[p].pc \in Unsent /\ h.key = proc[p].key,
         h.pc \in RedeemPC => \E c \in sentCodes : c.sig = h.key,
         h.tainted => \/ h.pc = "v_access"
                      \/ h.pc \in {"x_code", "x_pkce"} /\ h.key \in spent
  PROVE  CodeInv'
<1>1. \A q \in Proc : proc'[q] = IF q = p THEN h ELSE proc[q]
  BY DEF TypeOK
<1>2. CodesSentOnce'
  BY <1>1 DEF CodeInv, CodesSentOnce
<1>3. OnlySentAreSpent'
  BY <1>1 DEF CodeInv, OnlySentAreSpent
<1>4. SpentStaysSpent'
  BY <1>1 DEF CodeInv, SpentStaysSpent
<1> QED
  BY <1>2, <1>3, <1>4 DEF CodeInv

\* The consent POST creates a code under a fresh signature and sends it at most once.
LEMMA ConsentCodes ==
  ASSUME TypeInv, CodeInv, NEW p \in Proc, ConsentStep(p) PROVE CodeInv'
<1> USE DEF TypeInv, TypeOK, Handler, At
<1>1. ASSUME NEW g \in Grant, ConsentLoad(p, g) PROVE CodeInv'
  <2>1. PICK r \in authReqs :
          proc' = [proc EXCEPT ![p] = [Idle EXCEPT !.pc = "c_code", !.grant = g, !.at = r.stamp]]
    BY <1>1 DEF ConsentLoad
  <2> DEFINE h == [Idle EXCEPT !.pc = "c_code", !.grant = g, !.at = r.stamp]
  <2>2. h.pc = "c_code" /\ ~h.tainted
    BY DEF Idle
  <2> HIDE DEF h
  <2> QED
    BY <1>1, <2>1, <2>2, CodeMove
    DEF ConsentLoad, records, ids, history, Unsent, RedeemPC, h
<1>2. CASE ConsentCode(p)
  <2> DEFINE h == [proc[p] EXCEPT !.pc = "c_pkce", !.key = nextCode]
  <2>1. proc' = [proc EXCEPT ![p] = h]
    BY <1>2 DEF ConsentCode
  <2>2. h.pc = "c_pkce" /\ h.key = nextCode /\ h.tainted = proc[p].tainted
    OBVIOUS
  <2>3. ~h.tainted
    BY <1>2, <2>2 DEF ConsentCode, CodeInv, SpentStaysSpent
  <2> HIDE DEF h
  <2>4. \A q \in Proc : proc'[q] = IF q = p THEN h ELSE proc[q]
    BY <2>1
  <2>5. nextCode' = nextCode + 1 /\ UNCHANGED <<sentCodes, pkces, spent>>
    BY <1>2 DEF ConsentCode, history
  <2>6. CodesSentOnce'
    BY <2>2, <2>4, <2>5 DEF CodeInv, CodesSentOnce, Ticket
  <2>7. OnlySentAreSpent'
    BY <2>2, <2>4, <2>5 DEF CodeInv, OnlySentAreSpent, RedeemPC
  <2>8. SpentStaysSpent'
    BY <2>3, <2>4, <2>5 DEF CodeInv, SpentStaysSpent
  <2> QED
    BY <2>6, <2>7, <2>8 DEF CodeInv
<1>3. CASE ConsentPKCE(p)
  <2> DEFINE h == [proc[p] EXCEPT !.pc = "c_done"]
             r == [sig |-> proc[p].key, grant |-> proc[p].grant, stamp |-> Stamp(proc[p].at)]
  <2>1. proc' = [proc EXCEPT ![p] = h] /\ pkces' = pkces \cup {r} /\ proc[p].pc = "c_pkce"
    BY <1>3 DEF ConsentPKCE
  <2>2. h.pc = "c_done" /\ h.key = proc[p].key /\ h.tainted = proc[p].tainted
    OBVIOUS
  <2>3. r.sig = proc[p].key
    OBVIOUS
  <2> HIDE DEF h, r
  <2>4. \A q \in Proc : proc'[q] = IF q = p THEN h ELSE proc[q]
    BY <2>1
  <2>5. UNCHANGED <<sentCodes, nextCode, spent>>
    BY <1>3 DEF ConsentPKCE, ids, history
  <2>6. proc[p].key \notin spent
    BY <2>1 DEF CodeInv, CodesSentOnce, OnlySentAreSpent, Unsent
  <2>7. CodesSentOnce'
    BY <2>1, <2>2, <2>4, <2>5 DEF CodeInv, CodesSentOnce, Unsent
  <2>8. OnlySentAreSpent'
    BY <2>2, <2>4, <2>5 DEF CodeInv, OnlySentAreSpent, RedeemPC
  <2>9. SpentStaysSpent'
    BY <2>1, <2>2, <2>3, <2>4, <2>5, <2>6 DEF CodeInv, SpentStaysSpent
  <2> QED
    BY <2>7, <2>8, <2>9 DEF CodeInv
<1>4. CASE ConsentFails(p)
  <2> DEFINE h == [proc[p] EXCEPT !.pc = "c_fail"]
  <2>1. proc' = [proc EXCEPT ![p] = h] /\ h.pc = "c_fail" /\ h.tainted = proc[p].tainted
    BY <1>4 DEF ConsentFails
  <2>2. ~h.tainted
    BY <1>4, <2>1 DEF ConsentFails, CodeInv, SpentStaysSpent
  <2> HIDE DEF h
  <2> QED
    BY <1>4, <2>1, <2>2, CodeMove DEF ConsentFails, records, ids, history, Unsent, RedeemPC
<1>5. CASE ConsentDone(p)
  <2>1. \A q \in Proc : proc'[q] = IF q = p THEN Idle ELSE proc[q]
    BY <1>5 DEF ConsentDone
  <2>2. UNCHANGED <<nextCode, spent, pkces>>
    BY <1>5 DEF ConsentDone, history
  <2>3. \/ sentCodes' = sentCodes
        \/ proc[p].pc \in Unsent /\ \A c \in sentCodes' : c \in sentCodes \/ c.sig = proc[p].key
    BY <1>5 DEF ConsentDone, Unsent
  <2>4. sentCodes \subseteq sentCodes'
    BY <1>5 DEF ConsentDone
  <2>5. Idle.pc = "idle" /\ ~Idle.tainted
    BY DEF Idle
  <2>6. CodesSentOnce'
    BY <2>1, <2>2, <2>3, <2>5 DEF CodeInv, CodesSentOnce, Unsent
  <2>7. OnlySentAreSpent'
    BY <2>1, <2>2, <2>4, <2>5 DEF CodeInv, OnlySentAreSpent, RedeemPC
  <2>8. SpentStaysSpent'
    BY <2>1, <2>2, <2>5 DEF CodeInv, SpentStaysSpent
  <2> QED
    BY <2>6, <2>7, <2>8 DEF CodeInv
<1> QED
  BY ConsentStep(p), <1>1, <1>2, <1>3, <1>4, <1>5 DEF ConsentStep

\* The exchange spends a code the moment it deletes the PKCE session it found.
LEMMA RedeemCodes ==
  ASSUME TypeInv, CodeInv, NEW p \in Proc, RedeemStep(p) PROVE CodeInv'
<1> USE DEF TypeInv, TypeOK, Handler, At
<1>1. ASSUME NEW c \in sentCodes, RedeemStart(p, c) PROVE CodeInv'
  <2> DEFINE h == [Idle EXCEPT !.pc = "x_code", !.key = c.sig, !.at = now,
                               !.tainted = (c.sig \in spent)]
  <2>1. proc' = [proc EXCEPT ![p] = h]
    BY <1>1 DEF RedeemStart
  <2>2. h.pc = "x_code" /\ h.key = c.sig /\ (h.tainted => c.sig \in spent)
    BY DEF Idle
  <2> HIDE DEF h
  <2> QED
    BY <1>1, <2>1, <2>2, CodeMove DEF RedeemStart, records, ids, history, Unsent
<1>2. CASE RedeemLoad(p)
  <2>1. PICK r \in codes : proc' = [proc EXCEPT ![p] =
              [proc[p] EXCEPT !.pc = "x_pkce", !.grant = r.grant, !.from = now]]
    BY <1>2 DEF RedeemLoad
  <2> DEFINE h == [proc[p] EXCEPT !.pc = "x_pkce", !.grant = r.grant, !.from = now]
  <2>2. proc' = [proc EXCEPT ![p] = h] /\ h.pc = "x_pkce" /\ h.key = proc[p].key
        /\ h.tainted = proc[p].tainted
    BY <2>1
  <2> HIDE DEF h
  <2>3. \E c \in sentCodes : c.sig = h.key
    BY <1>2, <2>2 DEF RedeemLoad, RedeemPC, CodeInv, OnlySentAreSpent
  <2>4. h.tainted => h.key \in spent
    BY <1>2, <2>2 DEF RedeemLoad, CodeInv, SpentStaysSpent
  <2> QED
    BY <1>2, <2>2, <2>3, <2>4, CodeMove DEF RedeemLoad, records, ids, history, Unsent
<1>3. CASE RedeemPKCE(p)
  <2> DEFINE h == [proc[p] EXCEPT !.pc = "x_burn"]
  <2>1. proc' = [proc EXCEPT ![p] = h] /\ h.pc = "x_burn" /\ h.key = proc[p].key
        /\ h.tainted = proc[p].tainted
    BY <1>3 DEF RedeemPKCE
  <2> HIDE DEF h
  <2>2. \E c \in sentCodes : c.sig = h.key
    BY <1>3, <2>1 DEF RedeemPKCE, RedeemPC, CodeInv, OnlySentAreSpent
  <2>3. ~h.tainted
    BY <1>3, <2>1 DEF RedeemPKCE, CodeInv, SpentStaysSpent
  <2> QED
    BY <1>3, <2>1, <2>2, <2>3, CodeMove DEF RedeemPKCE, records, ids, history, Unsent
<1>4. CASE RedeemBurn(p)
  <2> DEFINE h == [proc[p] EXCEPT !.pc = "x_again"]
  <2>1. proc' = [proc EXCEPT ![p] = h] /\ h.pc = "x_again" /\ h.key = proc[p].key
        /\ h.tainted = proc[p].tainted
    BY <1>4 DEF RedeemBurn
  <2> HIDE DEF h
  <2>2. \A q \in Proc : proc'[q] = IF q = p THEN h ELSE proc[q]
    BY <2>1
  <2>3. /\ UNCHANGED <<sentCodes, nextCode>>
        /\ pkces' = {r \in pkces : r.sig # proc[p].key}
        /\ spent' = spent \cup {proc[p].key}
    BY <1>4 DEF RedeemBurn, ids
  <2>4. (\E c \in sentCodes : c.sig = proc[p].key) /\ ~proc[p].tainted
    BY <1>4 DEF RedeemBurn, RedeemPC, CodeInv, OnlySentAreSpent, SpentStaysSpent
  <2>5. CodesSentOnce'
    BY <2>1, <2>2, <2>3 DEF CodeInv, CodesSentOnce, Unsent
  <2>6. OnlySentAreSpent'
    BY <2>1, <2>2, <2>3, <2>4 DEF CodeInv, OnlySentAreSpent
  <2>7. SpentStaysSpent'
    BY <2>1, <2>2, <2>3, <2>4 DEF CodeInv, SpentStaysSpent
  <2> QED
    BY <2>5, <2>6, <2>7 DEF CodeInv
<1>5. CASE RedeemAgain(p)
  <2> DEFINE h == [proc[p] EXCEPT !.pc = "x_inval"]
  <2>1. proc' = [proc EXCEPT ![p] = h] /\ h.pc = "x_inval" /\ h.key = proc[p].key
        /\ h.tainted = proc[p].tainted
    BY <1>5 DEF RedeemAgain
  <2> HIDE DEF h
  <2>2. (\E c \in sentCodes : c.sig = h.key) /\ ~h.tainted
    BY <1>5, <2>1 DEF RedeemAgain, RedeemPC, CodeInv, OnlySentAreSpent, SpentStaysSpent
  <2> QED
    BY <1>5, <2>1, <2>2, CodeMove DEF RedeemAgain, records, ids, history, Unsent
<1>6. CASE RedeemInvalidate(p)
  <2> DEFINE h == [proc[p] EXCEPT !.pc = "m_access"]
  <2>1. proc' = [proc EXCEPT ![p] = h] /\ h.pc = "m_access" /\ h.tainted = proc[p].tainted
    BY <1>6 DEF RedeemInvalidate
  <2> HIDE DEF h
  <2>2. ~h.tainted
    BY <1>6, <2>1 DEF RedeemInvalidate, CodeInv, SpentStaysSpent
  <2> QED
    BY <1>6, <2>1, <2>2, CodeMove DEF RedeemInvalidate, ids, Unsent, RedeemPC
<1> QED
  BY RedeemStep(p), <1>1, <1>2, <1>3, <1>4, <1>5, <1>6 DEF RedeemStep

\* The other handlers leave the codes alone; a refresh or a reply is never a late exchange.
LEMMA OthersLeaveCodes ==
  ASSUME TypeInv, CodeInv, NEW p \in Proc,
         RefreshStep(p) \/ RevokeStep(p) \/ MintAccess(p) \/ MintRefresh(p) \/ Reply(p) \/ Abort(p)
  PROVE  CodeInv'
<1> USE DEF TypeInv, TypeOK, Handler, At
<1>1. proc' = [proc EXCEPT ![p] = proc'[p]]
  BY DEF RefreshStep, RefreshStart, RefreshLoad, RotateGet, RotatePut, RevokeStep, RevokeLoad,
     RevokeRefresh, RevokeAccess, MintAccess, MintRefresh, Reply, Abort
<1>2. proc[p].tainted => proc[p].pc \in {"v_access", "x_code", "x_pkce"}
  BY DEF CodeInv, SpentStaysSpent
<1>3. /\ proc'[p].pc \notin Unsent \cup RedeemPC
      /\ proc'[p].tainted => proc'[p].pc = "v_access"
  <2> USE DEF Unsent, RedeemPC, Idle
  <2>1. CASE RefreshStep(p)
    <3>1. ASSUME NEW t \in held, RefreshStart(p, t)
          PROVE  proc'[p].pc = "r_load" /\ ~proc'[p].tainted
      BY <3>1 DEF RefreshStart
    <3>2. CASE RefreshLoad(p)
      BY <1>2, <3>2 DEF RefreshLoad
    <3>3. CASE RotateGet(p) \/ RotatePut(p)
      BY <1>2, <3>3 DEF RotateGet, RotatePut
    <3> QED
      BY <2>1, <3>1, <3>2, <3>3 DEF RefreshStep
  <2>2. CASE RevokeStep(p)
    <3>1. ASSUME NEW t \in held, RevokeLoad(p, t)
          PROVE  proc'[p].pc = "v_refresh" /\ ~proc'[p].tainted
      BY <3>1 DEF RevokeLoad
    <3>2. CASE RevokeRefresh(p)
      <4>1. proc'[p].pc = "v_access"
        BY <3>2 DEF RevokeRefresh
      <4> QED
        BY <4>1
    <3>3. CASE RevokeAccess(p)
      BY <3>3 DEF RevokeAccess
    <3> QED
      BY <2>2, <3>1, <3>2, <3>3 DEF RevokeStep
  <2>3. CASE MintAccess(p) \/ MintRefresh(p)
    BY <1>2, <2>3 DEF MintAccess, MintRefresh
  <2>4. CASE Reply(p) \/ Abort(p)
    BY <2>4 DEF Reply, Abort
  <2> QED
    BY <2>1, <2>2, <2>3, <2>4
<1>4. UNCHANGED <<sentCodes, nextCode, spent, pkces>>
  BY DEF RefreshStep, RefreshStart, RefreshLoad, RotateGet, RotatePut, RevokeStep, RevokeLoad,
     RevokeRefresh, RevokeAccess, MintAccess, MintRefresh, Reply, Abort, records, ids, history
<1> QED
  BY <1>1, <1>2, <1>3, <1>4, CodeMove

\* CodeInv is inductive; outside the handlers only a crash touches what it reads.
LEMMA CodeInvStep == TypeInv /\ CodeInv /\ [Next]_vars => CodeInv'
<1> SUFFICES ASSUME TypeInv, CodeInv, [Next]_vars PROVE CodeInv'
  OBVIOUS
<1> USE DEF CodeInv, CodesSentOnce, OnlySentAreSpent, SpentStaysSpent
<1>1. ASSUME NEW p \in Proc, HandlerStep(p) PROVE CodeInv'
  <2> HIDE DEF CodeInv
  <2> QED
    BY <1>1, ConsentCodes, RedeemCodes, OthersLeaveCodes DEF HandlerStep
<1>2. CASE Crash
  <2>1. \A q \in Proc : proc'[q].pc = "idle" /\ ~proc'[q].tainted
    BY <1>2 DEF Crash, Idle
  <2>2. UNCHANGED <<sentCodes, nextCode, spent, pkces>>
    BY <1>2 DEF Crash, records, ids, history
  <2> QED
    BY <2>1, <2>2 DEF Unsent, RedeemPC
<1>3. ASSUME UNCHANGED <<proc, sentCodes, nextCode, spent>>, pkces' \subseteq pkces
      PROVE  CodeInv'
  BY <1>3
<1>4. CASE UNCHANGED vars
  BY <1>3, <1>4 DEF vars, records, ids, history
<1>5. CASE ~(Crash \/ \E p \in Proc : HandlerStep(p)) /\ Next
  <2> HIDE DEF CodeInv
  <2>1. UNCHANGED <<proc, sentCodes, nextCode, spent>> /\ pkces' \subseteq pkces
    BY <1>5 DEF Next, Tick, RegistrationExpires, RegistrationSwept, RevokeClient, Authorize,
       RevokeGrant, RevokeAll, Kill, SweepStart, SweepFails, Sweep, records, ids, history
  <2> QED
    BY <1>3, <2>1
<1> QED
  BY <1>1, <1>2, <1>4, <1>5

\* Once an exchange has deleted a code's PKCE session, a later exchange of the code never
\* reaches issuance, for any number of concurrent handlers and whatever crashes.
THEOREM LateExchangesFail == Spec => []LateRedemptionFails
<1>1. Init => CodeInv
  BY DEF Init, CodeInv, CodesSentOnce, OnlySentAreSpent, SpentStaysSpent, Idle, Unsent, RedeemPC
<1>2. TypeInv /\ CodeInv /\ [Next]_vars => CodeInv'
  BY CodeInvStep
<1>3. CodeInv => LateRedemptionFails
  BY DEF CodeInv, SpentStaysSpent, LateRedemptionFails, MintPC
<1> QED
  BY <1>1, <1>2, <1>3, TypesHold, PTL DEF Spec

-----------------------------------------------------------------------------
(* A client's revocation that met nothing pending is final for the tokens. *)

\* The grants something besides an access record could still bring tokens of: a handler
\* that may write for them, or a record a handler could load.
Open == {g \in Grant : Pending(g) \/ \E r \in authReqs \cup codes \cup refresh : r.grant = g}

\* One handler moves: it takes up a grant only through one of those records.
LEMMA OpenMove ==
  ASSUME TypeOK, NEW p \in Proc, proc' = [proc EXCEPT ![p] = proc'[p]],
         \A r \in authReqs' \cup codes' \cup refresh' : r.grant \in Open,
         \A g \in Grant : Writes(proc'[p], g) => g \in Open
  PROVE  Open' \subseteq Open
<1> SUFFICES ASSUME NEW g \in Open' PROVE g \in Open
  OBVIOUS
<1>1. CASE \E r \in authReqs' \cup codes' \cup refresh' : r.grant = g
  BY <1>1
<1>2. CASE Pending(g)'
  <2>1. PICK q \in Proc : Writes(proc'[q], g)
    BY <1>2 DEF Pending, Writing, Writes
  <2>2. CASE q = p
    BY <2>1, <2>2 DEF Open
  <2>3. CASE q # p
    <3>1. proc'[q] = proc[q]
      BY <2>3 DEF TypeOK
    <3> QED
      BY <2>1, <3>1 DEF Open, Pending, Writing, Writes
  <2> QED
    BY <2>2, <2>3
<1> QED
  BY <1>1, <1>2 DEF Open

\* What a handler holds between a load and its last write is an open grant.
LEMMA WritersAreOpen ==
  ASSUME TypeInv, NEW p \in Proc,
         proc[p].pc \in {"c_code", "c_pkce", "x_pkce", "x_burn", "x_again", "x_inval",
                         "r_get", "r_put", "m_access", "m_refresh"}
  PROVE  proc[p].grant \in Open /\ proc[p].grant \in Grant
  BY DEF TypeInv, TypeOK, HandlersKnow, Unloaded, Open, Pending, Writing, ConsentPC,
     RedeemPC, RefreshPC, MintPC

\* The records that keep a grant open are those of open grants.
LEMMA RecordsAreOpen ==
  ASSUME TypeInv PROVE \A r \in authReqs \cup codes \cup refresh : r.grant \in Open
  BY DEF TypeInv, TypeOK, GrantsKnown, Open

\* The consent POST opens no grant: it loads a pending request and writes its code.
LEMMA ConsentOpens ==
  ASSUME TypeInv, NEW p \in Proc, ConsentStep(p)
  PROVE  Open' \subseteq Open /\ access' = access
<1> USE DEF TypeInv, TypeOK, Handler, At, records
<1>1. proc' = [proc EXCEPT ![p] = proc'[p]]
  BY DEF ConsentStep, ConsentLoad, ConsentCode, ConsentPKCE, ConsentFails, ConsentDone
<1>2. access' = access
  BY DEF ConsentStep, ConsentLoad, ConsentCode, ConsentPKCE, ConsentFails, ConsentDone
<1> DEFINE OpenOnly == /\ \A r \in authReqs' \cup codes' \cup refresh' : r.grant \in Open
                       /\ \A g \in Grant : Writes(proc'[p], g) => g \in Open
<1>3. OpenOnly
  <2> USE DEF Writes, ConsentPC, RedeemPC, RefreshPC, MintPC
  <2>1. ASSUME NEW g \in Grant, ConsentLoad(p, g) PROVE OpenOnly
    <3>1. PICK r \in authReqs :
            r.grant = g /\ proc' = [proc EXCEPT ![p] = [Idle EXCEPT !.pc = "c_code",
                                                          !.grant = g, !.at = r.stamp]]
      BY <2>1 DEF ConsentLoad
    <3>2. proc'[p].grant = g
      BY <3>1 DEF Idle
    <3> QED
      BY <2>1, <3>1, <3>2, RecordsAreOpen DEF ConsentLoad
  <2>2. CASE ConsentCode(p)
    <3> DEFINE r == [sig |-> nextCode, grant |-> proc[p].grant,
                     stamp |-> Stamp(proc[p].at), exp |-> now + CodeTTL]
    <3>1. r.grant \in Open /\ codes' = codes \cup {r}
      BY <2>2, WritersAreOpen DEF ConsentCode
    <3>2. proc'[p].grant \in Open
      BY <2>2, WritersAreOpen DEF ConsentCode
    <3> HIDE DEF r
    <3> QED
      BY <2>2, <3>1, <3>2, RecordsAreOpen DEF ConsentCode
  <2>3. CASE ConsentPKCE(p) \/ ConsentFails(p)
    BY <2>3, RecordsAreOpen DEF ConsentPKCE, ConsentFails
  <2>4. CASE ConsentDone(p)
    BY <2>4, RecordsAreOpen DEF ConsentDone, Idle
  <2> QED
    BY <2>1, <2>2, <2>3, <2>4 DEF ConsentStep
<1> QED
  BY <1>1, <1>2, <1>3, OpenMove

\* The code exchange loads a code of the grant it then holds.
LEMMA RedeemOpens ==
  ASSUME TypeInv, NEW p \in Proc, RedeemStep(p)
  PROVE  Open' \subseteq Open /\ access' = access
<1> USE DEF TypeInv, TypeOK, Handler, At, records
<1>1. proc' = [proc EXCEPT ![p] = proc'[p]]
  BY DEF RedeemStep, RedeemStart, RedeemLoad, RedeemPKCE, RedeemBurn, RedeemAgain,
     RedeemInvalidate
<1>2. /\ codes' \subseteq codes
      /\ UNCHANGED <<authReqs, refresh, access>>
  BY DEF RedeemStep, RedeemStart, RedeemLoad, RedeemPKCE, RedeemBurn, RedeemAgain,
     RedeemInvalidate
<1>3. \A g \in Grant : Writes(proc'[p], g) => g \in Open
  <2> USE DEF Writes, ConsentPC, RedeemPC, RefreshPC, MintPC
  <2>1. ASSUME NEW c \in sentCodes, RedeemStart(p, c) PROVE proc'[p].grant = NoGrant
    BY <2>1 DEF RedeemStart, Idle
  <2>2. CASE RedeemLoad(p)
    <3>1. PICK r \in codes : proc' = [proc EXCEPT ![p] =
              [proc[p] EXCEPT !.pc = "x_pkce", !.grant = r.grant, !.from = now]]
      BY <2>2 DEF RedeemLoad
    <3>2. proc'[p].grant = r.grant
      BY <3>1
    <3>3. r.grant \in Open
      BY RecordsAreOpen
    <3> QED
      BY <3>2, <3>3
  <2>3. CASE RedeemPKCE(p) \/ RedeemBurn(p) \/ RedeemAgain(p) \/ RedeemInvalidate(p)
    <3>1. proc'[p].grant = proc[p].grant /\ proc[p].pc \in {"x_pkce", "x_burn", "x_again", "x_inval"}
      BY <2>3 DEF RedeemPKCE, RedeemBurn, RedeemAgain, RedeemInvalidate
    <3> QED
      BY <3>1, WritersAreOpen
  <2> QED
    BY <2>1, <2>2, <2>3, GrantAssumption DEF RedeemStep
<1> QED
  BY <1>1, <1>2, <1>3, RecordsAreOpen, OpenMove

\* The refresh loads a token of the grant it then holds; rotation keeps the grant.
LEMMA RefreshOpens ==
  ASSUME TypeInv, NEW p \in Proc, RefreshStep(p)
  PROVE  Open' \subseteq Open /\ access' = access
<1> USE DEF TypeInv, TypeOK, Handler, At, records
<1>1. proc' = [proc EXCEPT ![p] = proc'[p]]
  BY DEF RefreshStep, RefreshStart, RefreshLoad, RotateGet, RotatePut
<1>2. UNCHANGED <<authReqs, codes, access>>
  BY DEF RefreshStep, RefreshStart, RefreshLoad, RotateGet, RotatePut
<1>3. \A r \in refresh' : \E s \in refresh : s.grant = r.grant
  <2>1. CASE RotatePut(p)
    <3> DEFINE rotate(r) == [r EXCEPT !.rotated = @ \/ r.sig = proc[p].key]
    <3>1. \A r \in refresh : rotate(r).grant = r.grant
      BY DEF RefreshRec
    <3>2. refresh' = {rotate(r) : r \in refresh}
      BY <2>1 DEF RotatePut
    <3> HIDE DEF rotate
    <3> QED
      BY <3>1, <3>2
  <2> QED
    BY <2>1 DEF RefreshStep, RefreshStart, RefreshLoad, RotateGet
<1>4. \A g \in Grant : Writes(proc'[p], g) => g \in Open
  <2> USE DEF Writes, ConsentPC, RedeemPC, RefreshPC, MintPC
  <2>1. ASSUME NEW t \in held, RefreshStart(p, t) PROVE proc'[p].grant = NoGrant
    BY <2>1 DEF RefreshStart, Idle
  <2>2. CASE RefreshLoad(p)
    <3>1. PICK r \in refresh : proc' = [proc EXCEPT ![p] =
              [proc[p] EXCEPT !.pc = "r_get", !.grant = r.grant, !.from = now]]
      BY <2>2 DEF RefreshLoad
    <3>2. proc'[p].grant = r.grant
      BY <3>1
    <3>3. r.grant \in Open
      BY RecordsAreOpen
    <3> QED
      BY <3>2, <3>3
  <2>3. CASE RotateGet(p) \/ RotatePut(p)
    <3>1. proc'[p].grant = proc[p].grant /\ proc[p].pc \in {"r_get", "r_put"}
      BY <2>3 DEF RotateGet, RotatePut
    <3> QED
      BY <3>1, WritersAreOpen
  <2> QED
    BY <2>1, <2>2, <2>3, GrantAssumption DEF RefreshStep
<1> QED
  BY <1>1, <1>2, <1>3, <1>4, RecordsAreOpen, OpenMove

\* Issuance writes tokens of an open grant only.
LEMMA MintOpens ==
  ASSUME TypeInv, NEW p \in Proc, MintAccess(p) \/ MintRefresh(p) \/ Reply(p) \/ Abort(p)
  PROVE  Open' \subseteq Open /\ \A r \in access' : r \in access \/ r.grant \in Open
<1> USE DEF TypeInv, TypeOK, Handler, At, records
<1>1. CASE MintAccess(p)
  <2> DEFINE r == [sig |-> nextToken, grant |-> proc[p].grant, stamp |-> Stamp(proc[p].at),
                   exp |-> proc[p].from + AccessTTL]
  <2>1. proc[p].grant \in Open
    BY <1>1, WritersAreOpen DEF MintAccess
  <2>2. r.grant \in Open /\ access' = access \cup {r}
    BY <1>1, <2>1 DEF MintAccess
  <2> HIDE DEF r
  <2>3. proc' = [proc EXCEPT ![p] = proc'[p]] /\ proc'[p].grant = proc[p].grant
    BY <1>1 DEF MintAccess
  <2>4. \A s \in authReqs' \cup codes' \cup refresh' : s.grant \in Open
    BY <1>1, <2>2, RecordsAreOpen DEF MintAccess
  <2>5. \A g \in Grant : Writes(proc'[p], g) => g \in Open
    BY <2>1, <2>3 DEF Writes
  <2> QED
    BY <1>1, <2>2, <2>3, <2>4, <2>5, OpenMove DEF MintAccess
<1>2. CASE MintRefresh(p)
  <2> DEFINE r == [sig |-> proc[p].key, grant |-> proc[p].grant, stamp |-> Stamp(proc[p].at),
                   exp |-> proc[p].from + RefreshTTL, rotated |-> FALSE]
  <2>1. proc[p].grant \in Open
    BY <1>2, WritersAreOpen DEF MintRefresh
  <2>2. r.grant \in Open /\ refresh' = refresh \cup {r}
    BY <1>2, <2>1 DEF MintRefresh
  <2> HIDE DEF r
  <2>3. proc' = [proc EXCEPT ![p] = proc'[p]] /\ proc'[p].grant = proc[p].grant
    BY <1>2 DEF MintRefresh
  <2>4. \A s \in authReqs' \cup codes' \cup refresh' : s.grant \in Open
    BY <1>2, <2>2, RecordsAreOpen DEF MintRefresh
  <2>5. \A g \in Grant : Writes(proc'[p], g) => g \in Open
    BY <2>1, <2>3 DEF Writes
  <2> QED
    BY <1>2, <2>2, <2>3, <2>4, <2>5, OpenMove DEF MintRefresh
<1>3. CASE Reply(p) \/ Abort(p)
  <2>1. proc' = [proc EXCEPT ![p] = proc'[p]] /\ proc'[p].grant = NoGrant
    BY <1>3 DEF Reply, Abort, Idle
  <2> QED
    BY <1>3, <2>1, RecordsAreOpen, OpenMove, GrantAssumption DEF Reply, Abort, Writes
<1> QED
  BY <1>1, <1>2, <1>3

\* RFC 7009 revocation writes nothing and takes up no grant.
LEMMA RevokeOpens ==
  ASSUME TypeInv, NEW p \in Proc, RevokeStep(p)
  PROVE  Open' \subseteq Open /\ access' \subseteq access
<1> USE DEF TypeInv, TypeOK, Handler, At, records
<1>1. proc' = [proc EXCEPT ![p] = proc'[p]]
  BY DEF RevokeStep, RevokeLoad, RevokeRefresh, RevokeAccess
<1>2. refresh' \subseteq refresh /\ access' \subseteq access /\ UNCHANGED <<authReqs, codes>>
  BY DEF RevokeStep, RevokeLoad, RevokeRefresh, RevokeAccess
<1>3. proc'[p].pc \in {"v_refresh", "v_access", "idle"}
  <2>1. ASSUME NEW t \in held, RevokeLoad(p, t) PROVE proc'[p].pc = "v_refresh"
    BY <2>1 DEF RevokeLoad, Idle
  <2>2. RevokeRefresh(p) => proc'[p].pc = "v_access"
    BY DEF RevokeRefresh
  <2>3. RevokeAccess(p) => proc'[p].pc = "idle"
    BY DEF RevokeAccess, Idle
  <2> QED
    BY <2>1, <2>2, <2>3 DEF RevokeStep
<1>4. \A g \in Grant : ~Writes(proc'[p], g)
  BY <1>3 DEF Writes, ConsentPC, RedeemPC, RefreshPC, MintPC
<1> QED
  BY <1>1, <1>2, <1>4, RecordsAreOpen, OpenMove

\* No step opens a grant handed out before, and none writes an access record of a grant
\* that is not open.
LEMMA NothingReopens ==
  ASSUME TypeInv, [Next]_vars
  PROVE  /\ \A g \in used : g \in Open' => g \in Open
         /\ \A r \in access' : r \in access \/ r.grant \in Open
<1> DEFINE Shut == /\ \A g \in used : g \in Open' => g \in Open
                   /\ \A r \in access' : r \in access \/ r.grant \in Open
<1>1. ASSUME NEW p \in Proc, HandlerStep(p) PROVE Shut
  BY <1>1, ConsentOpens, RedeemOpens, RefreshOpens, MintOpens, RevokeOpens DEF HandlerStep
<1>2. ASSUME NEW g \in Grant, Authorize(g) PROVE Shut
  BY <1>2 DEF Authorize, Open, Pending, Writing
<1>3. CASE Crash
  <2>1. \A g \in Grant : ~Pending(g)'
    BY <1>3, GrantAssumption DEF Crash, Pending, Writing, Idle
  <2> QED
    BY <1>3, <2>1 DEF Crash, Open, records
<1>4. ASSUME UNCHANGED proc, authReqs' \subseteq authReqs, codes' \subseteq codes,
             refresh' \subseteq refresh, access' \subseteq access
      PROVE  Shut
  BY <1>4 DEF Open, Pending, Writing
<1>5. CASE \/ Tick \/ SweepStart \/ SweepFails \/ RevokeAll
           \/ \E c \in Client : RegistrationExpires(c) \/ RegistrationSwept(c) \/ RevokeClient(c)
           \/ \E g \in Grant : RevokeGrant(g)
           \/ \E kind \in SweepPC \ {"off"} : Sweep(kind)
           \/ UNCHANGED vars
  <2>1. /\ UNCHANGED proc /\ authReqs' \subseteq authReqs /\ codes' \subseteq codes
        /\ refresh' \subseteq refresh /\ access' \subseteq access
    BY <1>5 DEF Tick, RegistrationExpires, RegistrationSwept, RevokeClient, RevokeGrant,
       RevokeAll, Kill, SweepStart, SweepFails, Sweep, records, vars
  <2> QED
    BY <1>4, <2>1
<1> QED
  BY <1>1, <1>2, <1>3, <1>5 DEF Next

\* A surrendered grant is closed and holds no access record; so is, up to the access
\* records it is about to delete, the grant of a revocation half way through.
SurrenderInv ==
    /\ \A g \in surrendered : g \notin Open /\ \A r \in access : r.grant # g
    /\ \A p \in Proc : proc[p].pc = "v_access" /\ ~proc[p].tainted => proc[p].grant \notin Open

\* SurrenderInv is inductive.
LEMMA SurrenderInvStep == TypeInv /\ SurrenderInv /\ [Next]_vars => SurrenderInv'
<1> SUFFICES ASSUME TypeInv, SurrenderInv, [Next]_vars PROVE SurrenderInv'
  OBVIOUS
<1>1. \A g \in surrendered : g \notin Open' /\ \A r \in access' : r.grant # g
  BY NothingReopens DEF SurrenderInv, TypeInv, TypeOK
<1>2. \A p \in Proc : proc[p].pc = "v_access" /\ ~proc[p].tainted => proc[p].grant \notin Open'
  BY NothingReopens DEF SurrenderInv, TypeInv, HandlersKnow, Unloaded
<1> USE DEF TypeInv, TypeOK, Handler, At
<1>3. ASSUME NEW p \in Proc, RevokeRefresh(p) PROVE SurrenderInv'
  <2>1. UNCHANGED surrendered /\ \A q \in Proc \ {p} : proc'[q] = proc[q]
    BY <1>3 DEF RevokeRefresh, history
  <2>2. ~proc'[p].tainted => proc'[p].grant \notin Open'
    <3>1. CASE /\ refresh' = {r \in refresh : r.grant # proc[p].grant}
               /\ proc' = [proc EXCEPT ![p].pc = "v_access",
                                       ![p].tainted = Revivable(proc[p].grant)]
      <4>1. proc'[p].grant = proc[p].grant /\ (proc'[p].tainted <=> Revivable(proc[p].grant))
        BY <3>1
      <4>2. ~Revivable(proc[p].grant) => proc[p].grant \notin Open'
        <5>1. UNCHANGED <<authReqs, codes>>
          BY <1>3 DEF RevokeRefresh
        <5>2. Pending(proc[p].grant)' => Pending(proc[p].grant)
          <6>1. proc'[p].pc = "v_access"
            BY <3>1
          <6>2. \A q \in Proc : Writing(q, proc[p].grant)' => Writing(q, proc[p].grant)
            BY <2>1, <4>1, <6>1 DEF Writing, ConsentPC, RedeemPC, RefreshPC, MintPC
          <6> QED
            BY <6>2 DEF Pending
        <5> QED
          BY <3>1, <5>1, <5>2 DEF Revivable, Open
      <4> QED
        BY <4>1, <4>2
    <3>2. CASE proc' = [proc EXCEPT ![p].pc = "v_access", ![p].tainted = TRUE]
      BY <3>2
    <3> QED
      BY <1>3, <3>1, <3>2 DEF RevokeRefresh
  <2> QED
    BY <1>1, <1>2, <2>1, <2>2 DEF SurrenderInv
<1>4. ASSUME NEW p \in Proc, RevokeAccess(p) PROVE SurrenderInv'
  <2>1. \A q \in Proc : proc'[q] = proc[q] \/ proc'[q].pc = "idle"
    BY <1>4 DEF RevokeAccess, Idle
  <2>2. \A g \in surrendered' :
           \/ g \in surrendered
           \/ g = proc[p].grant /\ ~proc[p].tainted /\ access' = {r \in access : r.grant # g}
    BY <1>4 DEF RevokeAccess
  <2>3. proc[p].pc = "v_access"
    BY <1>4 DEF RevokeAccess
  <2> QED
    BY <1>1, <1>2, <2>1, <2>2, <2>3 DEF SurrenderInv
<1>5. CASE ~\E p \in Proc : RevokeRefresh(p) \/ RevokeAccess(p)
  <2>1. surrendered' = surrendered
    BY <1>5 DEF Next, Tick, RegistrationExpires, RegistrationSwept, RevokeClient, Authorize,
       RevokeGrant, RevokeAll, Kill, SweepStart, SweepFails, Sweep, Crash, HandlerStep,
       ConsentStep, RedeemStep, RefreshStep, RevokeStep, ConsentLoad, ConsentCode, ConsentPKCE,
       ConsentFails, ConsentDone, RedeemStart, RedeemLoad, RedeemPKCE, RedeemBurn, RedeemAgain,
       RedeemInvalidate, RefreshStart, RefreshLoad, RotateGet, RotatePut, RevokeLoad,
       MintAccess, MintRefresh, Reply, Abort, vars, history
  <2>2. ASSUME NEW q \in Proc, proc'[q] # proc[q] PROVE proc'[q].pc # "v_access"
    <3> USE DEF Idle
    <3>1. ASSUME NEW p \in Proc, ConsentStep(p) PROVE proc'[q].pc # "v_access"
      <4>1. ASSUME NEW g \in Grant, ConsentLoad(p, g) PROVE proc'[q].pc # "v_access"
        BY <2>2, <4>1 DEF ConsentLoad
      <4> QED
        BY <2>2, <3>1, <4>1 DEF ConsentStep, ConsentCode, ConsentPKCE, ConsentFails, ConsentDone
    <3>2. ASSUME NEW p \in Proc, RedeemStep(p) PROVE proc'[q].pc # "v_access"
      <4>1. ASSUME NEW c \in sentCodes, RedeemStart(p, c) PROVE proc'[q].pc # "v_access"
        BY <2>2, <4>1 DEF RedeemStart
      <4>2. CASE RedeemLoad(p)
        BY <2>2, <4>2 DEF RedeemLoad
      <4> QED
        BY <2>2, <3>2, <4>1, <4>2 DEF RedeemStep, RedeemPKCE, RedeemBurn, RedeemAgain,
           RedeemInvalidate
    <3>3. ASSUME NEW p \in Proc, RefreshStep(p) PROVE proc'[q].pc # "v_access"
      <4>1. ASSUME NEW t \in held, RefreshStart(p, t) PROVE proc'[q].pc # "v_access"
        BY <2>2, <4>1 DEF RefreshStart
      <4>2. CASE RefreshLoad(p)
        BY <2>2, <4>2 DEF RefreshLoad
      <4> QED
        BY <2>2, <3>3, <4>1, <4>2 DEF RefreshStep, RotateGet, RotatePut
    <3>4. ASSUME NEW p \in Proc, NEW t \in held, RevokeLoad(p, t) PROVE proc'[q].pc # "v_access"
      BY <2>2, <3>4 DEF RevokeLoad
    <3>5. ASSUME NEW p \in Proc, MintAccess(p) \/ MintRefresh(p) \/ Reply(p) \/ Abort(p)
          PROVE  proc'[q].pc # "v_access"
      BY <2>2, <3>5 DEF MintAccess, MintRefresh, Reply, Abort
    <3>6. ASSUME Crash PROVE proc'[q].pc # "v_access"
      BY <3>6 DEF Crash
    <3> QED
      BY <1>5, <2>2, <3>1, <3>2, <3>3, <3>4, <3>5, <3>6 DEF Next, HandlerStep, RevokeStep, Tick,
         RegistrationExpires, RegistrationSwept, RevokeClient, Authorize, RevokeGrant,
         RevokeAll, Kill, SweepStart, SweepFails, Sweep, vars
  <2> QED
    BY <1>1, <1>2, <2>1, <2>2 DEF SurrenderInv
<1> QED
  BY <1>3, <1>4, <1>5

\* A client's revocation that answered success while nothing of the grant was pending leaves
\* no token of it, and none comes later: nothing reopens a closed grant.
THEOREM SurrendersAreFinal == Spec => []SurrenderedGrantsHoldNoToken
<1>1. Init => SurrenderInv
  BY DEF Init, SurrenderInv, Idle
<1>2. TypeInv /\ SurrenderInv /\ [Next]_vars => SurrenderInv'
  BY SurrenderInvStep
<1>3. TypeInv /\ SurrenderInv => SurrenderedGrantsHoldNoToken
  BY DEF TypeInv, TypeOK, SurrenderInv, SurrenderedGrantsHoldNoToken, Open
<1> QED
  BY <1>1, <1>2, <1>3, TypesHold, PTL DEF Spec

-----------------------------------------------------------------------------
(* With SQLite the sweeper deletes nothing a handler would still accept.          *)

\* A record's lifetime counts from no later than its stamp, a pass's cutoffs from no later
\* than now.  bbolt stamps a record with the RequestedAt of its request, which lies before
\* the time its lifetime counts from: there the first conjuncts fail.
StampInv ==
    /\ \A r \in codes : r.exp <= r.stamp + CodeTTL
    /\ \A r \in access : r.exp <= r.stamp + AccessTTL
    /\ \A r \in refresh : r.exp <= r.stamp + RefreshTTL
    /\ \A p \in Proc : proc[p].from <= now
    /\ sweep.at <= now

\* One handler moves: what it writes is stamped now, its session's clock started before.
LEMMA StampMove ==
  ASSUME TypeOK, StampInv, NEW p \in Proc, proc' = [proc EXCEPT ![p] = proc'[p]],
         UNCHANGED <<now, sweep>>, proc'[p].from <= now,
         \A r \in codes' : r \in codes \/ r.exp <= r.stamp + CodeTTL,
         \A r \in access' : r \in access \/ r.exp <= r.stamp + AccessTTL,
         \A r \in refresh' : r \in refresh \/ r.exp <= r.stamp + RefreshTTL
  PROVE  StampInv'
<1>1. \A q \in Proc : proc'[q] = proc[q] \/ proc'[q].from <= now
  BY DEF TypeOK
<1> QED
  BY <1>1 DEF StampInv

\* A session's expiries count from a time that has come: a load sets the clock to now.
LEMMA SessionClock ==
  ASSUME TypeInv, StampInv, NEW p \in Proc, HandlerStep(p)
  PROVE  proc'[p].from <= now
<1> DEFINE OnTime == proc'[p].from <= now
<1> USE DEF TypeInv, TypeOK, Handler, Idle, StampInv
<1>1. ASSUME NEW g \in Grant, ConsentLoad(p, g) PROVE OnTime
  BY <1>1 DEF ConsentLoad
<1>2. CASE ConsentCode(p) \/ ConsentPKCE(p) \/ ConsentFails(p) \/ ConsentDone(p)
  BY <1>2 DEF ConsentCode, ConsentPKCE, ConsentFails, ConsentDone
<1>3. ASSUME NEW c \in sentCodes, RedeemStart(p, c) PROVE OnTime
  BY <1>3 DEF RedeemStart
<1>4. CASE RedeemLoad(p) \/ RefreshLoad(p)
  <2>1. CASE RedeemLoad(p)
    BY <2>1 DEF RedeemLoad
  <2>2. CASE RefreshLoad(p)
    BY <2>2 DEF RefreshLoad
  <2> QED
    BY <1>4, <2>1, <2>2
<1>5. CASE RedeemPKCE(p) \/ RedeemBurn(p) \/ RedeemAgain(p) \/ RedeemInvalidate(p)
  BY <1>5 DEF RedeemPKCE, RedeemBurn, RedeemAgain, RedeemInvalidate
<1>6. ASSUME NEW t \in held, RefreshStart(p, t) \/ RevokeLoad(p, t) PROVE OnTime
  <2>1. proc'[p].from = 0
    <3>1. CASE RefreshStart(p, t)
      BY <3>1 DEF RefreshStart
    <3>2. CASE RevokeLoad(p, t)
      BY <3>2 DEF RevokeLoad
    <3> QED
      BY <1>6, <3>1, <3>2
  <2> QED
    BY <2>1
<1>7. CASE RotateGet(p) \/ RotatePut(p)
  BY <1>7 DEF RotateGet, RotatePut
<1>8. CASE RevokeRefresh(p) \/ RevokeAccess(p)
  <2>1. proc'[p].from \in {proc[p].from, 0}
    BY <1>8 DEF RevokeRefresh, RevokeAccess
  <2> QED
    BY <2>1
<1>9. CASE MintAccess(p) \/ MintRefresh(p) \/ Reply(p) \/ Abort(p)
  BY <1>9 DEF MintAccess, MintRefresh, Reply, Abort
<1> HIDE DEF OnTime
<1> QED
  BY HandlerStep(p), <1>1, <1>2, <1>3, <1>4, <1>5, <1>6, <1>7, <1>8, <1>9
  DEF HandlerStep, ConsentStep, RedeemStep, RefreshStep, RevokeStep, OnTime

\* No handler writes a record that outlives its stamp by more than the kind's lifetime.
LEMMA HandlersStamp ==
  ASSUME Backend = "sql", TypeInv, StampInv, NEW p \in Proc, HandlerStep(p)
  PROVE  StampInv'
<1> USE TimeAssumption DEF TypeInv, TypeOK, Handler, At, records
<1>1. CASE ConsentStep(p)
  <2> USE DEF ConsentStep, ConsentLoad, ConsentCode, ConsentPKCE, ConsentFails, ConsentDone
  <2>1. proc' = [proc EXCEPT ![p] = proc'[p]] /\ UNCHANGED <<now, sweep, access, refresh>>
    BY <1>1
  <2>2. proc'[p].from <= now
    BY SessionClock
  <2>3. \A r \in codes' : r \in codes \/ r.exp <= r.stamp + CodeTTL
    <3>1. CASE ConsentCode(p)
      BY <3>1 DEF Stamp
    <3> QED
      BY <1>1, <3>1
  <2> QED
    BY <2>1, <2>2, <2>3, StampMove
<1>2. CASE RedeemStep(p)
  <2> USE DEF RedeemStep, RedeemStart, RedeemLoad, RedeemPKCE, RedeemBurn, RedeemAgain,
              RedeemInvalidate
  <2>1. /\ proc' = [proc EXCEPT ![p] = proc'[p]] /\ UNCHANGED <<now, sweep, access, refresh>>
        /\ codes' \subseteq codes
    BY <1>2
  <2>2. proc'[p].from <= now
    BY SessionClock
  <2> QED
    BY <2>1, <2>2, StampMove
<1>3. CASE RefreshStep(p)
  <2> USE DEF RefreshStep, RefreshStart, RefreshLoad, RotateGet, RotatePut
  <2>1. proc' = [proc EXCEPT ![p] = proc'[p]] /\ UNCHANGED <<now, sweep, access, codes>>
    BY <1>3
  <2>2. proc'[p].from <= now
    BY SessionClock
  <2>3. \A r \in refresh' : r \in refresh \/ r.exp <= r.stamp + RefreshTTL
    <3> DEFINE rotate(r) == [r EXCEPT !.rotated = @ \/ r.sig = proc[p].key]
    <3>1. \A r \in refresh : rotate(r).exp = r.exp /\ rotate(r).stamp = r.stamp
      BY DEF RefreshRec
    <3>2. refresh' = refresh \/ refresh' = {rotate(r) : r \in refresh}
      BY <1>3
    <3> HIDE DEF rotate
    <3> QED
      BY <3>1, <3>2 DEF StampInv
  <2> QED
    BY <2>1, <2>2, <2>3, StampMove
<1>4. CASE RevokeStep(p)
  <2> USE DEF RevokeStep, RevokeLoad, RevokeRefresh, RevokeAccess
  <2>1. /\ proc' = [proc EXCEPT ![p] = proc'[p]] /\ UNCHANGED <<now, sweep, codes>>
        /\ access' \subseteq access /\ refresh' \subseteq refresh
    BY <1>4
  <2>2. proc'[p].from <= now
    BY SessionClock
  <2> QED
    BY <2>1, <2>2, StampMove
<1>5. CASE MintAccess(p) \/ MintRefresh(p) \/ Reply(p) \/ Abort(p)
  <2> USE DEF MintAccess, MintRefresh, Reply, Abort
  <2>1. proc' = [proc EXCEPT ![p] = proc'[p]] /\ UNCHANGED <<now, sweep, codes>>
    BY <1>5
  <2>2. proc'[p].from <= now
    BY SessionClock
  <2>3. \A r \in access' : r \in access \/ r.exp <= r.stamp + AccessTTL
    BY <1>5 DEF StampInv, Stamp
  <2>4. \A r \in refresh' : r \in refresh \/ r.exp <= r.stamp + RefreshTTL
    BY <1>5 DEF StampInv, Stamp
  <2> QED
    BY <2>1, <2>2, <2>3, <2>4, StampMove
<1> QED
  BY HandlerStep(p), <1>1, <1>2, <1>3, <1>4, <1>5 DEF HandlerStep

\* StampInv is inductive: besides the handlers only time and the sweeper's cutoffs move.
LEMMA StampInvStep == Backend = "sql" /\ TypeInv /\ StampInv /\ [Next]_vars => StampInv'
<1> SUFFICES ASSUME Backend = "sql", TypeInv, StampInv, [Next]_vars PROVE StampInv'
  OBVIOUS
<1>1. ASSUME NEW p \in Proc, HandlerStep(p) PROVE StampInv'
  BY <1>1, HandlersStamp
<1> USE DEF TypeInv, TypeOK, Handler
<1>2. ASSUME codes' \subseteq codes, access' \subseteq access, refresh' \subseteq refresh,
             now' \in Nat, now <= now', sweep'.at <= now',
             proc' = proc \/ proc' = [p \in Proc |-> Idle]
      PROVE  StampInv'
  <2>1. \A p \in Proc : proc'[p].from <= now'
    BY <1>2 DEF StampInv, Idle
  <2> QED
    BY <1>2, <2>1 DEF StampInv
<1>3. CASE ~\E p \in Proc : HandlerStep(p)
  <2>1. codes' \subseteq codes /\ access' \subseteq access /\ refresh' \subseteq refresh
    BY <1>3 DEF Next, Tick, RegistrationExpires, RegistrationSwept, RevokeClient, Authorize,
       RevokeGrant, RevokeAll, Kill, SweepStart, SweepFails, Sweep, Crash, vars, records
  <2>2. now' \in Nat /\ now <= now' /\ sweep'.at <= now'
    BY <1>3 DEF Next, Tick, RegistrationExpires, RegistrationSwept, RevokeClient, Authorize,
       RevokeGrant, RevokeAll, Kill, SweepStart, SweepFails, Sweep, Crash, vars, SweepOff, StampInv
  <2>3. proc' = proc \/ proc' = [p \in Proc |-> Idle]
    BY <1>3 DEF Next, Tick, RegistrationExpires, RegistrationSwept, RevokeClient, Authorize,
       RevokeGrant, RevokeAll, Kill, SweepStart, SweepFails, Sweep, Crash, vars
  <2> QED
    BY <1>2, <2>1, <2>2, <2>3
<1> QED
  BY <1>1, <1>3

\* A pass of the sweeper deletes no record a handler would still accept.
LEMMA SweepTakesExpired ==
  ASSUME TypeInv, StampInv, NEW kind \in SweepPC \ {"off"}, Sweep(kind)
  PROVE  /\ \A r \in codes \ codes' : Expired(r)
         /\ \A r \in access \ access' : r.exp + Skew <= now
         /\ \A r \in refresh \ refresh' : Expired(r)
<1> USE TimeAssumption DEF TypeInv, TypeOK, Sweep, Stale, TTLOf, StampInv
<1>1. \A r \in codes \ codes' : Expired(r)
  BY DEF Expired, CodeRec
<1>2. \A r \in access \ access' : r.exp + Skew <= now
  BY DEF AccessRec
<1>3. \A r \in refresh \ refresh' : Expired(r)
  BY DEF Expired, RefreshRec
<1> QED
  BY <1>1, <1>2, <1>3

\* With SQLite the sweeper reclaims storage only, for all lifetimes, every leeway and any
\* interleaving of its transactions with the handlers.
THEOREM SqlSweepIsHarmless ==
  ASSUME Backend = "sql"
  PROVE  Spec => SweepTakesOnlyExpired
<1>1. Init => StampInv
  BY DEF Init, StampInv, Idle, SweepOff
<1>2. TypeInv /\ StampInv /\ [Next]_vars => StampInv'
  BY StampInvStep
<1>3. TypeInv /\ StampInv /\ [Next]_vars =>
        [\A kind \in SweepPC \ {"off"} : Sweep(kind) =>
            /\ \A r \in codes \ codes' : Expired(r)
            /\ \A r \in access \ access' : r.exp + Skew <= now
            /\ \A r \in refresh \ refresh' : Expired(r)]_vars
  BY SweepTakesExpired
<1> QED
  BY <1>1, <1>2, <1>3, TypesHold, PTL DEF Spec, SweepTakesOnlyExpired

================================================================================
