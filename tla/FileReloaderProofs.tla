---------------------------- MODULE FileReloaderProofs ---------------------------
(***************************************************************************)
(* What holds of FileReloader for any number of renewals.                  *)
(***************************************************************************)
EXTENDS FileReloader, TLAPS

\* Stamps only grow, so none that was taken is ahead of its file.
StampsGrow == \A f \in File :
    file[f].stamp <= clock /\ hs.stamps[f] <= file[f].stamp /\ state[f] <= file[f].stamp

\* A stamp that still matches is that of the part that was read after it, unless the
\* file has since been removed.
Fresh(stamp, part, f) == stamp = file[f].stamp => file[f].part \in {Absent, part}
ReadsFresh ==
    /\ hs.pc \in {"key", "store"} => Fresh(hs.stamps["cert"], hs.cert, "cert")
    /\ hs.pc = "store" => Fresh(hs.stamps["key"], hs.key, "key")
ServedFresh == Fresh(state["cert"], served.cert, "cert") /\ Fresh(state["key"], served.key, "key")

ReloaderInv ==
    /\ TypeOK /\ StampsGrow /\ served.key = served.cert
    /\ ~coarse => ReadsFresh /\ ServedFresh

-----------------------------------------------------------------------------
LEMMA ReloaderInvInit == Init => ReloaderInv
<1> SUFFICES ASSUME Init PROVE ReloaderInv
  OBVIOUS
<1>0. 1 \in 1 .. MaxPair /\ 1 \in 1 .. MaxClock /\ MaxPair \in Nat /\ MaxClock \in Nat
  BY ReloaderAssumption DEF ReloaderAssumption
<1>1. HsIdle.stamps = NoStamps /\ NoStamps \in Stamps /\ HsIdle.pc = "idle"
      /\ HsIdle.cert = Absent /\ HsIdle.key = Absent /\ Absent \in Part
  BY <1>0 DEF HsIdle, NoStamps, Stamps, Part, Absent
<1>2. HsIdle \in [pc : {"idle", "stat", "load", "key", "store"},
                  stamps : Stamps, cert : Part, key : Part]
  BY <1>1 DEF HsIdle
<1>3. TypeOK
  <2>1. state \in Stamps /\ hs = HsIdle
    BY <1>0 DEF Init, Stamps
  <2>2. [part |-> 1, stamp |-> 1] \in [part : Part, stamp : 0 .. MaxClock] /\ 1 \in Part \ {Absent}
    BY <1>0 DEF Part, Absent
  <2>3. file \in [File -> [part : Part, stamp : 0 .. MaxClock]]
    BY <2>2 DEF Init
  <2>4. served \in [cert : Part \ {Absent}, key : Part \ {Absent}]
    BY <2>2 DEF Init
  <2>5. hs.pc = "idle"
    BY <1>1, <2>1
  <2> QED
    BY <1>0, <1>2, <2>1, <2>3, <2>4, <2>5 DEF Init, TypeOK
<1>4. StampsGrow /\ served.key = served.cert /\ ReadsFresh /\ ServedFresh
  BY <1>1 DEF Init, StampsGrow, ReadsFresh, ServedFresh, Fresh, NoStamps, File
<1> QED
  BY <1>3, <1>4 DEF ReloaderInv

\* What the nested updates write.
LEMMA RemoveFile ==
  ASSUME TypeOK, NEW f \in File, Remove(f)
  PROVE  file' = [file EXCEPT ![f] = [part |-> Absent, stamp |-> file[f].stamp]]
<1>1. file[f] = [part |-> file[f].part, stamp |-> file[f].stamp]
  BY DEF TypeOK
<1>2. [file[f] EXCEPT !.part = Absent] = [part |-> Absent, stamp |-> file[f].stamp]
  BY <1>1
<1>3. file' = [file EXCEPT ![f] = [file[f] EXCEPT !.part = Absent]]
  BY DEF Remove
<1> QED
  BY <1>2, <1>3

LEMMA StatCertStamps ==
  ASSUME TypeOK, StatCert
  PROVE  hs' = [hs EXCEPT !.pc = "stat",
                          !.stamps = [hs.stamps EXCEPT !["cert"] = file["cert"].stamp]]
  BY DEF StatCert, TypeOK

\* Types, the stamps' order and the match of certificate and key survive every step.
LEMMA TypeOKNext == TypeOK /\ [Next]_vars => TypeOK'
<1> SUFFICES ASSUME TypeOK, [Next]_vars PROVE TypeOK'
  OBVIOUS
<1>0. MaxPair \in Nat \ {0} /\ MaxClock \in Nat \ {0}
  BY ReloaderAssumption DEF ReloaderAssumption
<1>a. HsIdle.pc = "idle"
      /\ HsIdle \in [pc : {"idle", "stat", "load", "key", "store"},
                     stamps : Stamps, cert : Part, key : Part]
  BY <1>0 DEF HsIdle, NoStamps, Stamps, Part, Absent
<1>1. CASE Renew \/ Clock
  BY <1>0, <1>1 DEF Renew, Clock, TypeOK, Part
<1>2. ASSUME NEW f \in File, Replace(f) \/ Remove(f) PROVE TypeOK'
  <2>1. PICK to \in [part : Part, stamp : 0 .. MaxClock] : file' = [file EXCEPT ![f] = to]
    <3>1. CASE Replace(f)
      <4>1. [part |-> pair, stamp |-> clock] \in [part : Part, stamp : 0 .. MaxClock]
        BY <1>0 DEF TypeOK, Part
      <4> QED
        BY <3>1, <4>1 DEF Replace
    <3>2. CASE Remove(f)
      BY <1>0, <3>2, RemoveFile DEF TypeOK, Part, Absent
    <3> QED
      BY <1>2, <3>1, <3>2
  <2> QED
    BY <1>2, <2>1 DEF Replace, Remove, TypeOK
<1>3. CASE StatCert
  <2>1. hs' = [hs EXCEPT !.pc = "stat", !.stamps = [hs.stamps EXCEPT !["cert"] = file["cert"].stamp]]
    BY <1>3, StatCertStamps DEF TypeOK
  <2>2. [hs.stamps EXCEPT !["cert"] = file["cert"].stamp] \in Stamps
    BY <1>0 DEF TypeOK, Stamps, File
  <2> QED
    BY <1>3, <2>1, <2>2 DEF StatCert, TypeOK
<1>4. CASE StatKey
  <2>1. [hs.stamps EXCEPT !["key"] = file["key"].stamp] \in Stamps
    BY <1>0 DEF TypeOK, Stamps, File
  <2>2. hs' = HsIdle \/ hs' = [hs EXCEPT !.pc = "load",
                                       !.stamps = [hs.stamps EXCEPT !["key"] = file["key"].stamp]]
    BY <1>4 DEF StatKey, Gives
  <2> QED
    BY <1>4, <1>a, <2>1, <2>2 DEF StatKey, TypeOK
<1>5. CASE LoadCert
  BY <1>0, <1>5, <1>a DEF LoadCert, Gives, TypeOK, File
<1>6. CASE LoadKey
  BY <1>0, <1>6, <1>a DEF LoadKey, Gives, TypeOK, File
<1>7. CASE Store
  BY <1>0, <1>7, <1>a DEF Store, Gives, Matches, Remembered, TypeOK
<1>8. CASE UNCHANGED vars
  BY <1>8 DEF vars, TypeOK
<1> QED
  BY <1>1, <1>2, <1>3, <1>4, <1>5, <1>6, <1>7, <1>8 DEF Next

\* A replaced file has a stamp nobody holds, if the clock has ticked since the last one.
LEMMA ReplaceKeeps == ASSUME ReloaderInv, NEW f \in File, Replace(f), TypeOK' PROVE ReloaderInv'
<1>1. /\ file' = [file EXCEPT ![f] = [part |-> pair, stamp |-> clock]]
      /\ coarse' = (coarse \/ file[f].stamp = clock)
      /\ UNCHANGED <<clock, pair, hs, served, state>>
  BY DEF Replace
<1>2. /\ clock \in Nat /\ \A g \in File : file[g].stamp \in Nat /\ hs.stamps[g] \in Nat /\ state[g] \in Nat
      /\ file'[f].stamp = clock /\ \A g \in File \ {f} : file'[g] = file[g]
  BY <1>1, ReloaderAssumption DEF ReloaderInv, TypeOK, Stamps, ReloaderAssumption
<1>3. StampsGrow'
  BY <1>1, <1>2 DEF ReloaderInv, StampsGrow
<1>4. ASSUME ~coarse' PROVE hs.stamps[f] # file'[f].stamp /\ state[f] # file'[f].stamp
  <2>1. file[f].stamp # clock /\ file[f].stamp <= clock /\ hs.stamps[f] <= file[f].stamp
        /\ state[f] <= file[f].stamp
    BY <1>1, <1>4 DEF ReloaderInv, StampsGrow
  <2> QED
    BY <1>2, <2>1
<1>5. ~coarse' => ReadsFresh' /\ ServedFresh'
  <2> SUFFICES ASSUME ~coarse' PROVE ReadsFresh' /\ ServedFresh'
    OBVIOUS
  <2>1. ~coarse /\ {"cert", "key"} = File
    BY <1>1 DEF File
  <2> QED
    BY <1>1, <1>2, <1>4, <2>1 DEF ReloaderInv, ReadsFresh, ServedFresh, Fresh
<1> QED
  BY <1>1, <1>3, <1>5 DEF ReloaderInv

LEMMA ReloaderInvNext == ReloaderInv /\ [Next]_vars => ReloaderInv'
<1> SUFFICES ASSUME ReloaderInv, [Next]_vars PROVE ReloaderInv'
  OBVIOUS
<1>0. TypeOK' /\ clock \in Nat /\ MaxPair \in Nat
      /\ \A f \in File : file[f].stamp \in Nat /\ hs.stamps[f] \in Nat /\ state[f] \in Nat
  BY TypeOKNext, ReloaderAssumption DEF ReloaderInv, TypeOK, Stamps, ReloaderAssumption
<1>a. \A f \in File : HsIdle.stamps[f] <= file[f].stamp
  BY <1>0 DEF HsIdle, NoStamps
<1>b. HsIdle.pc = "idle"
  BY DEF HsIdle
<1>1. CASE Renew \/ Clock
  BY <1>0, <1>1
  DEF Renew, Clock, ReloaderInv, StampsGrow, ReadsFresh, ServedFresh, Fresh
<1>2. ASSUME NEW f \in File, Replace(f) PROVE ReloaderInv'
  BY <1>0, <1>2, ReplaceKeeps
<1>3. ASSUME NEW f \in File, Remove(f) PROVE ReloaderInv'
  <2>1. /\ \A g \in File : file'[g].stamp = file[g].stamp /\ file'[g].part \in {Absent, file[g].part}
        /\ UNCHANGED <<clock, pair, hs, served, state, coarse>>
    BY <1>3 DEF Remove, ReloaderInv, TypeOK
  <2> QED
    BY <1>0, <2>1 DEF ReloaderInv, StampsGrow, ReadsFresh, ServedFresh, Fresh, File
<1>4. CASE StatCert
  <2>1. /\ hs'.pc = "stat" /\ \A f \in File : hs'.stamps[f] \in {hs.stamps[f], file[f].stamp}
        /\ UNCHANGED <<clock, pair, file, served, state, coarse>>
    BY <1>4 DEF StatCert, ReloaderInv, TypeOK, Stamps, File
  <2> QED
    BY <1>0, <2>1 DEF ReloaderInv, StampsGrow, ReadsFresh, ServedFresh, Fresh
<1>5. CASE StatKey
  <2>0. \/ hs' = HsIdle
        \/ hs'.pc = "load" /\ hs'.stamps = [hs.stamps EXCEPT !["key"] = file["key"].stamp]
    BY <1>5 DEF StatKey, Gives, ReloaderInv, TypeOK
  <2>1. /\ hs'.pc \in {"idle", "load"}
        /\ \A f \in File : hs'.stamps[f] \in {0, hs.stamps[f], file[f].stamp}
        /\ UNCHANGED <<clock, pair, file, served, state, coarse>>
    BY <1>5, <1>b, <2>0 DEF StatKey, HsIdle, NoStamps, ReloaderInv, TypeOK, Stamps
  <2> QED
    BY <1>0, <2>1 DEF ReloaderInv, StampsGrow, ReadsFresh, ServedFresh, Fresh
<1>6. CASE LoadCert
  <2>1. UNCHANGED <<clock, pair, file, served, state, coarse>>
    BY <1>6 DEF LoadCert
  <2>2. \/ hs' = HsIdle
        \/ hs'.pc = "key" /\ hs'.cert = file["cert"].part /\ hs'.stamps = hs.stamps
    BY <1>6 DEF LoadCert, Gives, ReloaderInv, TypeOK
  <2> QED
    BY <1>0, <1>a, <1>b, <2>1, <2>2 DEF ReloaderInv, StampsGrow, ReadsFresh, ServedFresh, Fresh
<1>7. CASE LoadKey
  <2>1. UNCHANGED <<clock, pair, file, served, state, coarse>> /\ hs.pc = "key"
    BY <1>7 DEF LoadKey
  <2>2. \/ hs' = HsIdle
        \/ /\ hs'.pc = "store" /\ hs'.key = file["key"].part
           /\ hs'.stamps = hs.stamps /\ hs'.cert = hs.cert
    BY <1>7 DEF LoadKey, Gives, ReloaderInv, TypeOK
  <2> QED
    BY <1>0, <1>a, <1>b, <2>1, <2>2 DEF ReloaderInv, StampsGrow, ReadsFresh, ServedFresh, Fresh
<1>8. CASE Store
  <2>1. hs' = HsIdle /\ hs.pc = "store" /\ UNCHANGED <<clock, pair, file, coarse>>
    BY <1>8 DEF Store, Gives
  <2>2. \/ UNCHANGED <<served, state>>
        \/ /\ served' = [cert |-> hs.cert, key |-> hs.key] /\ hs.key = hs.cert
           /\ state' = hs.stamps
    BY <1>8 DEF Store, Matches, Remembered
  <2> QED
    BY <1>0, <1>a, <1>b, <2>1, <2>2 DEF ReloaderInv, StampsGrow, ReadsFresh, ServedFresh, Fresh, File
<1>9. CASE UNCHANGED vars
  BY <1>0, <1>9 DEF vars, ReloaderInv, StampsGrow, ReadsFresh, ServedFresh, Fresh
<1> QED
  BY <1>1, <1>2, <1>3, <1>4, <1>5, <1>6, <1>7, <1>8, <1>9 DEF Next

LEMMA ReloaderInvHolds == FairSpec => []ReloaderInv
<1> QED
  BY ReloaderInvInit, ReloaderInvNext, PTL DEF FairSpec

-----------------------------------------------------------------------------
\* Every variable keeps its type; in memory there is always a whole pair, and a reload that
\* has read its certificate has one.
THEOREM ReloaderTypeCorrect == FairSpec => []TypeOK
<1>1. ReloaderInv => TypeOK
  BY DEF ReloaderInv
<1> QED
  BY <1>1, ReloaderInvHolds, PTL

\* GetCertificate serves a certificate with its own key, and a change that happens between
\* the stats and the reads of maybeReload is noticed later, because the stamps it remembers
\* are those taken first.
THEOREM UnchangedFilesServed == FairSpec => []UnchangedFilesAreServed
<1>1. ReloaderInv => UnchangedFilesAreServed
  <2> SUFFICES ASSUME ReloaderInv, AtRest, state = [f \in File |-> file[f].stamp], ~coarse
               PROVE  served.cert = pair
    BY DEF ReloaderInv, UnchangedFilesAreServed
  <2>1. file["cert"].part = pair /\ state["cert"] = file["cert"].stamp /\ pair # Absent
    BY DEF AtRest, File, ReloaderInv, TypeOK, Absent
  <2> QED
    BY <2>1 DEF ReloaderInv, ServedFresh, Fresh
<1> QED
  BY <1>1, ReloaderInvHolds, PTL
================================================================================
