------------------------------ MODULE FileReloader -----------------------------
(***************************************************************************)
(* The TLS certificate of the HTTPS listener, reloaded when its files      *)
(* change.  A handshake stats and reads the two files one by one, under a  *)
(* mutex, while a renewal replaces them one by one.                        *)
(*                                                                         *)
(* A file is [part, stamp]: the number of the pair it belongs to, Absent   *)
(* for none, and its modification time and size.  Two writes in the same   *)
(* tick of the file system's clock leave the same stamp.                   *)
(***************************************************************************)
EXTENDS Naturals

CONSTANTS MaxPair, MaxClock     \* bounds of the model

ASSUME ReloaderAssumption == MaxPair \in Nat \ {0} /\ MaxClock \in Nat \ {0}

VARIABLES
    clock,      \* of the file system
    pair,       \* the pair being installed, or the last installed
    file,       \* "cert", "key" |-> [part, stamp]
    hs,         \* the handshake that holds the mutex
    served,     \* the certificate in memory: [cert, key], the parts it was made of
    state,      \* the stamps remembered: "cert", "key" |-> stamp
    coarse      \* history: a file was replaced without its stamp changing

vars == <<clock, pair, file, hs, served, state, coarse>>

File == {"cert", "key"}
Absent == 0
Part == 0 .. MaxPair
Stamps == [File -> 0 .. MaxClock]
NoStamps == [f \in File |-> 0]
HsIdle == [pc |-> "idle", stamps |-> NoStamps, cert |-> Absent, key |-> Absent]

TypeOK ==
    /\ clock \in 1 .. MaxClock /\ pair \in 1 .. MaxPair
    /\ file \in [File -> [part : Part, stamp : 0 .. MaxClock]]
    /\ hs \in [pc : {"idle", "stat", "load", "key", "store"},
               stamps : Stamps, cert : Part, key : Part]
    /\ hs.pc \in {"key", "store"} => hs.cert # Absent
    /\ served \in [cert : Part \ {Absent}, key : Part \ {Absent}]
    /\ state \in Stamps
    /\ coarse \in BOOLEAN

\* NewFileReloader has loaded the pair it found.
Init ==
    /\ clock = 1 /\ pair = 1
    /\ file = [f \in File |-> [part |-> 1, stamp |-> 1]]
    /\ hs = HsIdle
    /\ served = [cert |-> 1, key |-> 1]
    /\ state = [f \in File |-> 1]
    /\ coarse = FALSE

AtRest == \A f \in File : file[f].part = pair

-----------------------------------------------------------------------------
(* The renewal, by a program beside the gateway.                           *)

Renew ==
    /\ AtRest /\ pair < MaxPair
    /\ pair' = pair + 1
    /\ UNCHANGED <<clock, file, hs, served, state, coarse>>

Replace(f) ==
    /\ file[f].part < pair
    /\ file' = [file EXCEPT ![f] = [part |-> pair, stamp |-> clock]]
    /\ coarse' = (coarse \/ file[f].stamp = clock)
    /\ UNCHANGED <<clock, pair, hs, served, state>>

\* Some programs remove the old file first.
Remove(f) ==
    /\ file[f].part \notin {Absent, pair}
    /\ file' = [file EXCEPT ![f].part = Absent]
    /\ UNCHANGED <<clock, pair, hs, served, state, coarse>>

Clock ==
    /\ clock < MaxClock /\ clock' = clock + 1
    /\ UNCHANGED <<pair, file, hs, served, state, coarse>>

-----------------------------------------------------------------------------
(* GetCertificate: maybeReload, and whatever it says, the pair in memory.  *)

Gives == hs' = HsIdle

StatCert ==
    /\ hs.pc = "idle" /\ file["cert"].part # Absent
    /\ hs' = [hs EXCEPT !.pc = "stat", !.stamps["cert"] = file["cert"].stamp]
    /\ UNCHANGED <<clock, pair, file, served, state, coarse>>

Unchanged(stamps) == stamps = state

\* A missing file ends the reload; so does a pair that looks unchanged.
StatKey ==
    LET stamps == [hs.stamps EXCEPT !["key"] = file["key"].stamp] IN
    /\ hs.pc = "stat"
    /\ IF file["key"].part = Absent \/ Unchanged(stamps) THEN Gives
       ELSE hs' = [hs EXCEPT !.pc = "load", !.stamps = stamps]
    /\ UNCHANGED <<clock, pair, file, served, state, coarse>>

\* tls.LoadX509KeyPair reads the certificate ...
LoadCert ==
    /\ hs.pc = "load"
    /\ IF file["cert"].part = Absent THEN Gives
       ELSE hs' = [hs EXCEPT !.pc = "key", !.cert = file["cert"].part]
    /\ UNCHANGED <<clock, pair, file, served, state, coarse>>

\* ... and the key.
LoadKey ==
    /\ hs.pc = "key"
    /\ IF file["key"].part = Absent THEN Gives
       ELSE hs' = [hs EXCEPT !.pc = "store", !.key = file["key"].part]
    /\ UNCHANGED <<clock, pair, file, served, state, coarse>>

\* Faulty variant of Matches: the key is not compared with the certificate.
MatchesAnything == TRUE

Matches == hs.key = hs.cert

\* Faulty variant of Remembered: the stamps are taken after the load.
RememberedLate == [f \in File |-> file[f].stamp]

\* The stamps taken before the load are the ones remembered.
Remembered == hs.stamps

Store ==
    /\ hs.pc = "store"
    /\ IF Matches
       THEN served' = [cert |-> hs.cert, key |-> hs.key] /\ state' = Remembered
       ELSE UNCHANGED <<served, state>>
    /\ Gives
    /\ UNCHANGED <<clock, pair, file, coarse>>

Next ==
    \/ Renew \/ Clock \/ \E f \in File : Replace(f) \/ Remove(f)
    \/ StatCert \/ StatKey \/ LoadCert \/ LoadKey \/ Store

\* A handshake comes again and again, and a renewal that has begun is finished.
Fairness ==
    /\ WF_vars(StatCert) /\ WF_vars(StatKey)
    /\ WF_vars(LoadCert) /\ WF_vars(LoadKey) /\ WF_vars(Store)
    /\ \A f \in File : WF_vars(Replace(f))

FairSpec == Init /\ [][Next]_vars /\ Fairness

-----------------------------------------------------------------------------
(* Properties.                                                             *)

\* A certificate is served with its own key, halfway through a renewal, too; and when the
\* files look unchanged, they are: whatever was replaced between the stats and the reads is
\* noticed by the next handshake, save for two writes that leave the same stamp.
UnchangedFilesAreServed ==
    /\ served.key = served.cert
    /\ AtRest /\ state = [f \in File |-> file[f].stamp] => coarse \/ served.cert = pair

\* A renewed certificate comes into use, with no restart.
RenewedPairIsServed == []<>(coarse \/ ~AtRest \/ served.cert = pair)
================================================================================
