------------------------------ MODULE KeyManager -------------------------------
(***************************************************************************)
(* The signing keys of pkg/keys: the key directory (manifest.json and one  *)
(* file per key), the key set a process holds in memory, the maintenance   *)
(* pass the sweeper runs on it, and the rotate-key command.                *)
(*                                                                         *)
(* A pass holds the manager's lock, which readers need, so nobody sees the *)
(* key set between its steps; the process can die between any two of them, *)
(* and each of them can fail.  At most one process works on the directory: *)
(* rotate-key is meant for a gateway that is stopped.                      *)
(***************************************************************************)
EXTENDS Integers

CONSTANTS
    Alg,        \* KEY_ALG
    TTL,        \* the values of ACCESS_TOKEN_TTL a process may be started with
    Skew,       \* CLOCK_SKEW
    Interval,   \* KEY_ROTATION_INTERVAL, 0 for never
    LegacyAlg,  \* the algorithm of the legacy key file, if there is one
    NoManifest,
    PowerLoss,  \* whether the machine may lose power
    MaxDelay,   \* the longest a sweep takes to get to the keys
    MaxTime, MaxKeys    \* bounds of the model

Key    == [id: 0 .. MaxKeys, alg: Alg]
Legacy == {[id |-> 0, alg |-> a] : a \in LegacyAlg}
KeySet == [active: Key, since: Nat, retiring: SUBSET [key: Key, until: Nat]]

ASSUME ConfigAssumption ==
    /\ TTL \subseteq Nat \ {0} /\ Skew \in Nat /\ Interval \in Nat /\ MaxDelay \in Nat
    /\ MaxTime \in Nat /\ MaxKeys \in Nat /\ PowerLoss \in BOOLEAN
    /\ LegacyAlg \subseteq Alg /\ \A a, b \in LegacyAlg : a = b
    /\ NoManifest \notin KeySet

VARIABLES
    now,
    manifest,   \* manifest.json
    files,      \* the keys whose file is in the directory, complete
    unsynced,   \* ... of which the disk may not know yet
    mem,        \* the key set of the running process
    proc,       \* the running process and the pass it is in
    tokens,     \* tokens the proxy still accepts
    nextKey,
    dropped     \* history: keys that left the manifest

vars == <<now, manifest, files, unsynced, mem, proc, tokens, nextKey, dropped>>

PC == {"off", "first", "due", "rotate", "write", "sweep", "remove", "free", "wait", "exit"}

\* `at` is the time the pass works with; `next` the key set about to be written and
\* `doomed` the keys it leaves out; `ready` says that NewManager has returned.
Process == [role: {"server", "cli"}, alg: Alg, ttl: TTL, pc: PC \ {"off"}, at: Nat,
            ready: BOOLEAN, forced: BOOLEAN, next: KeySet \cup {NoManifest},
            doomed: SUBSET [key: Key, until: Nat]]
Off == [pc |-> "off"]

KeysOf(ks) ==
    IF ks = NoManifest THEN {} ELSE {ks.active} \cup {r.key : r \in ks.retiring}
RetiringOf(ks) == IF ks = NoManifest THEN {} ELSE {r.key : r \in ks.retiring}

TypeOK ==
    /\ now \in Nat /\ nextKey \in Nat
    /\ manifest \in KeySet \cup {NoManifest} /\ mem \in KeySet \cup {NoManifest}
    /\ files \subseteq Key /\ unsynced \subseteq files /\ dropped \subseteq Key
    /\ proc \in Process \cup {Off}
    /\ tokens \subseteq [key: Key, exp: Nat]
    /\ manifest # NoManifest => manifest.active \notin RetiringOf(manifest) \cup dropped

-----------------------------------------------------------------------------
\* A directory without a manifest; tokens signed with the legacy key may be around.
Init ==
    /\ now = 0 /\ nextKey = 1
    /\ manifest = NoManifest /\ mem = NoManifest
    /\ files = {} /\ unsynced = {} /\ dropped = {}
    /\ proc = Off
    /\ tokens \in SUBSET {[key |-> k, exp |-> t] : k \in Legacy, t \in TTL}

\* Keys the bound MaxKeys must still allow for a process to get through its start.
KeysNeeded(role, alg) ==
    IF role = "cli" THEN 2
    ELSE IF manifest = NoManifest \/ manifest.active.alg # alg THEN 1 ELSE 0

\* NewManager: a manifest whose keys cannot all be loaded stops the process at once.
Start(role, alg, ttl) ==
    /\ proc = Off
    /\ nextKey + KeysNeeded(role, alg) <= MaxKeys
    /\ KeysOf(manifest) \subseteq files
    /\ mem' = manifest
    /\ proc' = [role |-> role, alg |-> alg, ttl |-> ttl,
                pc |-> IF manifest = NoManifest THEN "first" ELSE "due", at |-> now,
                ready |-> FALSE, forced |-> FALSE, next |-> NoManifest, doomed |-> {}]
    /\ UNCHANGED <<now, manifest, files, unsynced, tokens, nextKey, dropped>>

NewKey == [id |-> nextKey, alg |-> proc.alg]

\* SavePrivateKey: os.WriteFile, without a sync.
SaveKey(k) ==
    /\ files' = files \cup {k}
    /\ unsynced' = unsynced \cup {k}

\* initialize: the legacy key is adopted, without one a key is generated.
SaveFirstKey ==
    /\ proc.pc = "first" /\ (Legacy = {} => nextKey < MaxKeys)
    /\ \E k \in IF Legacy = {} THEN {NewKey} ELSE Legacy :
          /\ SaveKey(k)
          /\ proc' = [proc EXCEPT !.pc = "write",
                                  !.next = [active |-> k, since |-> proc.at, retiring |-> {}]]
    /\ nextKey' = IF Legacy = {} THEN nextKey + 1 ELSE nextKey
    /\ UNCHANGED <<now, manifest, mem, tokens, dropped>>

\* Faulty variant of RotationDue: a changed KEY_ALG waits for the interval.
RotationDueByAge ==
    /\ nextKey < MaxKeys
    /\ proc.role = "server" /\ Interval > 0 /\ mem.since + Interval <= proc.at

\* Maintain's condition; rotate-key leaves the interval at 0.  No key left in the
\* bound: not due.
RotationDue ==
    /\ nextKey < MaxKeys
    /\ \/ proc.role = "server" /\ Interval > 0 /\ mem.since + Interval <= proc.at
       \/ mem.active.alg # proc.alg

\* A pass is over: NewManager returns.  The gateway starts serving; rotate-key goes on
\* to the rotation it was called for, with a fresh look at the clock.
PassDone ==
    IF proc.role = "server"
    THEN [proc EXCEPT !.pc = "free", !.ready = TRUE, !.doomed = {}, !.next = NoManifest]
    ELSE [proc EXCEPT !.pc = "rotate", !.ready = TRUE, !.doomed = {}, !.next = NoManifest,
                      !.forced = TRUE, !.at = now]

\* Faulty variant of BeginMaintain: a pass that need not rotate does not sweep either.
BeginMaintainOnlyRotates ==
    /\ proc.pc \in {"due", "wait"}
    /\ proc' = IF RotationDue THEN [proc EXCEPT !.pc = "rotate"] ELSE PassDone
    /\ UNCHANGED <<now, manifest, files, unsynced, mem, tokens, nextKey, dropped>>

\* Maintain takes the lock.
BeginMaintain ==
    /\ proc.pc \in {"due", "wait"}
    /\ proc' = [proc EXCEPT !.pc = IF RotationDue THEN "rotate" ELSE "sweep"]
    /\ UNCHANGED <<now, manifest, files, unsynced, mem, tokens, nextKey, dropped>>

\* Faulty variant of RetireWindow: no margin for the clock skew.
RetireWindowBare == proc.ttl

RetireWindow == proc.ttl + 2 * Skew

\* Faulty variant of Rotated: the new key is put among the retiring ones.
RotatedRetiresNew(k) ==
    [active |-> k, since |-> proc.at,
     retiring |-> mem.retiring \cup {[key |-> k, until |-> proc.at + RetireWindow]}]

\* Faulty variant of Rotated: the list of retiring keys is started afresh.
RotatedForgetsOlder(k) ==
    [active |-> k, since |-> proc.at,
     retiring |-> {[key |-> mem.active, until |-> proc.at + RetireWindow]}]

Rotated(k) ==
    [active |-> k, since |-> proc.at,
     retiring |-> mem.retiring \cup {[key |-> mem.active, until |-> proc.at + RetireWindow]}]

\* rotateLocked, up to the manifest.
SaveNewKey ==
    /\ proc.pc = "rotate" /\ nextKey < MaxKeys
    /\ SaveKey(NewKey)
    /\ nextKey' = nextKey + 1
    /\ proc' = [proc EXCEPT !.pc = "write", !.next = Rotated(NewKey)]
    /\ UNCHANGED <<now, manifest, mem, tokens, dropped>>

\* writeManifest succeeds: temporary file, fsync, rename.
WriteManifest ==
    /\ proc.pc = "write"
    /\ manifest' = proc.next /\ mem' = proc.next
    /\ dropped' = dropped \cup (KeysOf(manifest) \ KeysOf(proc.next))
    /\ proc' = [proc EXCEPT !.pc = IF manifest = NoManifest THEN "due"
                                   ELSE IF proc.forced THEN "exit"
                                   ELSE IF proc.doomed # {} THEN "remove" ELSE "sweep"]
    /\ UNCHANGED <<now, files, unsynced, tokens, nextKey>>

\* A process that could not start again only for want of keys in the bound.
Stranded == manifest = NoManifest /\ nextKey >= MaxKeys

\* Faulty variant of PassFails: the key set in memory is not rolled back.
PassFailsKeepingMemory ==
    /\ proc.pc \in {"first", "rotate", "write"} /\ ~Stranded
    /\ IF proc.ready /\ proc.role = "server"
       THEN /\ mem' = IF proc.pc = "write" THEN proc.next ELSE mem
            /\ proc' = [proc EXCEPT !.pc = "free", !.doomed = {}, !.next = NoManifest]
       ELSE proc' = Off /\ mem' = NoManifest
    /\ UNCHANGED <<now, manifest, files, unsynced, tokens, nextKey, dropped>>

\* A key or the manifest cannot be written.  A running gateway logs it and keeps the key
\* set it had (rotateLocked and sweepLocked roll back); a starting process gives up.
PassFails ==
    /\ proc.pc \in {"first", "rotate", "write"} /\ ~Stranded
    /\ IF proc.ready /\ proc.role = "server"
       THEN /\ proc' = [proc EXCEPT !.pc = "free", !.doomed = {}, !.next = NoManifest]
            /\ UNCHANGED mem
       ELSE proc' = Off /\ mem' = NoManifest
    /\ UNCHANGED <<now, manifest, files, unsynced, tokens, nextKey, dropped>>

Doomed == {r \in mem.retiring : r.until <= proc.at}

\* Faulty variant of Sweep: the files go before the manifest is rewritten.
SweepFilesFirst ==
    /\ proc.pc = "sweep"
    /\ files' = files \ {r.key : r \in Doomed}
    /\ unsynced' = unsynced \cap files'
    /\ proc' = IF Doomed = {} THEN PassDone
               ELSE [proc EXCEPT !.pc = "write", !.doomed = Doomed,
                                 !.next = [mem EXCEPT !.retiring = @ \ Doomed]]
    /\ UNCHANGED <<now, manifest, mem, tokens, nextKey, dropped>>

\* sweepLocked: keys past their time leave the manifest ...
Sweep ==
    /\ proc.pc = "sweep"
    /\ proc' = IF Doomed = {} THEN PassDone
               ELSE [proc EXCEPT !.pc = "write", !.doomed = Doomed,
                                 !.next = [mem EXCEPT !.retiring = @ \ Doomed]]
    /\ UNCHANGED <<now, manifest, files, unsynced, mem, tokens, nextKey, dropped>>

\* ... and then their files are deleted; a failure is only logged.
RemoveFile ==
    /\ proc.pc = "remove"
    /\ \E r \in proc.doomed :
          /\ files' \in {files, files \ {r.key}}
          /\ proc' = IF proc.doomed = {r} THEN PassDone
                                          ELSE [proc EXCEPT !.doomed = @ \ {r}]
    /\ unsynced' = unsynced \cap files'
    /\ UNCHANGED <<now, manifest, mem, tokens, nextKey, dropped>>

\* rotate-key reports and ends.
Exit ==
    /\ proc.pc = "exit"
    /\ proc' = Off /\ mem' = NoManifest
    /\ UNCHANGED <<now, manifest, files, unsynced, tokens, nextKey, dropped>>

\* The sweeper's ticker: the time is taken, but sessions and clients are swept first.
TickerFires ==
    /\ proc.pc = "free"
    /\ proc' = [proc EXCEPT !.pc = "wait", !.at = now]
    /\ UNCHANGED <<now, manifest, files, unsynced, mem, tokens, nextKey, dropped>>

\* FositeSigner.Generate.  The expiry was set before Active() read the key, and a token
\* counts from that read on, so a rotation may come before it is signed and delivered.
Sign ==
    /\ proc.pc \in {"free", "wait"}
    /\ tokens' = tokens \cup {[key |-> mem.active, exp |-> now + proc.ttl]}
    /\ UNCHANGED <<now, manifest, files, unsynced, mem, proc, nextKey, dropped>>

\* Time passes; the proxy accepts a token until its expiry and the leeway are over.
Tick ==
    /\ now < MaxTime
    /\ proc.pc = "wait" => now < proc.at + MaxDelay
    /\ now' = now + 1
    /\ tokens' = {t \in tokens : now' < t.exp + Skew}
    /\ UNCHANGED <<manifest, files, unsynced, mem, proc, nextKey, dropped>>

\* The process dies or is stopped.
Crash ==
    /\ proc # Off /\ ~Stranded
    /\ proc' = Off /\ mem' = NoManifest
    /\ UNCHANGED <<now, manifest, files, unsynced, tokens, nextKey, dropped>>

\* The operating system writes its buffers out.
FlushFiles ==
    /\ PowerLoss /\ unsynced # {}
    /\ unsynced' = {}
    /\ UNCHANGED <<now, manifest, files, mem, proc, tokens, nextKey, dropped>>

\* Files the disk does not know of yet are lost.
LosePower ==
    /\ PowerLoss /\ ~Stranded
    /\ \E lost \in SUBSET unsynced : files' = files \ lost
    /\ unsynced' = {}
    /\ proc' = Off /\ mem' = NoManifest
    /\ UNCHANGED <<now, manifest, tokens, nextKey, dropped>>

-----------------------------------------------------------------------------
StartServer == \E alg \in Alg, ttl \in TTL : Start("server", alg, ttl)

PassStep ==
    \/ SaveFirstKey \/ BeginMaintain \/ SaveNewKey \/ WriteManifest
    \/ Sweep \/ RemoveFile \/ Exit

Next ==
    \/ StartServer
    \/ \E alg \in Alg, ttl \in TTL : Start("cli", alg, ttl)
    \/ PassStep \/ PassFails
    \/ TickerFires \/ Sign \/ Tick
    \/ Crash \/ FlushFiles \/ LosePower

Spec == Init /\ [][Next]_vars

\* The gateway is restarted when it is down, its ticker fires, and neither the disk nor
\* the process fails at the same step for ever.
FairSpec ==
    /\ Spec
    /\ WF_vars(Tick) /\ SF_vars(StartServer) /\ SF_vars(TickerFires)
    /\ SF_vars(SaveFirstKey) /\ SF_vars(BeginMaintain) /\ SF_vars(SaveNewKey)
    /\ SF_vars(WriteManifest) /\ SF_vars(Sweep) /\ SF_vars(RemoveFile) /\ SF_vars(Exit)

-----------------------------------------------------------------------------
(* Properties. *)

\* The manifest never names a key whose file is missing, so a restart never fails fast
\* for a state the gateway itself produced (rotateLocked: "write order is crash-safe";
\* sweepLocked: "never a manifest referencing a missing key").
ManifestComplete == KeysOf(manifest) \subseteq files

\* Whatever rotates and restarts, a token the proxy would accept by its expiry is signed
\* by a key the running gateway knows (the retire window is measured from the stale time
\* of a sweep).
OutstandingTokensVerify ==
    proc.pc \in {"free", "wait"} => \A t \in tokens : t.key \in KeysOf(mem)

\* A serving gateway signs with the configured algorithm, also after a change of KEY_ALG,
\* an adopted legacy key or a start that failed half way.
ConfiguredAlgSigns == proc.pc \in {"free", "wait"} => mem.active.alg = proc.alg

\* What a process serves is what it would load again after a crash at this moment, also
\* when a write failed.
MemoryMatchesDisk == proc.pc # "off" => mem = manifest

\* The directory, as the processes leave it, keeps the promise of KeyRing.
Ring == INSTANCE KeyRing WITH
    active      <- KeysOf(manifest) \ RetiringOf(manifest),
    retiring    <- RetiringOf(manifest),
    outstanding <- {t.key : t \in tokens}
ImplementsKeyRing == Ring!Spec

\* Every retired key leaves the manifest in the end, whatever fails or crashes on the
\* way (Maintain returns before the sweep when a rotation fails).
RetiredKeysLeave ==
    []<>(manifest = NoManifest \/ \A r \in manifest.retiring : now < r.until)

=============================================================================
