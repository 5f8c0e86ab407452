---------------------------- MODULE KeyManagerProofs ---------------------------
(***************************************************************************)
(* What holds of KeyManager for every choice of its constants: the key set *)
(* is well formed, memory and disk agree, a serving gateway signs with the *)
(* configured algorithm, and the manifest is complete as long as the power *)
(* stays on.  KeyManager keeps the promise of KeyRing, and accepted tokens *)
(* verify, as long as ACCESS_TOKEN_TTL stays as it is and no sweep is late *)
(* by more than the clock skew.                                            *)
(***************************************************************************)
EXTENDS KeyManager, TLAPS

\* A retiring key is listed once.
ListedOnce(ks) == \A r, s \in ks.retiring : r.key = s.key => r = s

\* The process holds what the manifest says, and there is one except before the first
\* write.
Loaded ==
    /\ mem = IF proc.pc = "off" THEN NoManifest ELSE manifest
    /\ proc.pc = "first" => manifest = NoManifest
    /\ proc.pc \notin {"off", "first", "write"} => manifest # NoManifest
    /\ manifest = NoManifest => dropped = {}
    /\ proc.pc # "off" /\ manifest = NoManifest => ~proc.ready

\* Keys that were ever in the manifest are older than the next one to be generated.
Minted ==
    /\ nextKey > 0
    /\ \A k \in KeysOf(manifest) \cup dropped : k.id < nextKey
    /\ manifest # NoManifest => ListedOnce(manifest)

\* A key set that is about to be written is as good as the one in the manifest, and
\* brings at most one key, which is new.
NextGood ==
    proc.pc = "write" =>
        /\ proc.next \in KeySet
        /\ ListedOnce(proc.next)
        /\ proc.next.active \notin RetiringOf(proc.next) \cup dropped
        /\ proc.next.active.id < nextKey
        /\ KeysOf(proc.next) \subseteq KeysOf(manifest) \cup {proc.next.active}
        /\ proc.next.active \in KeysOf(manifest) => proc.next.active = manifest.active
        /\ \A r \in proc.doomed : r.key \notin KeysOf(proc.next)
        /\ manifest = NoManifest => proc.doomed = {}

\* Files about to be deleted are those of keys the manifest no longer names.
DoomedGone ==
    /\ proc.pc = "remove" => \A r \in proc.doomed : r.key \notin KeysOf(manifest)
    /\ proc.pc \notin {"off", "write", "remove", "exit"} => proc.doomed = {}

KeyInv == TypeOK /\ Loaded /\ Minted /\ NextGood /\ DoomedGone

-----------------------------------------------------------------------------
\* Before the first start there are only tokens of the legacy key.
LEMMA KeyInvInit == Init => KeyInv
  BY ConfigAssumption DEF Init, KeyInv, TypeOK, Loaded, Minted, NextGood, DoomedGone, Off,
     KeysOf, Legacy, Key

\* The process record keeps its type whatever phase it goes to.
LEMMA PassDoneTyped ==
  ASSUME TypeOK, proc.pc # "off"
  PROVE  /\ PassDone \in Process
         /\ PassDone.pc \in {"free", "rotate"}
<1>1. proc \in Process /\ now \in Nat
  BY DEF TypeOK, Off
<1>2. CASE proc.role = "server"
  BY <1>1, <1>2 DEF PassDone, Process, PC
<1>3. CASE proc.role = "cli"
  BY <1>1, <1>3 DEF PassDone, Process, PC
<1> QED
  BY <1>1, <1>2, <1>3 DEF Process

\* A process loads the manifest and begins a pass, or looks for a first key.
LEMMA StartKeeps ==
  ASSUME KeyInv, NEW role \in {"server", "cli"}, NEW alg \in Alg, NEW ttl \in TTL,
         Start(role, alg, ttl)
  PROVE  KeyInv'
  BY DEF Start, KeyInv, TypeOK, Loaded, Minted, NextGood, DoomedGone, Off, Process, PC,
     KeysOf, RetiringOf

\* The first key is the legacy key or a new one.
LEMMA SaveFirstKeyKeeps == KeyInv /\ SaveFirstKey => KeyInv'
<1> SUFFICES ASSUME KeyInv, SaveFirstKey PROVE KeyInv'
  OBVIOUS
<1>1. proc \in Process /\ proc.pc = "first" /\ manifest = NoManifest /\ dropped = {}
  BY DEF KeyInv, TypeOK, Loaded, SaveFirstKey, Off
<1>2. PICK k \in IF Legacy = {} THEN {NewKey} ELSE Legacy :
         /\ SaveKey(k)
         /\ proc' = [proc EXCEPT !.pc = "write",
                        !.next = [active |-> k, since |-> proc.at, retiring |-> {}]]
  BY DEF SaveFirstKey
<1>3. k \in Key /\ k.id < nextKey' /\ nextKey' \in Nat /\ nextKey' > 0
  BY <1>1, <1>2, ConfigAssumption DEF SaveFirstKey, Legacy, NewKey, Key, Process, KeyInv,
     TypeOK, Minted
<1> DEFINE n == [active |-> k, since |-> proc.at, retiring |-> {}]
<1>4. n \in KeySet /\ KeysOf(n) = {k} /\ RetiringOf(n) = {}
  BY <1>1, <1>3, ConfigAssumption DEF KeySet, Process, KeysOf, RetiringOf
<1>5. /\ proc' \in Process /\ proc'.pc = "write"
      /\ proc'.next = n /\ proc'.doomed = proc.doomed
      /\ proc'.ready = proc.ready
  BY <1>1, <1>2, <1>4 DEF Process, PC
<1>6. TypeOK'
  BY <1>1, <1>2, <1>3, <1>5 DEF SaveFirstKey, SaveKey, KeyInv, TypeOK
<1>7. UNCHANGED <<manifest, mem, dropped>> /\ mem = NoManifest
  BY <1>1 DEF SaveFirstKey, KeyInv, Loaded
<1>8. Loaded' /\ Minted' /\ DoomedGone'
  BY <1>1, <1>3, <1>5, <1>7 DEF KeyInv, Loaded, Minted, DoomedGone, KeysOf
<1>9. ListedOnce(n)
  BY DEF ListedOnce
<1>10. NextGood'
  <2>1. KeysOf(manifest) = {} /\ proc.doomed = {}
    BY <1>1 DEF KeysOf, KeyInv, DoomedGone
  <2>2. k \notin dropped /\ n.active = k /\ manifest' = manifest /\ dropped' = dropped
    BY <1>1, <1>7
  <2> HIDE DEF n
  <2> QED
    BY <1>1, <1>3, <1>4, <1>5, <1>9, <2>1, <2>2 DEF NextGood
<1> QED
  BY <1>6, <1>8, <1>10 DEF KeyInv

\* A pass that begins only changes its phase.
LEMMA BeginMaintainKeeps == KeyInv /\ BeginMaintain => KeyInv'
<1> SUFFICES ASSUME KeyInv, BeginMaintain PROVE KeyInv'
  OBVIOUS
<1>1. proc \in Process /\ proc.pc \in {"due", "wait"}
  BY DEF KeyInv, TypeOK, BeginMaintain, Off
<1>2. /\ proc' \in Process /\ proc'.pc \in {"rotate", "sweep"}
      /\ proc'.doomed = proc.doomed
  BY <1>1 DEF BeginMaintain, Process, PC
<1> QED
  BY <1>1, <1>2 DEF BeginMaintain, KeyInv, TypeOK, Loaded, Minted, NextGood, DoomedGone

\* A rotation prepares a key set with a new key and every old one.
LEMMA SaveNewKeyKeeps == KeyInv /\ SaveNewKey => KeyInv'
<1> SUFFICES ASSUME KeyInv, SaveNewKey PROVE KeyInv'
  OBVIOUS
<1> DEFINE n == Rotated(NewKey)
<1>1. /\ proc \in Process /\ proc.pc = "rotate"
      /\ manifest \in KeySet /\ manifest # NoManifest /\ mem = manifest
  BY DEF KeyInv, TypeOK, Loaded, SaveNewKey, Off
<1>2. NewKey \in Key /\ NewKey.id = nextKey /\ nextKey' = nextKey + 1 /\ nextKey \in Nat
  BY <1>1, ConfigAssumption DEF SaveNewKey, NewKey, Key, Process, KeyInv, TypeOK
<1>3. NewKey \notin KeysOf(manifest) \cup dropped
  BY <1>2 DEF KeyInv, Minted
<1>4. RetireWindow \in Nat
  <2>1. proc.ttl \in Nat /\ Skew \in Nat
    BY <1>1, ConfigAssumption DEF Process
  <2> QED
    BY <2>1 DEF RetireWindow
<1>5. /\ n \in KeySet /\ n # NoManifest
      /\ n.active = NewKey
      /\ RetiringOf(n) = KeysOf(manifest)
      /\ KeysOf(n) = KeysOf(manifest) \cup {NewKey}
  <2> DEFINE r == [key |-> manifest.active, until |-> proc.at + RetireWindow]
  <2>1. r \in [key: Key, until: Nat] /\ proc.at \in Nat
    BY <1>1, <1>4 DEF KeySet, Process
  <2>2. n = [active |-> NewKey, since |-> proc.at, retiring |-> manifest.retiring \cup {r}]
    BY <1>1 DEF Rotated
  <2>3. n \in KeySet
    BY <1>1, <1>2, <2>1, <2>2 DEF KeySet
  <2>4. n # NoManifest
    BY <2>3, ConfigAssumption
  <2>5. {s.key : s \in n.retiring} = {s.key : s \in manifest.retiring} \cup {manifest.active}
    <3>1. n.retiring = manifest.retiring \cup {r} /\ r.key = manifest.active
      BY <2>2
    <3> HIDE DEF r, n
    <3> QED
      BY <3>1
  <2> QED
    BY <1>1, <2>2, <2>3, <2>4, <2>5 DEF KeysOf, RetiringOf
<1>6. ListedOnce(n)
  BY <1>1 DEF KeyInv, TypeOK, Minted, ListedOnce, Rotated, RetiringOf
<1>7. /\ proc' \in Process /\ proc'.pc = "write" /\ proc'.next = n
      /\ proc'.doomed = {}
  BY <1>1, <1>5 DEF SaveNewKey, Process, PC, KeyInv, DoomedGone
<1>8. TypeOK'
  BY <1>1, <1>2, <1>7 DEF SaveNewKey, SaveKey, KeyInv, TypeOK
<1>9. Loaded' /\ DoomedGone'
  BY <1>1, <1>7 DEF SaveNewKey, KeyInv, Loaded, DoomedGone, KeysOf
<1>11. Minted'
  <2>1. KeysOf(manifest) \subseteq Key /\ dropped \subseteq Key
    BY <1>1 DEF KeyInv, TypeOK, KeysOf, KeySet
  <2>2. UNCHANGED <<manifest, dropped>> /\ \A k \in Key : k.id \in Int
    BY ConfigAssumption DEF SaveNewKey, Key
  <2> QED
    BY <1>2, <2>1, <2>2 DEF KeyInv, Minted, KeysOf
<1>10. NextGood'
  BY <1>1, <1>2, <1>3, <1>5, <1>6, <1>7 DEF SaveNewKey, NextGood
<1> QED
  BY <1>8, <1>9, <1>10, <1>11 DEF KeyInv

\* The key set that was prepared becomes the manifest and the memory.
LEMMA WriteManifestKeeps == KeyInv /\ WriteManifest => KeyInv'
<1> SUFFICES ASSUME KeyInv, WriteManifest PROVE KeyInv'
  OBVIOUS
<1> DEFINE n == proc.next
<1>1. /\ proc \in Process /\ proc.pc = "write" /\ manifest' = n /\ mem' = n
      /\ dropped' = dropped \cup (KeysOf(manifest) \ KeysOf(n))
      /\ UNCHANGED <<now, files, unsynced, tokens, nextKey>>
  BY DEF KeyInv, TypeOK, WriteManifest, Off
<1>2. /\ n \in KeySet /\ n # NoManifest /\ ListedOnce(n)
      /\ n.active \notin RetiringOf(n) \cup dropped
      /\ n.active.id < nextKey
      /\ KeysOf(n) \subseteq KeysOf(manifest) \cup {n.active}
      /\ \A r \in proc.doomed : r.key \notin KeysOf(n)
      /\ manifest = NoManifest => proc.doomed = {}
      /\ n.active \in KeysOf(n)
  BY <1>1, ConfigAssumption DEF KeyInv, NextGood, KeysOf
<1>3. /\ proc' \in Process /\ proc'.pc \in {"due", "exit", "remove", "sweep"}
      /\ proc'.doomed = proc.doomed
      /\ proc'.pc \in {"due", "sweep"} => proc.doomed = {}
  BY <1>1, <1>2 DEF WriteManifest, Process, PC
<1>4. KeysOf(manifest) \subseteq Key
  BY DEF KeyInv, TypeOK, KeysOf, KeySet
<1>5. TypeOK'
  BY <1>1, <1>2, <1>3, <1>4 DEF KeyInv, TypeOK
<1>6. Loaded' /\ DoomedGone'
  BY <1>1, <1>2, <1>3 DEF Loaded, DoomedGone
<1>7. Minted'
  BY <1>1, <1>2 DEF KeyInv, Minted
<1>8. NextGood'
  BY <1>3 DEF NextGood
<1> QED
  BY <1>5, <1>6, <1>7, <1>8 DEF KeyInv

\* A failed pass leaves the manifest, and what the process still holds of it.
LEMMA PassFailsKeeps == KeyInv /\ PassFails => KeyInv'
<1> SUFFICES ASSUME KeyInv, PassFails PROVE KeyInv'
  OBVIOUS
<1>1. proc \in Process /\ proc.pc \in {"first", "rotate", "write"}
  BY DEF KeyInv, TypeOK, PassFails, Off
<1>2. CASE proc' = Off /\ mem' = NoManifest
  BY <1>1, <1>2 DEF PassFails, KeyInv, TypeOK, Loaded, Minted, NextGood, DoomedGone, Off
<1>3. CASE proc.ready /\ proc.role = "server"
  <2>1. proc' = [proc EXCEPT !.pc = "free", !.doomed = {}, !.next = NoManifest]
    BY <1>3 DEF PassFails
  <2>2. proc' \in Process /\ proc'.pc = "free" /\ proc'.doomed = {}
    BY <1>1, <2>1 DEF Process, PC
  <2> QED
    BY <1>1, <1>3, <2>2 DEF PassFails, KeyInv, TypeOK, Loaded, Minted, NextGood, DoomedGone
<1> QED
  BY <1>2, <1>3 DEF PassFails

\* Keys past their time are marked; without any the pass is over.
LEMMA SweepKeeps == KeyInv /\ Sweep => KeyInv'
<1> SUFFICES ASSUME KeyInv, Sweep PROVE KeyInv'
  OBVIOUS
<1>1. /\ proc \in Process /\ proc.pc = "sweep" /\ proc.doomed = {}
      /\ manifest \in KeySet /\ manifest # NoManifest /\ mem = manifest
      /\ UNCHANGED <<now, manifest, files, unsynced, mem, tokens, nextKey, dropped>>
  BY DEF KeyInv, TypeOK, Loaded, DoomedGone, Sweep, Off
<1>2. CASE Doomed = {}
  <2>1. proc' = PassDone /\ proc' \in Process /\ proc'.pc \in {"free", "rotate"}
    BY <1>1, <1>2, PassDoneTyped DEF Sweep, KeyInv
  <2>2. proc'.doomed = {}
    BY <1>1, <2>1 DEF PassDone, Process
  <2> QED
    BY <1>1, <2>1, <2>2 DEF KeyInv, TypeOK, Loaded, Minted, NextGood, DoomedGone
<1>3. CASE Doomed # {}
  <2> DEFINE n == [manifest EXCEPT !.retiring = @ \ Doomed]
  <2>1. Doomed \subseteq manifest.retiring
    BY <1>1 DEF Doomed
  <2>2. /\ n \in KeySet /\ n.active = manifest.active
        /\ n.retiring = manifest.retiring \ Doomed
    BY <1>1 DEF KeySet
  <2>3. proc' = [proc EXCEPT !.pc = "write", !.doomed = Doomed, !.next = n]
    BY <1>1, <1>3 DEF Sweep
  <2>4. Doomed \in SUBSET [key: Key, until: Nat]
    BY <1>1, <2>1 DEF KeySet
  <2>5. /\ proc' \in Process /\ proc'.pc = "write" /\ proc'.next = n
        /\ proc'.doomed = Doomed /\ proc'.ready = proc.ready
    BY <1>1, <2>2, <2>3, <2>4 DEF Process, PC
  <2>6. n # NoManifest
    BY <2>2, ConfigAssumption
  <2> HIDE DEF n
  <2>7. RetiringOf(n) \subseteq RetiringOf(manifest) /\ ListedOnce(n)
    BY <1>1, <2>2, <2>6 DEF RetiringOf, ListedOnce, KeyInv, Minted
  <2>8. KeysOf(n) \subseteq KeysOf(manifest) /\ manifest.active \in KeysOf(manifest)
    BY <1>1, <2>2, <2>6 DEF KeysOf
  <2>9. \A r \in Doomed : r.key \notin KeysOf(n)
    <3> SUFFICES ASSUME NEW r \in Doomed, r.key \in KeysOf(n) PROVE FALSE
      OBVIOUS
    <3>1. r \in manifest.retiring /\ r.key # manifest.active
      BY <1>1, <2>1 DEF KeyInv, TypeOK, RetiringOf
    <3>2. PICK s \in n.retiring : s.key = r.key
      BY <2>2, <2>6, <3>1 DEF KeysOf
    <3>3. s \in manifest.retiring /\ s \notin Doomed
      BY <2>2
    <3>4. r = s
      BY <1>1, <3>1, <3>2, <3>3 DEF KeyInv, Minted, ListedOnce
    <3> QED
      BY <3>3, <3>4
  <2>10. NextGood'
    <3>1. n.active \notin RetiringOf(n) \cup dropped /\ n.active.id < nextKey
      BY <1>1, <2>2, <2>7, <2>8 DEF KeyInv, TypeOK, Minted
    <3> QED
      BY <1>1, <2>2, <2>5, <2>7, <2>8, <2>9, <3>1 DEF NextGood
  <2>11. TypeOK' /\ Loaded' /\ DoomedGone'
    BY <1>1, <2>5 DEF KeyInv, TypeOK, Loaded, DoomedGone
  <2>12. Minted'
    BY <1>1 DEF KeyInv, Minted
  <2> QED
    BY <2>10, <2>11, <2>12 DEF KeyInv
<1> QED
  BY <1>2, <1>3

\* A file that goes belongs to a key the manifest no longer names.
LEMMA RemoveFileKeeps == KeyInv /\ RemoveFile => KeyInv'
<1> SUFFICES ASSUME KeyInv, RemoveFile PROVE KeyInv'
  OBVIOUS
<1>1. /\ proc \in Process /\ proc.pc = "remove" /\ manifest # NoManifest
      /\ UNCHANGED <<now, manifest, mem, tokens, nextKey, dropped>>
  BY DEF KeyInv, TypeOK, Loaded, RemoveFile, Off
<1>2. PICK r \in proc.doomed :
         /\ files' \in {files, files \ {r.key}}
         /\ proc' = IF proc.doomed = {r} THEN PassDone
                                         ELSE [proc EXCEPT !.doomed = @ \ {r}]
  BY DEF RemoveFile
<1>3. files' \subseteq files /\ unsynced' \subseteq files'
  BY <1>2 DEF RemoveFile
<1>4. CASE proc.doomed = {r}
  <2>1. proc' = PassDone /\ proc' \in Process /\ proc'.pc \in {"free", "rotate"}
    BY <1>1, <1>2, <1>4, PassDoneTyped DEF KeyInv
  <2>2. proc'.doomed = {}
    BY <1>1, <2>1 DEF PassDone, Process
  <2> QED
    BY <1>1, <1>3, <2>1, <2>2 DEF KeyInv, TypeOK, Loaded, Minted, NextGood, DoomedGone
<1>5. CASE proc.doomed # {r}
  <2>1. /\ proc' \in Process /\ proc'.pc = "remove" /\ proc'.doomed \subseteq proc.doomed
        /\ proc'.ready = proc.ready
    BY <1>1, <1>2, <1>5 DEF Process
  <2> QED
    BY <1>1, <1>3, <2>1 DEF KeyInv, TypeOK, Loaded, Minted, NextGood, DoomedGone
<1> QED
  BY <1>4, <1>5

\* The steps that only change the phase, the clock or the tokens.
LEMMA SignKeeps == KeyInv /\ Sign => KeyInv'
<1> SUFFICES ASSUME KeyInv, Sign PROVE KeyInv'
  OBVIOUS
<1>1. /\ proc \in Process /\ manifest \in KeySet /\ mem = manifest
      /\ UNCHANGED <<now, manifest, files, unsynced, mem, proc, nextKey, dropped>>
  BY DEF KeyInv, TypeOK, Loaded, Sign, Off
<1>2. [key |-> mem.active, exp |-> now + proc.ttl] \in [key: Key, exp: Nat]
  <2>1. proc.ttl \in Nat /\ mem.active \in Key /\ now \in Nat
    BY <1>1, ConfigAssumption DEF Process, KeySet, KeyInv, TypeOK
  <2> QED
    BY <2>1
<1>3. tokens' \subseteq [key: Key, exp: Nat]
  BY <1>2 DEF Sign, KeyInv, TypeOK
<1> QED
  BY <1>1, <1>3 DEF KeyInv, TypeOK, Loaded, Minted, NextGood, DoomedGone

\* The sweeper's ticker starts a pass on a serving gateway.
LEMMA TickerFiresKeeps == KeyInv /\ TickerFires => KeyInv'
<1> SUFFICES ASSUME KeyInv, TickerFires PROVE KeyInv'
  OBVIOUS
<1>1. proc \in Process /\ proc.pc = "free" /\ now \in Nat
  BY DEF KeyInv, TypeOK, TickerFires, Off
<1>2. /\ proc' \in Process /\ proc'.pc = "wait"
      /\ proc'.doomed = proc.doomed /\ proc'.ready = proc.ready
  BY <1>1 DEF TickerFires, Process, PC
<1> QED
  BY <1>1, <1>2 DEF TickerFires, KeyInv, TypeOK, Loaded, Minted, NextGood, DoomedGone

\* A process that ends, however it ends, leaves a directory that can be loaded again as
\* far as the files are there.
LEMMA EndKeeps ==
  ASSUME KeyInv, proc' = Off, mem' = NoManifest, files' \subseteq files,
         unsynced' \subseteq files', UNCHANGED <<now, manifest, tokens, nextKey, dropped>>
  PROVE  KeyInv'
  BY DEF KeyInv, TypeOK, Loaded, Minted, NextGood, DoomedGone, Off

\* KeyInv is inductive.
LEMMA KeyInvStep == KeyInv /\ [Next]_vars => KeyInv'
<1> SUFFICES ASSUME KeyInv, [Next]_vars PROVE KeyInv'
  OBVIOUS
<1>1. CASE StartServer \/ \E alg \in Alg, ttl \in TTL : Start("cli", alg, ttl)
  BY <1>1, StartKeeps DEF StartServer
<1>2. CASE PassStep
  <2>1. CASE Exit
    BY <2>1, EndKeeps DEF Exit, KeyInv, TypeOK
  <2> QED
    BY <1>2, <2>1, SaveFirstKeyKeeps, BeginMaintainKeeps, SaveNewKeyKeeps,
       WriteManifestKeeps, SweepKeeps, RemoveFileKeeps DEF PassStep
<1>3. CASE PassFails
  BY <1>3, PassFailsKeeps
<1>4. CASE TickerFires \/ Sign
  BY <1>4, TickerFiresKeeps, SignKeeps
<1>5. CASE Tick
  BY <1>5 DEF Tick, KeyInv, TypeOK, Loaded, Minted, NextGood, DoomedGone
<1>6. CASE Crash
  BY <1>6, EndKeeps DEF Crash, KeyInv, TypeOK
<1>7. CASE FlushFiles
  BY <1>7 DEF FlushFiles, KeyInv, TypeOK, Loaded, Minted, NextGood, DoomedGone
<1>8. CASE LosePower
  BY <1>8, EndKeeps DEF LosePower
<1>9. CASE UNCHANGED vars
  BY <1>9 DEF vars, KeyInv, TypeOK, Loaded, Minted, NextGood, DoomedGone
<1> QED
  BY <1>1, <1>2, <1>3, <1>4, <1>5, <1>6, <1>7, <1>8, <1>9 DEF Next

\* KeyInv holds of every behaviour.
LEMMA KeyInvHolds == Spec => []KeyInv
  BY KeyInvInit, KeyInvStep, PTL DEF Spec

\* The key set is well formed, and the signing key neither retiring nor given up, however
\* many keys there were and wherever the passes failed.
THEOREM KeyTypeCorrect == Spec => []TypeOK
<1>1. KeyInv => TypeOK
  BY DEF KeyInv
<1> QED
  BY <1>1, KeyInvHolds, PTL

\* What a process holds is what it would load again after a crash.
THEOREM MemoryIsDurable == Spec => []MemoryMatchesDisk
<1>1. KeyInv => MemoryMatchesDisk
  BY DEF KeyInv, Loaded, MemoryMatchesDisk
<1> QED
  BY <1>1, KeyInvHolds, PTL

-----------------------------------------------------------------------------
(* The manifest is complete. *)

\* The signing key of the key set about to be written has its file, too.
FilesInv ==
    /\ ManifestComplete
    /\ proc.pc = "write" => proc.next.active \in files

\* As long as the power stays on, key files come before the manifest that names them
\* and go after the manifest that no longer does.
LEMMA FilesInvStep ==
  ASSUME ~PowerLoss
  PROVE  KeyInv /\ FilesInv /\ [Next]_vars => FilesInv'
<1> SUFFICES ASSUME KeyInv, FilesInv, [Next]_vars PROVE FilesInv'
  OBVIOUS
<1> USE DEF FilesInv, ManifestComplete
<1>1. ASSUME NEW role \in {"server", "cli"}, NEW alg \in Alg, NEW ttl \in TTL,
             Start(role, alg, ttl)
      PROVE  FilesInv'
  BY <1>1 DEF Start
<1>2. CASE SaveFirstKey
  <2>1. proc \in Process /\ UNCHANGED manifest
    BY <1>2 DEF SaveFirstKey, KeyInv, TypeOK, Off
  <2>2. PICK k : /\ files' = files \cup {k}
                 /\ proc' = [proc EXCEPT !.pc = "write",
                       !.next = [active |-> k, since |-> proc.at, retiring |-> {}]]
    BY <1>2 DEF SaveFirstKey, SaveKey
  <2>3. proc'.next.active = k
    BY <2>1, <2>2 DEF Process
  <2> QED
    BY <2>1, <2>2, <2>3
<1>3. CASE BeginMaintain \/ TickerFires
  <2>1. proc \in Process /\ UNCHANGED <<manifest, files>>
    BY <1>3 DEF BeginMaintain, TickerFires, KeyInv, TypeOK, Off
  <2>2. proc'.pc # "write"
    <3>1. CASE BeginMaintain
      BY <2>1, <3>1 DEF BeginMaintain, Process
    <3>2. CASE TickerFires
      BY <2>1, <3>2 DEF TickerFires, Process
    <3> QED
      BY <1>3, <3>1, <3>2
  <2> QED
    BY <2>1, <2>2
<1>4. CASE SaveNewKey
  <2>1. proc \in Process /\ UNCHANGED manifest
    BY <1>4 DEF SaveNewKey, KeyInv, TypeOK, Off
  <2>2. files' = files \cup {NewKey} /\ proc'.next.active = NewKey
    BY <1>4, <2>1 DEF SaveNewKey, SaveKey, Rotated, Process
  <2> QED
    BY <2>1, <2>2
<1>5. CASE WriteManifest
  <2>1. KeysOf(proc.next) \subseteq files /\ files' = files /\ manifest' = proc.next
    BY <1>5 DEF WriteManifest, KeyInv, NextGood
  <2>2. proc'.pc # "write"
    BY <1>5 DEF WriteManifest, KeyInv, TypeOK, Off, Process
  <2> QED
    BY <2>1, <2>2
<1>6. CASE PassFails \/ Exit \/ Crash
  <2>1. proc'.pc # "write"
    <3>1. CASE proc' = Off
      BY <3>1 DEF Off
    <3>2. CASE proc' = [proc EXCEPT !.pc = "free", !.doomed = {}, !.next = NoManifest]
      <4>1. proc \in Process
        BY <1>6, <3>2 DEF PassFails, Exit, Crash, KeyInv, TypeOK, Off
      <4> QED
        BY <3>2, <4>1 DEF Process
    <3> QED
      BY <1>6, <3>1, <3>2 DEF PassFails, Exit, Crash
  <2>2. UNCHANGED <<manifest, files>>
    BY <1>6 DEF PassFails, Exit, Crash
  <2> QED
    BY <2>1, <2>2
<1>7. CASE Sweep
  <2>1. proc \in Process /\ manifest # NoManifest /\ mem = manifest /\ proc.pc # "off"
        /\ UNCHANGED <<manifest, files>>
    BY <1>7 DEF Sweep, KeyInv, TypeOK, Loaded, Off
  <2>2. CASE Doomed = {}
    BY <1>7, <2>1, <2>2, PassDoneTyped DEF Sweep, KeyInv
  <2>3. CASE Doomed # {}
    <3>1. proc'.next.active = manifest.active
      BY <1>7, <2>1, <2>3 DEF Sweep, Process, KeyInv, TypeOK, KeySet
    <3> QED
      BY <2>1, <3>1 DEF KeysOf
  <2> QED
    BY <2>2, <2>3
<1>8. CASE RemoveFile
  <2>1. proc \in Process /\ proc.pc = "remove" /\ UNCHANGED manifest
    BY <1>8 DEF RemoveFile, KeyInv, TypeOK, Off
  <2>2. PICK r \in proc.doomed :
           /\ files' \in {files, files \ {r.key}}
           /\ proc' = IF proc.doomed = {r} THEN PassDone
                                           ELSE [proc EXCEPT !.doomed = @ \ {r}]
    BY <1>8 DEF RemoveFile
  <2>3. KeysOf(manifest) \subseteq files'
    BY <2>1, <2>2 DEF KeyInv, DoomedGone
  <2>4. proc'.pc # "write"
    BY <2>1, <2>2, PassDoneTyped DEF KeyInv, Process
  <2> QED
    BY <2>1, <2>3, <2>4
<1>9. CASE Sign \/ Tick \/ UNCHANGED vars
  BY <1>9 DEF Sign, Tick, vars
<1>10. ~FlushFiles /\ ~LosePower
  BY DEF FlushFiles, LosePower
<1> QED
  BY <1>1, <1>2, <1>3, <1>4, <1>5, <1>6, <1>7, <1>8, <1>9, <1>10
     DEF Next, StartServer, PassStep

\* Crashes, failing writes and failing removals never leave a manifest that names a
\* missing key.
THEOREM ManifestStaysComplete ==
  ASSUME ~PowerLoss PROVE Spec => []ManifestComplete
<1>1. Init => FilesInv
  BY DEF Init, FilesInv, ManifestComplete, KeysOf, Off
<1>2. KeyInv /\ FilesInv /\ [Next]_vars => FilesInv'
  BY FilesInvStep
<1>3. FilesInv => ManifestComplete
  BY DEF FilesInv
<1> QED
  BY <1>1, <1>2, <1>3, KeyInvHolds, PTL DEF Spec

-----------------------------------------------------------------------------
(* A serving gateway signs with the configured algorithm. *)

\* A gateway that serves, has served or has got past the rotation of its start has an
\* active key of its algorithm; before that there is a key left to rotate to.  rotate-key
\* never serves.
AlgInv ==
    /\ proc.pc \in {"free", "wait"} => proc.role = "server"
    /\ proc.pc # "off" /\ proc.role = "server" =>
         /\ proc.ready \/ proc.pc \in {"sweep", "remove", "free", "wait"} =>
               mem.active.alg = proc.alg
         /\ proc.pc = "first" => nextKey < MaxKeys
         /\ proc.pc = "due" => mem.active.alg = proc.alg \/ nextKey < MaxKeys
         /\ proc.pc = "write" =>
               \/ proc.next.active.alg = proc.alg
               \/ manifest = NoManifest /\ nextKey < MaxKeys

\* The end of a pass: the gateway serves, rotate-key goes on.
LEMMA PassDoneSigns ==
  ASSUME KeyInv, AlgInv, proc.pc \in {"sweep", "remove"}, proc' = PassDone,
         UNCHANGED <<manifest, mem, nextKey>>
  PROVE  AlgInv'
<1>1. proc \in Process
  BY DEF KeyInv, TypeOK, Off
<1>2. CASE proc.role = "server"
  BY <1>1, <1>2 DEF AlgInv, PassDone, Process
<1>3. CASE proc.role = "cli"
  BY <1>1, <1>3 DEF AlgInv, PassDone, Process
<1> QED
  BY <1>1, <1>2, <1>3 DEF Process

\* AlgInv is inductive: a pass rotates to a key of the algorithm or finds it there already.
LEMMA AlgInvStep == KeyInv /\ AlgInv /\ [Next]_vars => AlgInv'
<1> SUFFICES ASSUME KeyInv, AlgInv, [Next]_vars PROVE AlgInv'
  OBVIOUS
<1>1. proc.pc # "off" => proc \in Process
  BY DEF KeyInv, TypeOK, Off
<1>2. ASSUME NEW role \in {"server", "cli"}, NEW alg \in Alg, NEW ttl \in TTL,
             Start(role, alg, ttl)
      PROVE  AlgInv'
  <2>1. nextKey \in Nat /\ MaxKeys \in Nat
    BY ConfigAssumption DEF KeyInv, TypeOK
  <2>2. role = "server" /\ manifest = NoManifest => nextKey < MaxKeys
    BY <1>2, <2>1 DEF Start, KeysNeeded
  <2>3. role = "server" => manifest.active.alg = alg \/ nextKey < MaxKeys
    BY <1>2, <2>1 DEF Start, KeysNeeded
  <2>4. /\ proc'.pc = (IF manifest = NoManifest THEN "first" ELSE "due")
        /\ proc'.role = role /\ proc'.alg = alg /\ ~proc'.ready
        /\ mem' = manifest /\ nextKey' = nextKey
    BY <1>2 DEF Start
  <2> QED
    BY <2>2, <2>3, <2>4 DEF AlgInv
<1>3. CASE SaveFirstKey
  <2>1. PICK k \in IF Legacy = {} THEN {NewKey} ELSE Legacy :
           proc' = [proc EXCEPT !.pc = "write",
                                !.next = [active |-> k, since |-> proc.at, retiring |-> {}]]
    BY <1>3 DEF SaveFirstKey
  <2>2. proc \in Process /\ manifest = NoManifest /\ proc.pc = "first"
    BY <1>1, <1>3 DEF SaveFirstKey, KeyInv, Loaded
  <2>3. /\ proc'.pc = "write" /\ proc'.next.active = k /\ proc'.role = proc.role
        /\ proc'.alg = proc.alg /\ proc'.ready = proc.ready
    BY <2>1, <2>2 DEF Process
  <2>4. ~proc.ready
    BY <2>2 DEF KeyInv, Loaded
  <2>5. k.alg = proc.alg \/ nextKey' = nextKey
    BY <1>3 DEF SaveFirstKey, NewKey
  <2> QED
    BY <1>3, <2>2, <2>3, <2>4, <2>5 DEF AlgInv, SaveFirstKey
<1>4. CASE BeginMaintain
  <2>1. proc.pc \in {"due", "wait"} /\ proc \in Process
    BY <1>1, <1>4 DEF BeginMaintain
  <2>2. /\ proc'.pc = (IF RotationDue THEN "rotate" ELSE "sweep") /\ proc'.role = proc.role
        /\ proc'.alg = proc.alg /\ proc'.ready = proc.ready
    BY <1>4, <2>1 DEF BeginMaintain, Process
  <2>3. proc.role = "server" /\ ~RotationDue => mem.active.alg = proc.alg
    BY <2>1 DEF AlgInv, RotationDue
  <2> QED
    BY <1>4, <2>1, <2>2, <2>3 DEF AlgInv, BeginMaintain
<1>5. CASE SaveNewKey
  <2>1. proc \in Process /\ proc.pc = "rotate"
    BY <1>1, <1>5 DEF SaveNewKey
  <2>2. /\ proc'.pc = "write" /\ proc'.next = Rotated(NewKey) /\ proc'.role = proc.role
        /\ proc'.alg = proc.alg /\ proc'.ready = proc.ready
    BY <1>5, <2>1 DEF SaveNewKey, Process
  <2>3. proc'.next.active.alg = proc.alg
    BY <2>2 DEF Rotated, NewKey
  <2> QED
    BY <1>5, <2>1, <2>2, <2>3 DEF AlgInv, SaveNewKey
<1>6. CASE WriteManifest
  <2>1. proc \in Process /\ proc.pc = "write"
    BY <1>1, <1>6 DEF WriteManifest
  <2>2. /\ proc'.pc = (IF manifest = NoManifest THEN "due" ELSE IF proc.forced THEN "exit"
                       ELSE IF proc.doomed # {} THEN "remove" ELSE "sweep")
        /\ proc'.role = proc.role /\ proc'.alg = proc.alg /\ proc'.ready = proc.ready
    BY <1>6, <2>1 DEF WriteManifest, Process
  <2>3. manifest = NoManifest => ~proc.ready
    BY <2>1 DEF KeyInv, Loaded
  <2> QED
    BY <1>6, <2>1, <2>2, <2>3 DEF AlgInv, WriteManifest
<1>7. CASE PassFails
  <2>1. proc \in Process /\ proc.pc \in {"first", "rotate", "write"}
    BY <1>1, <1>7 DEF PassFails
  <2>2. CASE proc.ready /\ proc.role = "server"
    <3>1. /\ proc'.pc = "free" /\ proc'.role = "server" /\ proc'.alg = proc.alg
          /\ UNCHANGED mem
      BY <1>7, <2>1, <2>2 DEF PassFails, Process
    <3> QED
      BY <2>1, <2>2, <3>1 DEF AlgInv
  <2>3. CASE ~(proc.ready /\ proc.role = "server")
    BY <1>7, <2>3 DEF PassFails, AlgInv, Off
  <2> QED
    BY <2>2, <2>3
<1>8. CASE Sweep
  <2>1. proc \in Process /\ proc.pc = "sweep" /\ manifest # NoManifest
    BY <1>1, <1>8 DEF Sweep, KeyInv, Loaded
  <2>2. CASE Doomed = {}
    BY <1>8, <2>1, <2>2, PassDoneSigns DEF Sweep
  <2>3. CASE Doomed # {}
    <3> DEFINE n == [mem EXCEPT !.retiring = @ \ Doomed]
    <3>1. mem \in KeySet
      BY <2>1 DEF KeyInv, TypeOK, Loaded
    <3>2. n.active = mem.active
      BY <3>1 DEF KeySet
    <3>3. /\ proc'.pc = "write" /\ proc'.next = n /\ proc'.role = proc.role
          /\ proc'.alg = proc.alg /\ proc'.ready = proc.ready
      BY <1>8, <2>1, <2>3 DEF Sweep, Process
    <3> HIDE DEF n
    <3> QED
      BY <1>8, <2>1, <3>2, <3>3 DEF AlgInv, Sweep
  <2> QED
    BY <2>2, <2>3
<1>9. CASE RemoveFile
  <2>1. proc \in Process /\ proc.pc = "remove"
    BY <1>1, <1>9 DEF RemoveFile
  <2>2. PICK r \in proc.doomed :
          proc' = IF proc.doomed = {r} THEN PassDone ELSE [proc EXCEPT !.doomed = @ \ {r}]
    BY <1>9 DEF RemoveFile
  <2>3. CASE proc' = PassDone
    BY <1>9, <2>1, <2>3, PassDoneSigns DEF RemoveFile
  <2>4. CASE proc' = [proc EXCEPT !.doomed = @ \ {r}]
    <3>1. /\ proc'.pc = "remove" /\ proc'.role = proc.role /\ proc'.alg = proc.alg
          /\ proc'.ready = proc.ready
      BY <2>1, <2>4 DEF Process
    <3> QED
      BY <1>9, <2>1, <3>1 DEF AlgInv, RemoveFile
  <2> QED
    BY <2>2, <2>3, <2>4
<1>10. CASE TickerFires
  <2>1. proc \in Process /\ proc.pc = "free"
    BY <1>1, <1>10 DEF TickerFires
  <2>2. /\ proc'.pc = "wait" /\ proc'.role = proc.role /\ proc'.alg = proc.alg
        /\ proc'.ready = proc.ready
    BY <1>10, <2>1 DEF TickerFires, Process
  <2> QED
    BY <1>10, <2>1, <2>2 DEF AlgInv, TickerFires
<1>11. CASE Exit \/ Crash \/ LosePower
  BY <1>11 DEF Exit, Crash, LosePower, AlgInv, Off
<1>12. CASE Sign \/ Tick \/ FlushFiles \/ UNCHANGED vars
  BY <1>12 DEF Sign, Tick, FlushFiles, vars, AlgInv
<1> QED
  BY <1>2, <1>3, <1>4, <1>5, <1>6, <1>7, <1>8, <1>9, <1>10, <1>11, <1>12
  DEF Next, StartServer, PassStep

\* A serving gateway signs with KEY_ALG, also after it was changed, after a legacy key was
\* adopted or after a start that failed or crashed half way.
THEOREM ServesConfiguredAlg == Spec => []ConfiguredAlgSigns
<1>1. Init => AlgInv
  BY DEF Init, AlgInv, Off
<1>2. KeyInv /\ AlgInv /\ [Next]_vars => AlgInv'
  BY AlgInvStep
<1>3. AlgInv => ConfiguredAlgSigns
  BY DEF AlgInv, ConfiguredAlgSigns
<1> QED
  BY <1>1, <1>2, <1>3, KeyInvHolds, PTL DEF Spec

-----------------------------------------------------------------------------
(* Accepted tokens verify. *)

\* A key set that verifies every accepted token, and gives no key up before its tokens
\* are over.
Covers(ks) ==
    \A t \in tokens :
        /\ t.key \in KeysOf(ks)
        /\ \A r \in ks.retiring : r.key = t.key => t.exp + Skew <= r.until

\* The manifest does; without one there are only tokens of the legacy key.
CoveredBy ==
    /\ manifest = NoManifest => \A t \in tokens : t.key \in Legacy
    /\ manifest # NoManifest => Covers(manifest)
    /\ proc.pc = "write" => Covers(proc.next)

\* No token outlives what the pass at work reckons with: the time it works with may be
\* late by MaxDelay, and none is signed while it holds the lock.
Reckoned(T) ==
    /\ \A t \in tokens : now < t.exp + Skew /\ t.exp <= now + T
    /\ proc.pc # "off" => proc.at <= now
    /\ proc.pc = "wait" => now <= proc.at + MaxDelay
    /\ proc.pc \in {"first", "due", "rotate", "write", "sweep", "remove"} =>
          \A t \in tokens : t.exp <= proc.at + MaxDelay + T

TokInv(T) == CoveredBy /\ Reckoned(T)

\* Before the first start the tokens, if any, are those of the legacy key.
LEMMA TokInvInit ==
  ASSUME NEW T, TTL = {T} PROVE Init => TokInv(T)
  BY ConfigAssumption DEF Init, TokInv, CoveredBy, Reckoned, Off

\* The passes only take the time from the clock when they begin.
LEMMA StartCovers ==
  ASSUME NEW T, TTL = {T}, KeyInv, TokInv(T),
         NEW role \in {"server", "cli"}, NEW alg \in Alg, NEW ttl \in TTL,
         Start(role, alg, ttl)
  PROVE  TokInv(T)'
<1>1. /\ UNCHANGED <<now, manifest, tokens>>
      /\ proc'.pc \in {"first", "due"} /\ proc'.at = now
  BY DEF Start
<1>2. now \in Nat /\ T \in Nat /\ MaxDelay \in Nat /\ tokens \subseteq [key: Key, exp: Nat]
  BY ConfigAssumption DEF KeyInv, TypeOK
<1>3. CoveredBy'
  BY <1>1 DEF TokInv, CoveredBy, Covers, KeysOf
<1>4. \A t \in tokens : t.exp \in Nat /\ t.exp <= now + T
  BY <1>2 DEF TokInv, Reckoned
<1>5. \A t \in tokens : t.exp <= now + MaxDelay + T
  BY <1>2, <1>4
<1>6. Reckoned(T)'
  BY <1>1, <1>2, <1>5 DEF TokInv, Reckoned
<1> QED
  BY <1>3, <1>6 DEF TokInv

\* The first key is the legacy key, whenever there may be tokens.
LEMMA SaveFirstKeyCovers ==
  ASSUME NEW T, KeyInv, TokInv(T), SaveFirstKey PROVE TokInv(T)'
<1>1. proc \in Process /\ proc.pc = "first" /\ manifest = NoManifest
  BY DEF KeyInv, TypeOK, Loaded, SaveFirstKey, Off
<1>2. PICK k \in IF Legacy = {} THEN {NewKey} ELSE Legacy :
         proc' = [proc EXCEPT !.pc = "write",
                     !.next = [active |-> k, since |-> proc.at, retiring |-> {}]]
  BY DEF SaveFirstKey
<1> DEFINE n == [active |-> k, since |-> proc.at, retiring |-> {}]
<1>3. proc'.pc = "write" /\ proc'.next = n /\ proc'.at = proc.at
  BY <1>1, <1>2 DEF Process
<1>4. UNCHANGED <<now, manifest, tokens>>
  BY DEF SaveFirstKey
<1>5. \A t \in tokens : t.key = k
  BY <1>1, <1>2, ConfigAssumption DEF TokInv, CoveredBy, Legacy
<1>6. k \in KeysOf(n) /\ n.retiring = {}
  <2>1. k \in Key
    BY <1>1, <1>2, ConfigAssumption DEF SaveFirstKey, Legacy, NewKey, Key, Process,
       KeyInv, TypeOK, Minted
  <2>2. n \in KeySet
    BY <1>1, <2>1, ConfigAssumption DEF KeySet, Process
  <2> QED
    BY <2>2, ConfigAssumption DEF KeysOf
<1>7. CoveredBy'
  <2> HIDE DEF n
  <2> QED
    BY <1>1, <1>3, <1>4, <1>5, <1>6 DEF TokInv, CoveredBy, Covers
<1>8. Reckoned(T)'
  BY <1>1, <1>3, <1>4 DEF TokInv, Reckoned
<1> QED
  BY <1>7, <1>8 DEF TokInv

\* A rotation gives the previous key a window that is longer than its tokens last, as
\* long as the time it works with is late by no more than the clock skew.
LEMMA SaveNewKeyCovers ==
  ASSUME NEW T, TTL = {T}, MaxDelay <= Skew, KeyInv, TokInv(T), SaveNewKey
  PROVE  TokInv(T)'
<1>1. /\ proc \in Process /\ proc.pc = "rotate"
      /\ manifest \in KeySet /\ manifest # NoManifest /\ mem = manifest
      /\ UNCHANGED <<now, manifest, tokens>>
  BY DEF KeyInv, TypeOK, Loaded, SaveNewKey, Off
<1> DEFINE n == Rotated(NewKey)
           r == [key |-> manifest.active, until |-> proc.at + RetireWindow]
<1>2. proc'.pc = "write" /\ proc'.next = n /\ proc'.at = proc.at
  BY <1>1 DEF SaveNewKey, Process
<1>3. proc.ttl = T /\ T \in Nat /\ proc.at \in Nat /\ Skew \in Nat /\ MaxDelay \in Nat
  BY <1>1, ConfigAssumption DEF Process
<1>4. \A t \in tokens : t.exp \in Nat /\ t.exp <= proc.at + MaxDelay + T
  BY <1>1 DEF TokInv, Reckoned, KeyInv, TypeOK
<1>5. \A t \in tokens : t.exp + Skew <= r.until
  BY <1>3, <1>4 DEF RetireWindow
<1>6. n = [active |-> NewKey, since |-> proc.at, retiring |-> manifest.retiring \cup {r}]
  BY <1>1 DEF Rotated
<1>7. KeysOf(manifest) \subseteq KeysOf(n)
  <2>1. n # NoManifest
    <3>1. NewKey \in Key
      BY <1>1, ConfigAssumption DEF SaveNewKey, NewKey, Key, Process, KeyInv, TypeOK
    <3>2. proc.at + RetireWindow \in Nat
      BY <1>3 DEF RetireWindow
    <3> QED
      BY <1>1, <1>3, <1>6, <3>1, <3>2, ConfigAssumption DEF KeySet
  <2>2. n.retiring = manifest.retiring \cup {r} /\ r.key = manifest.active
    BY <1>6
  <2> HIDE DEF n, r
  <2> QED
    BY <1>1, <2>1, <2>2 DEF KeysOf
<1>8. Covers(n)
  <2>1. Covers(manifest)
    BY <1>1 DEF TokInv, CoveredBy
  <2>2. n.retiring = manifest.retiring \cup {r}
    BY <1>6
  <2> HIDE DEF n, r
  <2> QED
    BY <1>5, <1>7, <2>1, <2>2 DEF Covers
<1>9. CoveredBy'
  <2> HIDE DEF n
  <2> QED
    BY <1>1, <1>2, <1>8 DEF TokInv, CoveredBy, Covers
<1>10. Reckoned(T)'
  BY <1>1, <1>2 DEF TokInv, Reckoned
<1> QED
  BY <1>9, <1>10 DEF TokInv

\* The manifest takes over what was prepared.
LEMMA WriteManifestCovers ==
  ASSUME NEW T, KeyInv, TokInv(T), WriteManifest PROVE TokInv(T)'
<1>1. /\ proc \in Process /\ proc.pc = "write" /\ manifest' = proc.next
      /\ UNCHANGED <<now, tokens>>
  BY DEF KeyInv, TypeOK, WriteManifest, Off
<1>2. /\ proc'.pc \in {"due", "exit", "remove", "sweep"} /\ proc'.at = proc.at
  BY <1>1 DEF WriteManifest, Process
<1>3. proc.next # NoManifest /\ Covers(proc.next)
  BY <1>1, ConfigAssumption DEF KeyInv, NextGood, TokInv, CoveredBy
<1>4. CoveredBy'
  BY <1>1, <1>2, <1>3 DEF CoveredBy, Covers
<1>5. Reckoned(T)'
  BY <1>1, <1>2 DEF TokInv, Reckoned
<1> QED
  BY <1>4, <1>5 DEF TokInv

\* A key set without the keys past their time still covers: a token that is accepted now
\* is not one of theirs.
LEMMA SweepCovers ==
  ASSUME NEW T, KeyInv, TokInv(T), Sweep, Doomed # {} PROVE TokInv(T)'
<1>1. /\ proc \in Process /\ proc.pc = "sweep"
      /\ manifest \in KeySet /\ manifest # NoManifest /\ mem = manifest
      /\ UNCHANGED <<now, manifest, tokens>>
  BY DEF KeyInv, TypeOK, Loaded, Sweep, Off
<1> DEFINE n == [manifest EXCEPT !.retiring = @ \ Doomed]
<1>2. n \in KeySet /\ n.active = manifest.active /\ n.retiring = manifest.retiring \ Doomed
  BY <1>1 DEF KeySet
<1>3. proc'.pc = "write" /\ proc'.next = n /\ proc'.at = proc.at
  BY <1>1 DEF Sweep, Process
<1>4. n # NoManifest
  BY <1>2, ConfigAssumption
<1>5. Covers(manifest)
  BY <1>1 DEF TokInv, CoveredBy
<1>6. \A t \in tokens : \A r \in Doomed : r.key # t.key
  <2> SUFFICES ASSUME NEW t \in tokens, NEW r \in Doomed, r.key = t.key PROVE FALSE
    OBVIOUS
  <2>1. r \in manifest.retiring /\ r.until <= proc.at
    BY <1>1 DEF Doomed
  <2>2. t.exp + Skew <= r.until /\ now < t.exp + Skew /\ proc.at <= now
    BY <1>1, <1>5, <2>1 DEF Covers, TokInv, Reckoned
  <2>3. /\ r.until \in Nat /\ t.exp \in Nat /\ Skew \in Nat /\ now \in Nat
        /\ proc.at \in Nat
    BY <1>1, <2>1, ConfigAssumption DEF KeySet, Process, KeyInv, TypeOK
  <2> QED
    BY <2>1, <2>2, <2>3
<1>7. Covers(n)
  <2> HIDE DEF n
  <2> QED
    BY <1>1, <1>2, <1>4, <1>5, <1>6 DEF Covers, KeysOf
<1>8. CoveredBy'
  <2> HIDE DEF n
  <2> QED
    BY <1>1, <1>3, <1>5, <1>7 DEF TokInv, CoveredBy, Covers
<1>9. Reckoned(T)'
  BY <1>1, <1>3 DEF TokInv, Reckoned
<1> QED
  BY <1>8, <1>9 DEF TokInv

\* A token is signed with the active key, and lasts from now on.
LEMMA SignCovers ==
  ASSUME NEW T, TTL = {T}, KeyInv, TokInv(T), Sign PROVE TokInv(T)'
<1> DEFINE new == [key |-> mem.active, exp |-> now + proc.ttl]
<1>1. /\ proc \in Process /\ proc.pc \in {"free", "wait"} /\ tokens' = tokens \cup {new}
      /\ manifest \in KeySet /\ manifest # NoManifest /\ mem = manifest
      /\ UNCHANGED <<now, manifest, proc>>
  BY DEF KeyInv, TypeOK, Loaded, Sign, Off
<1>2. /\ proc.ttl = T /\ T \in Nat /\ T > 0 /\ Skew \in Nat /\ now \in Nat
      /\ new.exp = now + T
  BY <1>1, ConfigAssumption DEF Process, KeyInv, TypeOK
<1>3. new.key \in KeysOf(manifest) /\ \A r \in manifest.retiring : r.key # new.key
  BY <1>1 DEF KeysOf, RetiringOf, KeyInv, TypeOK
<1>4. Covers(manifest)'
  <2> HIDE DEF new
  <2> QED
    BY <1>1, <1>3 DEF TokInv, CoveredBy, Covers
<1>5. CoveredBy'
  BY <1>1, <1>4 DEF CoveredBy
<1>6. Reckoned(T)'
  BY <1>1, <1>2 DEF TokInv, Reckoned
<1> QED
  BY <1>5, <1>6 DEF TokInv

\* What changes neither manifest nor tokens, and does not go into a phase that writes.
LEMMA IdleCovers ==
  ASSUME NEW T, TokInv(T), UNCHANGED <<now, manifest, tokens>>,
         proc'.pc # "write", Reckoned(T)'
  PROVE  TokInv(T)'
  BY DEF TokInv, CoveredBy, Covers

\* A pass that begins finds no token newer than its time allows.
LEMMA BeginMaintainCovers ==
  ASSUME NEW T, TTL = {T}, KeyInv, TokInv(T), BeginMaintain PROVE TokInv(T)'
<1>1. /\ proc \in Process /\ proc.pc \in {"due", "wait"}
      /\ UNCHANGED <<now, manifest, tokens>>
  BY DEF KeyInv, TypeOK, BeginMaintain, Off
<1>2. proc'.pc \in {"rotate", "sweep"} /\ proc'.at = proc.at
  BY <1>1 DEF BeginMaintain, Process
<1>3. \A t \in tokens : t.exp <= proc.at + MaxDelay + T
  <2>1. CASE proc.pc = "due"
    BY <2>1 DEF TokInv, Reckoned
  <2>2. CASE proc.pc = "wait"
    <3>1. /\ now <= proc.at + MaxDelay
          /\ \A t \in tokens : t.exp \in Nat /\ t.exp <= now + T
      BY <2>2 DEF TokInv, Reckoned, KeyInv, TypeOK
    <3>2. now \in Nat /\ proc.at \in Nat /\ MaxDelay \in Nat /\ T \in Nat
      BY <1>1, ConfigAssumption DEF Process, KeyInv, TypeOK
    <3> QED
      BY <3>1, <3>2
  <2> QED
    BY <1>1, <2>1, <2>2
<1>4. Reckoned(T)'
  BY <1>1, <1>2, <1>3 DEF TokInv, Reckoned
<1> QED
  BY <1>1, <1>2, <1>4, IdleCovers

\* The end of a pass: rotate-key looks at the clock anew.
LEMMA PassDoneCovers ==
  ASSUME NEW T, TTL = {T}, KeyInv, TokInv(T), proc.pc # "off", proc' = PassDone,
         UNCHANGED <<now, manifest, tokens>>
  PROVE  TokInv(T)'
<1>1. proc \in Process
  BY DEF KeyInv, TypeOK, Off
<1>2. /\ now \in Nat /\ proc.at \in Nat /\ MaxDelay \in Nat /\ T \in Nat
      /\ \A t \in tokens : t.exp \in Nat /\ t.exp <= now + T
  BY <1>1, ConfigAssumption DEF Process, KeyInv, TypeOK, TokInv, Reckoned
<1>3. \A t \in tokens : t.exp <= now + MaxDelay + T
  BY <1>2
<1>4. CASE proc.role = "server"
  <2>1. proc'.pc = "free" /\ proc'.at = proc.at
    BY <1>1, <1>4 DEF PassDone, Process
  <2> QED
    BY <2>1, IdleCovers DEF TokInv, Reckoned
<1>5. CASE proc.role # "server"
  <2>1. proc'.pc = "rotate" /\ proc'.at = now
    BY <1>1, <1>5 DEF PassDone, Process
  <2> QED
    BY <1>2, <1>3, <2>1, IdleCovers DEF TokInv, Reckoned
<1> QED
  BY <1>4, <1>5

\* TokInv is inductive relative to KeyInv.
LEMMA TokInvStep ==
  ASSUME NEW T, TTL = {T}, MaxDelay <= Skew
  PROVE  KeyInv /\ TokInv(T) /\ [Next]_vars => TokInv(T)'
<1> SUFFICES ASSUME KeyInv, TokInv(T), [Next]_vars PROVE TokInv(T)'
  OBVIOUS
<1>1. CASE StartServer \/ \E alg \in Alg, ttl \in TTL : Start("cli", alg, ttl)
  BY <1>1, StartCovers DEF StartServer
<1>2. CASE SaveFirstKey \/ BeginMaintain \/ SaveNewKey \/ WriteManifest \/ Sign
  BY <1>2, SaveFirstKeyCovers, BeginMaintainCovers, SaveNewKeyCovers,
     WriteManifestCovers, SignCovers
<1>3. CASE Sweep
  <2>1. CASE Doomed = {}
    BY <1>3, <2>1, PassDoneCovers DEF Sweep
  <2> QED
    BY <1>3, <2>1, SweepCovers
<1>4. CASE RemoveFile
  <2>1. proc \in Process /\ proc.pc = "remove" /\ UNCHANGED <<now, manifest, tokens>>
    BY <1>4 DEF RemoveFile, KeyInv, TypeOK, Off
  <2>2. PICK r \in proc.doomed :
           proc' = IF proc.doomed = {r} THEN PassDone ELSE [proc EXCEPT !.doomed = @ \ {r}]
    BY <1>4 DEF RemoveFile
  <2>3. CASE proc' = PassDone
    BY <2>1, <2>3, PassDoneCovers
  <2>4. CASE proc' = [proc EXCEPT !.doomed = @ \ {r}]
    <3>1. proc'.pc = "remove" /\ proc'.at = proc.at
      BY <2>1, <2>4 DEF Process
    <3> QED
      BY <2>1, <3>1, IdleCovers DEF TokInv, Reckoned
  <2> QED
    BY <2>2, <2>3, <2>4
<1>5. CASE PassFails \/ Exit \/ Crash \/ LosePower
  <2>1. UNCHANGED <<now, manifest, tokens>>
    BY <1>5 DEF PassFails, Exit, Crash, LosePower
  <2>2. CASE proc' = Off
    BY <2>1, <2>2, IdleCovers DEF Off, TokInv, Reckoned
  <2>3. CASE PassFails /\ proc' # Off
    <3>1. /\ proc \in Process
          /\ proc' = [proc EXCEPT !.pc = "free", !.doomed = {}, !.next = NoManifest]
      BY <2>3 DEF PassFails, KeyInv, TypeOK, Off
    <3>2. proc'.pc = "free" /\ proc'.at = proc.at /\ proc.pc # "off"
      BY <3>1, <2>3 DEF Process, PassFails
    <3> QED
      BY <2>1, <3>2, IdleCovers DEF TokInv, Reckoned
  <2> QED
    BY <1>5, <2>2, <2>3 DEF Exit, Crash, LosePower
<1>6. CASE TickerFires
  <2>1. proc \in Process /\ UNCHANGED <<now, manifest, tokens>>
    BY <1>6 DEF TickerFires, KeyInv, TypeOK, Off
  <2>2. proc'.pc = "wait" /\ proc'.at = now
    BY <1>6, <2>1 DEF TickerFires, Process
  <2>3. now \in Nat /\ MaxDelay \in Nat
    BY ConfigAssumption DEF KeyInv, TypeOK
  <2> QED
    BY <2>1, <2>2, <2>3, IdleCovers DEF TokInv, Reckoned
<1>7. CASE Tick
  <2>1. /\ now' = now + 1 /\ tokens' = {t \in tokens : now' < t.exp + Skew}
        /\ UNCHANGED <<manifest, proc>>
        /\ proc.pc = "wait" => now < proc.at + MaxDelay
    BY <1>7 DEF Tick
  <2>2. CoveredBy'
    BY <2>1 DEF TokInv, CoveredBy, Covers
  <2>3. /\ now \in Nat /\ T \in Nat /\ MaxDelay \in Nat
        /\ \A t \in tokens : t.exp \in Nat
        /\ proc.pc # "off" => proc.at \in Nat
    BY ConfigAssumption DEF KeyInv, TypeOK, Process, Off
  <2>4. \A t \in tokens' : now' < t.exp + Skew /\ t.exp <= now' + T
    BY <2>1, <2>3 DEF TokInv, Reckoned
  <2>5. Reckoned(T)'
    BY <2>1, <2>3, <2>4 DEF TokInv, Reckoned
  <2> QED
    BY <2>2, <2>5 DEF TokInv
<1>8. CASE FlushFiles \/ UNCHANGED vars
  BY <1>8 DEF FlushFiles, vars, TokInv, CoveredBy, Covers, Reckoned
<1> QED
  BY <1>1, <1>2, <1>3, <1>4, <1>5, <1>6, <1>7, <1>8 DEF Next, PassStep

\* With one ACCESS_TOKEN_TTL for all, and sweeps that are late by no more than the clock
\* skew, a serving gateway verifies every token the proxy would accept, also after power
\* losses.  Without either assumption it does not.
THEOREM TokensVerify ==
  ASSUME NEW T, TTL = {T}, MaxDelay <= Skew
  PROVE  Spec => []OutstandingTokensVerify
<1>1. Init => TokInv(T)
  BY TokInvInit
<1>2. KeyInv /\ TokInv(T) /\ [Next]_vars => TokInv(T)'
  BY TokInvStep
<1>3. KeyInv /\ TokInv(T) => OutstandingTokensVerify
  BY DEF KeyInv, Loaded, TokInv, CoveredBy, Covers, OutstandingTokensVerify
<1> QED
  BY <1>1, <1>2, <1>3, KeyInvHolds, PTL DEF Spec

-----------------------------------------------------------------------------
(* The refinement of KeyRing. *)

\* A key set about to be written is the first one, or the one after a rotation, or the
\* present one without some retiring keys.
NextForm ==
    proc.pc = "write" =>
        \/ manifest = NoManifest /\ RetiringOf(proc.next) = {}
        \/ /\ manifest # NoManifest
           /\ proc.next.active = manifest.active
           /\ RetiringOf(proc.next) \subseteq RetiringOf(manifest)
        \/ /\ manifest # NoManifest
           /\ proc.next.active \notin KeysOf(manifest)
           /\ RetiringOf(proc.next) = KeysOf(manifest)

\* Only the steps that prepare a key set matter.
LEMMA NextFormStep == KeyInv /\ NextForm /\ [Next]_vars => NextForm'
<1> SUFFICES ASSUME KeyInv, NextForm, [Next]_vars PROVE NextForm'
  OBVIOUS
<1>1. CASE SaveFirstKey
  <2>1. proc \in Process /\ manifest = NoManifest /\ UNCHANGED manifest
    BY <1>1 DEF SaveFirstKey, KeyInv, TypeOK, Loaded, Off
  <2>2. PICK k \in IF Legacy = {} THEN {NewKey} ELSE Legacy :
           proc' = [proc EXCEPT !.pc = "write",
                       !.next = [active |-> k, since |-> proc.at, retiring |-> {}]]
    BY <1>1 DEF SaveFirstKey
  <2>3. proc'.next.retiring = {}
    BY <2>1, <2>2 DEF Process
  <2> QED
    BY <2>1, <2>3 DEF NextForm, RetiringOf
<1>2. CASE SaveNewKey
  <2> DEFINE n == Rotated(NewKey)
             r == [key |-> manifest.active, until |-> proc.at + RetireWindow]
  <2>1. /\ proc \in Process /\ manifest # NoManifest /\ mem = manifest
        /\ UNCHANGED <<manifest, dropped>>
    BY <1>2 DEF SaveNewKey, KeyInv, TypeOK, Loaded, Off
  <2>2. proc'.next = n
    BY <1>2, <2>1 DEF SaveNewKey, Process
  <2>3. n.active = NewKey /\ n.retiring = manifest.retiring \cup {r}
    BY <2>1 DEF Rotated
  <2>4. NewKey \notin KeysOf(manifest) /\ nextKey \in Nat
    <3>1. NewKey.id = nextKey /\ nextKey \in Nat
      BY DEF NewKey, KeyInv, TypeOK
    <3> QED
      BY <3>1 DEF KeyInv, Minted
  <2>5. n # NoManifest
    <3>1. NextGood' /\ proc'.pc = "write"
      BY <1>2, <2>1, SaveNewKeyKeeps DEF KeyInv, SaveNewKey, Process
    <3> QED
      BY <2>2, <3>1, ConfigAssumption DEF NextGood
  <2>6. RetiringOf(n) = KeysOf(manifest)
    <3>1. r.key = manifest.active
      OBVIOUS
    <3> HIDE DEF n, r
    <3> QED
      BY <2>1, <2>3, <2>5, <3>1 DEF RetiringOf, KeysOf
  <2> HIDE DEF n
  <2> QED
    BY <2>1, <2>2, <2>3, <2>4, <2>6 DEF NextForm
<1>3. CASE Sweep
  <2>1. /\ proc \in Process /\ proc.pc = "sweep" /\ UNCHANGED manifest
        /\ manifest # NoManifest /\ manifest \in KeySet /\ mem = manifest
    BY <1>3 DEF Sweep, KeyInv, TypeOK, Loaded, Off
  <2>2. CASE Doomed = {}
    BY <1>3, <2>1, <2>2, PassDoneTyped DEF Sweep, KeyInv, NextForm
  <2>3. CASE Doomed # {}
    <3> DEFINE n == [manifest EXCEPT !.retiring = @ \ Doomed]
    <3>1. proc'.next = n
      BY <1>3, <2>1, <2>3 DEF Sweep, Process
    <3>2. n.active = manifest.active /\ n.retiring \subseteq manifest.retiring
      BY <2>1 DEF KeySet
    <3> HIDE DEF n
    <3> QED
      BY <2>1, <3>1, <3>2 DEF NextForm, RetiringOf
  <2> QED
    BY <2>2, <2>3
<1>4. CASE WriteManifest
  <2>1. proc'.pc # "write"
    BY <1>4 DEF WriteManifest, KeyInv, TypeOK, Off, Process
  <2> QED
    BY <2>1 DEF NextForm
<1>5. CASE StartServer \/ \E alg \in Alg, ttl \in TTL : Start("cli", alg, ttl)
  BY <1>5 DEF StartServer, Start, NextForm
<1>6. CASE BeginMaintain
  <2>1. proc \in Process
    BY <1>6 DEF BeginMaintain, KeyInv, TypeOK, Off
  <2>2. proc'.pc # "write"
    BY <1>6, <2>1 DEF BeginMaintain, Process
  <2> QED
    BY <2>2 DEF NextForm
<1>7. CASE RemoveFile
  <2>1. proc \in Process /\ proc.pc = "remove"
    BY <1>7 DEF RemoveFile, KeyInv, TypeOK, Off
  <2>2. PICK r \in proc.doomed :
           proc' = IF proc.doomed = {r} THEN PassDone ELSE [proc EXCEPT !.doomed = @ \ {r}]
    BY <1>7 DEF RemoveFile
  <2>3. proc'.pc # "write"
    BY <2>1, <2>2, PassDoneTyped DEF KeyInv, Process
  <2> QED
    BY <2>3 DEF NextForm
<1>8. CASE PassFails \/ Exit \/ Crash \/ LosePower
  <2>1. CASE proc' = Off
    BY <2>1 DEF Off, NextForm
  <2>2. CASE PassFails /\ proc' # Off
    <3>1. /\ proc \in Process
          /\ proc' = [proc EXCEPT !.pc = "free", !.doomed = {}, !.next = NoManifest]
      BY <2>2 DEF PassFails, KeyInv, TypeOK, Off
    <3>2. proc'.pc # "write"
      BY <3>1 DEF Process
    <3> QED
      BY <3>2 DEF NextForm
  <2> QED
    BY <1>8, <2>1, <2>2 DEF Exit, Crash, LosePower
<1>9. CASE TickerFires
  <2>1. proc \in Process
    BY <1>9 DEF TickerFires, KeyInv, TypeOK, Off
  <2>2. proc'.pc # "write"
    BY <1>9, <2>1 DEF TickerFires, Process
  <2> QED
    BY <2>2 DEF NextForm
<1>10. CASE Sign \/ Tick \/ FlushFiles \/ UNCHANGED vars
  BY <1>10 DEF Sign, Tick, FlushFiles, vars, NextForm
<1> QED
  BY <1>1, <1>2, <1>3, <1>4, <1>5, <1>6, <1>7, <1>8, <1>9, <1>10 DEF Next, PassStep

\* A gateway that has written no manifest yet shows an empty ring.
LEMMA RingInit == Init => Ring!Init
  BY ConfigAssumption DEF Init, Ring!Init, KeysOf, RetiringOf, Legacy, Key

\* The steps that leave the manifest alone stutter, but for tokens that come and go.
LEMMA RingUnmoved ==
  ASSUME KeyInv, UNCHANGED <<manifest, dropped>>,
         tokens' = tokens \/ tokens' \subseteq tokens \/ Sign
  PROVE  [Ring!Next]_(Ring!vars)
<1> DEFINE out == {t.key : t \in tokens}
<1>1. UNCHANGED <<KeysOf(manifest) \ RetiringOf(manifest), RetiringOf(manifest), dropped>>
  BY DEF KeysOf, RetiringOf
<1>2. CASE tokens' = tokens
  BY <1>1, <1>2 DEF Ring!vars
<1>3. CASE tokens' \subseteq tokens
  <2>1. Ring!Expire
    BY <1>1, <1>3 DEF Ring!Expire
  <2> QED
    BY <2>1 DEF Ring!Next
<1>4. CASE Sign
  <2>1. proc \in Process /\ manifest \in KeySet /\ manifest # NoManifest /\ mem = manifest
    BY <1>4 DEF KeyInv, TypeOK, Loaded, Sign, Off
  <2>2. manifest.active \in Key /\ manifest.active \notin RetiringOf(manifest)
    BY <2>1 DEF KeySet, KeyInv, TypeOK
  <2>3. manifest.active \in KeysOf(manifest)
    BY <2>1 DEF KeysOf
  <2>4. out' = out \cup {manifest.active}
    <3>1. PICK t : t.key = manifest.active /\ tokens' = tokens \cup {t}
      BY <1>4, <2>1 DEF Sign
    <3> QED
      BY <3>1
  <2>5. PICK k \in Key : k = manifest.active
    BY <2>2
  <2>6. Ring!Sign(k)
    BY <1>1, <2>2, <2>3, <2>4, <2>5 DEF Ring!Sign
  <2> QED
    BY <2>6 DEF Ring!Next
<1> QED
  BY <1>2, <1>3, <1>4

\* Writing the manifest installs the first key, rotates, or gives keys up whose tokens
\* are over.
LEMMA RingWritten ==
  ASSUME NEW T, KeyInv, TokInv(T), NextForm, WriteManifest
  PROVE  [Ring!Next]_(Ring!vars)
<1> DEFINE n   == proc.next
           out == {t.key : t \in tokens}
<1>1. /\ proc.pc = "write" /\ manifest' = n /\ tokens' = tokens
      /\ dropped' = dropped \cup (KeysOf(manifest) \ KeysOf(n))
  BY DEF WriteManifest
<1>2. /\ n \in KeySet /\ n # NoManifest /\ n.active \in Key
      /\ n.active \notin RetiringOf(n) \cup dropped
  BY <1>1, ConfigAssumption DEF KeyInv, NextGood, KeySet
<1>3. KeysOf(n) = {n.active} \cup RetiringOf(n)
  BY <1>2 DEF KeysOf, RetiringOf
<1>4. /\ (KeysOf(manifest) \ RetiringOf(manifest))' = {n.active}
      /\ RetiringOf(manifest)' = RetiringOf(n)
      /\ out' = out
  BY <1>1, <1>2, <1>3 DEF KeysOf, RetiringOf
<1>5. out \subseteq KeysOf(n)
  BY <1>1 DEF TokInv, CoveredBy, Covers
<1>6. CASE manifest = NoManifest
  <2>1. KeysOf(manifest) = {} /\ RetiringOf(manifest) = {}
    BY <1>6 DEF KeysOf, RetiringOf
  <2>2. RetiringOf(n) = {}
    BY <1>1, <1>6 DEF NextForm
  <2>3. Ring!Install(n.active)
    BY <1>1, <1>3, <1>4, <1>5, <2>1, <2>2 DEF Ring!Install
  <2> QED
    BY <1>2, <2>3 DEF Ring!Next
<1>7. CASE manifest # NoManifest
  <2>1. /\ KeysOf(manifest) = {manifest.active} \cup RetiringOf(manifest)
        /\ manifest.active \notin RetiringOf(manifest)
    BY <1>7 DEF KeysOf, RetiringOf, KeyInv, TypeOK
  <2>2. CASE n.active = manifest.active /\ RetiringOf(n) \subseteq RetiringOf(manifest)
    <3>1. KeysOf(manifest) \ KeysOf(n) = RetiringOf(manifest) \ RetiringOf(n)
      BY <1>2, <1>3, <2>1, <2>2
    <3>2. (RetiringOf(manifest) \ RetiringOf(n)) \cap out = {}
      BY <1>3, <1>5, <2>1, <2>2
    <3>3. Ring!Drop
      BY <1>1, <1>4, <2>1, <2>2, <3>1, <3>2 DEF Ring!Drop
    <3> QED
      BY <3>3 DEF Ring!Next
  <2>3. CASE n.active \notin KeysOf(manifest) /\ RetiringOf(n) = KeysOf(manifest)
    <3>1. KeysOf(manifest) \ KeysOf(n) = {}
      BY <1>3, <2>3
    <3>2. Ring!Rotate(n.active)
      BY <1>1, <1>2, <1>4, <2>1, <2>3, <3>1 DEF Ring!Rotate
    <3> QED
      BY <1>2, <3>2 DEF Ring!Next
  <2> QED
    BY <1>1, <1>7, <2>2, <2>3 DEF NextForm
<1> QED
  BY <1>6, <1>7

\* The key directory keeps the promise of KeyRing, for tokens the proxy would accept.
THEOREM KeyRingImplemented ==
  ASSUME NEW T, TTL = {T}, MaxDelay <= Skew
  PROVE  Spec => ImplementsKeyRing
<1>1. Init => TokInv(T) /\ NextForm /\ Ring!Init
  BY TokInvInit, RingInit DEF Init, NextForm, Off
<1>2. KeyInv /\ TokInv(T) /\ NextForm /\ [Next]_vars => TokInv(T)' /\ NextForm'
  BY TokInvStep, NextFormStep
<1>3. KeyInv /\ TokInv(T) /\ NextForm /\ [Next]_vars => [Ring!Next]_(Ring!vars)
  <2> SUFFICES ASSUME KeyInv, TokInv(T), NextForm, [Next]_vars
               PROVE  [Ring!Next]_(Ring!vars)
    OBVIOUS
  <2>1. CASE WriteManifest
    BY <2>1, RingWritten
  <2>2. CASE Tick
    BY <2>2, RingUnmoved DEF Tick
  <2>3. CASE Sign
    BY <2>3, RingUnmoved DEF Sign
  <2>4. CASE ~(WriteManifest \/ Tick \/ Sign)
    <3>1. UNCHANGED <<manifest, dropped, tokens>>
      BY <2>4 DEF Next, StartServer, PassStep, Start, SaveFirstKey, BeginMaintain,
         SaveNewKey, Sweep, RemoveFile, Exit, PassFails, TickerFires, Crash, FlushFiles,
         LosePower, vars
    <3> QED
      BY <3>1, RingUnmoved
  <2> QED
    BY <2>1, <2>2, <2>3, <2>4
<1> QED
  BY <1>1, <1>2, <1>3, KeyInvHolds, PTL DEF Spec, ImplementsKeyRing, Ring!Spec

================================================================================
