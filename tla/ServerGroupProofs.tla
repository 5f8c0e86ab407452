---------------------------- MODULE ServerGroupProofs ----------------------------
(***************************************************************************)
(* What holds of ServerGroup for any deployments.                          *)
(***************************************************************************)
EXTENDS ServerGroup, TLAPS

\* Some part has begun to stop, or is known to have stopped.
Stirring ==
    \/ ctx = "cancelled" \/ exit > 0 \/ watch = "reporting" \/ main \in {"join", "close"}
    \/ \E l \in conf.listeners : srv[l] = "reporting" \/ shut[l] # "waiting"

\* While no error is known, only a signal can have caused it.
QuietStirIsAsked == errs = {} /\ Stirring => told

\* How far the main goroutine is, and what of the rest has started or ended.
PhaseMatches ==
    /\ main \in {"run", "build"} =>
         repo = "none" /\ watch = "off" /\ \A l \in conf.listeners : srv[l] = "off"
    /\ main \in {"wait", "join", "close"} => repo = "open"
    /\ main = "close" => AllReported

GroupInv == TypeOK /\ PhaseMatches /\ RepoOutlivesListeners /\ QuietStirIsAsked /\ QuietEndsAreAsked

-----------------------------------------------------------------------------
LEMMA GroupInvInit == Init => GroupInv
<1> SUFFICES ASSUME Init PROVE GroupInv
  OBVIOUS
<1>1. /\ main \in {"run", "build"} /\ proc \in {"none", "running"}
      /\ waiter \in {"waiting", "gone"} /\ setup \in {"working", "gone"}
  BY DEF Init
<1>2. 0 \in 0 .. MaxActive
  BY ServerGroupAssumption DEF ServerGroupAssumption
<1>3. /\ srv \in [conf.listeners -> {"off", "serving", "reporting", "gone"}]
      /\ shut \in [conf.listeners -> {"waiting", "draining", "done"}]
      /\ active \in [conf.listeners -> 0 .. MaxActive]
  BY <1>2 DEF Init
<1>a. told \in BOOLEAN
  BY Zenon DEF Init
<1>b. main \in {"run", "build", "wait", "join", "close", "ended"}
  BY <1>1
<1>4. TypeOK
  BY <1>1, <1>3, <1>a, <1>b DEF Init, TypeOK
<1>5. PhaseMatches /\ RepoOutlivesListeners
  BY <1>1 DEF Init, PhaseMatches, RepoOutlivesListeners
<1>6. QuietStirIsAsked /\ QuietEndsAreAsked
  BY <1>1 DEF Init, QuietStirIsAsked, Stirring, QuietEndsAreAsked
<1> QED
  BY <1>4, <1>5, <1>6 DEF GroupInv

LEMMA TypeOKNext == TypeOK /\ [Next]_vars => TypeOK'
<1> SUFFICES ASSUME TypeOK, [Next]_vars PROVE TypeOK'
  OBVIOUS
<1> USE ServerGroupAssumption DEF ServerGroupAssumption, TypeOK, Running, Ends, upstream, servers
<1>1. CASE ProcessExits \/ ProcessKilled \/ WaiterReturns \/ SetupReturns \/ RunReturns
  <2>1. CASE ProcessExits \/ ProcessKilled
    BY <2>1 DEF ProcessExits, ProcessKilled
  <2>2. CASE WaiterReturns
    BY <2>2 DEF WaiterReturns
  <2>3. CASE SetupReturns
    BY <2>3 DEF SetupReturns
  <2>4. CASE RunReturns
    BY <2>4 DEF RunReturns
  <2> QED
    BY <1>1, <2>1, <2>2, <2>3, <2>4
<1>2. CASE Serve \/ StartFails \/ FirstReport \/ Joined \/ CloseRepo \/ Signal
  <2>1. CASE Serve
    BY <2>1 DEF Serve
  <2>2. CASE StartFails
    BY <2>2 DEF StartFails
  <2>3. CASE FirstReport
    BY <2>3 DEF FirstReport
  <2>4. CASE Joined \/ CloseRepo
    BY <2>4 DEF Joined, CloseRepo
  <2>5. CASE Signal
    <3>1. told' \in BOOLEAN
      BY <2>5, Zenon DEF Signal
    <3> QED
      BY <2>5, <3>1 DEF Signal
  <2> QED
    BY <1>2, <2>1, <2>2, <2>3, <2>4, <2>5
<1>3. ASSUME NEW l \in conf.listeners,
             ListenerFails(l) \/ ListenerCloses(l) \/ ListenerReports(l)
      PROVE  TypeOK'
  BY <1>3 DEF ListenerFails, ListenerCloses, ListenerReports, Capacity
<1>4. ASSUME NEW l \in conf.listeners, Shutdown(l) \/ Drained(l) \/ Accept(l) \/ Respond(l)
      PROVE  TypeOK'
  BY <1>4 DEF Shutdown, Drained, Accept, Respond
<1>5. CASE UpstreamReturns \/ UpstreamJudged \/ UpstreamReports
  BY <1>5 DEF UpstreamReturns, UpstreamJudged, UpstreamReports, Capacity
<1>6. CASE UNCHANGED vars
  BY <1>6 DEF vars
<1> QED
  BY <1>1, <1>2, <1>3, <1>4, <1>5, <1>6 DEF Next

\* The main goroutine waits for what it has started, and the store is closed last.
LEMMA PhaseNext ==
  TypeOK /\ PhaseMatches /\ RepoOutlivesListeners /\ [Next]_vars
    => PhaseMatches' /\ RepoOutlivesListeners'
<1> SUFFICES ASSUME TypeOK, PhaseMatches, RepoOutlivesListeners, [Next]_vars
             PROVE  PhaseMatches' /\ RepoOutlivesListeners'
  OBVIOUS
<1> USE DEF TypeOK, PhaseMatches, RepoOutlivesListeners, AllReported, Running, Ends, upstream,
            servers
<1>1. CASE ProcessExits \/ ProcessKilled \/ WaiterReturns \/ SetupReturns \/ RunReturns
  BY <1>1 DEF ProcessExits, ProcessKilled, WaiterReturns, SetupReturns, RunReturns
<1>2. CASE Serve \/ StartFails \/ FirstReport \/ Joined \/ CloseRepo \/ Signal
  BY <1>2 DEF Serve, StartFails, FirstReport, Joined, CloseRepo, Signal
<1>3. ASSUME NEW l \in conf.listeners,
             ListenerFails(l) \/ ListenerCloses(l) \/ ListenerReports(l)
      PROVE  PhaseMatches' /\ RepoOutlivesListeners'
  BY <1>3 DEF ListenerFails, ListenerCloses, ListenerReports
<1>4. ASSUME NEW l \in conf.listeners, Shutdown(l) \/ Drained(l) \/ Accept(l) \/ Respond(l)
      PROVE  PhaseMatches' /\ RepoOutlivesListeners'
  BY <1>4 DEF Shutdown, Drained, Accept, Respond
<1>5. CASE UpstreamReturns \/ UpstreamJudged \/ UpstreamReports
  BY <1>5 DEF UpstreamReturns, UpstreamJudged, UpstreamReports
<1>6. CASE UNCHANGED vars
  BY <1>6 DEF vars
<1> QED
  BY <1>1, <1>2, <1>3, <1>4, <1>5, <1>6 DEF Next

\* Nothing begins to stop by itself: whoever begins has kept its error.
LEMMA QuietNext ==
  TypeOK /\ QuietStirIsAsked /\ QuietEndsAreAsked /\ [Next]_vars
    => QuietStirIsAsked' /\ QuietEndsAreAsked'
<1> SUFFICES ASSUME TypeOK, QuietStirIsAsked, QuietEndsAreAsked, [Next]_vars
             PROVE  QuietStirIsAsked' /\ QuietEndsAreAsked'
  OBVIOUS
<1> USE DEF TypeOK, QuietStirIsAsked, Stirring, QuietEndsAreAsked, Running, Ends, upstream, servers
<1>1. CASE ProcessExits \/ ProcessKilled \/ WaiterReturns \/ SetupReturns \/ RunReturns
  BY <1>1 DEF ProcessExits, ProcessKilled, WaiterReturns, SetupReturns, RunReturns
<1>2. CASE Serve \/ StartFails \/ FirstReport \/ Joined \/ CloseRepo \/ Signal
  BY <1>2 DEF Serve, StartFails, FirstReport, Joined, CloseRepo, Signal
<1>3. ASSUME NEW l \in conf.listeners,
             ListenerFails(l) \/ ListenerCloses(l) \/ ListenerReports(l)
      PROVE  QuietStirIsAsked' /\ QuietEndsAreAsked'
  BY <1>3 DEF ListenerFails, ListenerCloses, ListenerReports
<1>4. ASSUME NEW l \in conf.listeners, Shutdown(l) \/ Drained(l) \/ Accept(l) \/ Respond(l)
      PROVE  QuietStirIsAsked' /\ QuietEndsAreAsked'
  BY <1>4 DEF Shutdown, Drained, Accept, Respond
<1>5. CASE UpstreamReturns \/ UpstreamJudged \/ UpstreamReports
  <2>1. CASE UpstreamReturns
    BY <2>1 DEF UpstreamReturns
  <2>2. CASE UpstreamJudged
    BY <2>2 DEF UpstreamJudged, Counts
  <2>3. CASE UpstreamReports
    BY <2>3 DEF UpstreamReports
  <2> QED
    BY <1>5, <2>1, <2>2, <2>3
<1>6. CASE UNCHANGED vars
  BY <1>6 DEF vars
<1> QED
  BY <1>1, <1>2, <1>3, <1>4, <1>5, <1>6 DEF Next

LEMMA GroupInvHolds == Spec => []GroupInv
<1>1. GroupInv /\ [Next]_vars => GroupInv'
  BY TypeOKNext, PhaseNext, QuietNext DEF GroupInv
<1> QED
  BY <1>1, GroupInvInit, PTL DEF Spec

-----------------------------------------------------------------------------
\* Every goroutine of serve, watchUpstream and ProxyBackend.Run is in a state the code can
\* have, and the exit channel holds no more than its buffer of three.
THEOREM GroupTypeCorrect == Spec => []TypeOK
<1>1. GroupInv => TypeOK
  BY DEF GroupInv
<1> QED
  BY <1>1, GroupInvHolds, PTL

\* Run closes the store only after wait has collected every listener and the watcher.
THEOREM RepoIsClosedLast == Spec => []RepoOutlivesListeners
<1>1. GroupInv => RepoOutlivesListeners
  BY DEF GroupInv
<1> QED
  BY <1>1, GroupInvHolds, PTL

\* Run returns nil only after a signal: every listener that fails, and an upstream that
\* fails while the context is live, keeps its error before it makes any other part stop.
THEOREM QuietEndAsked == Spec => []QuietEndsAreAsked
<1>1. GroupInv => QuietEndsAreAsked
  BY DEF GroupInv
<1> QED
  BY <1>1, GroupInvHolds, PTL
================================================================================
