------------------------------ MODULE ServerGroup ------------------------------
(***************************************************************************)
(* The life of the process: the upstream is started, the listeners serve,  *)
(* and the first part to stop, or a signal, stops the rest.  Every         *)
(* goroutine is a variable; a channel without a buffer is a joint step of  *)
(* its sender and its receiver.                                            *)
(***************************************************************************)
EXTENDS Naturals, FiniteSets

CONSTANTS
    Deployment, \* [upstream: "stdio" or "transparent", listeners: a set of listeners]
    MaxActive   \* bound: requests in flight at a listener

ASSUME ServerGroupAssumption ==
    /\ \A d \in Deployment : d.upstream \in {"stdio", "transparent"}
    /\ MaxActive \in Nat

VARIABLES
    conf,
    main,       \* the goroutine of Run
    ctx,        \* the context that a signal and stop() cancel
    proc,       \* the stdio upstream's process
    waiter,     \* ProxyBackend: waits for the process
    setup,      \* ProxyBackend: sets up the MCP client
    watch,      \* watchUpstream
    srv,        \* listener |-> its ListenAndServe goroutine
    shut,       \* listener |-> its Shutdown goroutine
    active,     \* listener |-> requests in flight
    exit,       \* messages in the exit channel
    errs,       \* the parts whose error wait() will return
    repo,       \* the store
    result,     \* how the process ended
    told        \* history: a signal was sent

vars == <<conf, main, ctx, proc, waiter, setup, watch, srv, shut, active, exit, errs, repo,
          result, told>>
upstream == <<proc, waiter, setup>>
servers == <<srv, shut, active>>

Listener == UNION {d.listeners : d \in Deployment}
Stdio == conf.upstream = "stdio"

\* Faulty variant of Capacity: the channel is made with too small a buffer.
CapacityTooSmall == 1

\* newServerGroup: two listeners and the upstream may report.
Capacity == 3

TypeOK ==
    /\ conf \in Deployment
    /\ main \in {"run", "build", "wait", "join", "close", "ended"}
    /\ ctx \in {"live", "cancelled"}
    /\ proc \in {"none", "running", "exit0", "exit1", "killed"}
    /\ waiter \in {"waiting", "sending", "gone"}
    /\ setup \in {"working", "ready", "failing", "gone"}
    /\ watch \in {"off", "waiting", "got", "reporting", "gone"}
    /\ srv \in [conf.listeners -> {"off", "serving", "reporting", "gone"}]
    /\ shut \in [conf.listeners -> {"waiting", "draining", "done"}]
    /\ active \in [conf.listeners -> 0 .. MaxActive]
    /\ exit \in 0 .. 3
    /\ errs \subseteq conf.listeners \cup {"upstream"}
    /\ repo \in {"none", "open", "closed"}
    /\ result \in {"none", "ok", "error", "killed"}
    /\ told \in BOOLEAN

Init ==
    /\ conf \in Deployment
    /\ ctx = "live" /\ exit = 0 /\ errs = {} /\ repo = "none" /\ result = "none" /\ told = FALSE
    /\ watch = "off"
    /\ srv = [l \in conf.listeners |-> "off"]
    /\ shut = [l \in conf.listeners |-> "waiting"]
    /\ active = [l \in conf.listeners |-> 0]
    /\ IF Stdio
       THEN main = "run" /\ proc = "running" /\ waiter = "waiting" /\ setup = "working"
       ELSE main = "build" /\ proc = "none" /\ waiter = "gone" /\ setup = "gone"

Running == main # "ended"
Ends(how) == main' = "ended" /\ result' = how

-----------------------------------------------------------------------------
(* The stdio upstream: its process, and the goroutines of ProxyBackend.Run. *)

\* The command ends by itself, with status 0 or another.
ProcessExits ==
    /\ Running /\ proc = "running"
    /\ proc' \in {"exit0", "exit1"}
    /\ UNCHANGED <<conf, main, ctx, waiter, setup, watch, servers, exit, errs, repo, result, told>>

\* exec.CommandContext kills it when the context is cancelled.
ProcessKilled ==
    /\ Running /\ proc = "running" /\ ctx = "cancelled"
    /\ proc' = "killed"
    /\ UNCHANGED <<conf, main, ctx, waiter, setup, watch, servers, exit, errs, repo, result, told>>

\* execCmd.Wait: only an error is sent.
WaiterReturns ==
    /\ Running /\ waiter = "waiting" /\ proc # "running"
    /\ waiter' = IF proc = "exit0" THEN "gone" ELSE "sending"
    /\ UNCHANGED <<conf, main, ctx, proc, setup, watch, servers, exit, errs, repo, result, told>>

\* setupProxy succeeds while the process answers, and may fail at any time.
SetupReturns ==
    /\ Running /\ setup = "working"
    /\ \/ proc = "running" /\ setup' = "ready"
       \/ setup' = "failing"
    /\ UNCHANGED <<conf, main, ctx, proc, waiter, watch, servers, exit, errs, repo, result, told>>

\* The select of Run takes whichever sender is there.
RunReturns ==
    /\ main = "run"
    /\ \/ /\ waiter = "sending" /\ waiter' = "gone" /\ Ends("error") /\ UNCHANGED setup
       \/ /\ setup = "failing" /\ setup' = "gone" /\ Ends("error") /\ UNCHANGED waiter
       \/ /\ setup = "ready" /\ setup' = "gone" /\ main' = "build" /\ UNCHANGED <<waiter, result>>
    /\ UNCHANGED <<conf, ctx, proc, watch, servers, exit, errs, repo, told>>

-----------------------------------------------------------------------------
(* The main goroutine.                                                     *)

\* openDependencies, buildRouter, and the goroutines of the group, or a failed start, which
\* closes what it has opened.
Serve ==
    /\ main = "build"
    /\ main' = "wait" /\ repo' = "open"
    /\ srv' = [l \in conf.listeners |-> "serving"]
    /\ watch' = "waiting"
    /\ UNCHANGED <<conf, ctx, upstream, shut, active, exit, errs, result, told>>

StartFails ==
    /\ main = "build"
    /\ Ends("error") /\ repo' = "closed"
    /\ UNCHANGED <<conf, ctx, upstream, watch, servers, exit, errs, told>>

\* wait: the first report cancels the rest ...
FirstReport ==
    /\ main = "wait" /\ exit > 0
    /\ exit' = exit - 1 /\ ctx' = "cancelled" /\ main' = "join"
    /\ UNCHANGED <<conf, upstream, watch, servers, errs, repo, result, told>>

\* Faulty variant of AllReported: the first report is taken for all.
AllReportedOne == TRUE

\* ... and the WaitGroup waits for the listeners and the watcher, not for Shutdown.
AllReported == watch = "gone" /\ \A l \in conf.listeners : srv[l] = "gone"

Joined ==
    /\ main = "join" /\ AllReported
    /\ main' = "close"
    /\ UNCHANGED <<conf, ctx, upstream, watch, servers, exit, errs, repo, result, told>>

\* Run's deferred Close; the process ends with it, whatever still runs.
CloseRepo ==
    /\ main = "close"
    /\ repo' = "closed" /\ Ends(IF errs = {} THEN "ok" ELSE "error")
    /\ UNCHANGED <<conf, ctx, upstream, watch, servers, exit, errs, told>>

\* SIGINT cancels the context.  Once stop() has run, SIGINT ends the process at once, as
\* SIGTERM, which is never caught, always does.
Signal ==
    /\ Running /\ told' = TRUE
    /\ \/ Ends("killed") /\ UNCHANGED ctx
       \/ main \notin {"join", "close"} /\ ctx' = "cancelled" /\ UNCHANGED <<main, result>>
    /\ UNCHANGED <<conf, upstream, watch, servers, exit, errs, repo>>

-----------------------------------------------------------------------------
(* The listeners.                                                          *)

\* A listener cannot bind, or its Accept fails.
ListenerFails(l) ==
    /\ Running /\ srv[l] = "serving"
    /\ srv' = [srv EXCEPT ![l] = "reporting"]
    /\ errs' = errs \cup {l}
    /\ UNCHANGED <<conf, main, ctx, upstream, watch, shut, active, exit, repo, result, told>>

\* ListenAndServe returns ErrServerClosed as soon as Shutdown begins.
ListenerCloses(l) ==
    /\ Running /\ srv[l] = "serving" /\ shut[l] # "waiting"
    /\ srv' = [srv EXCEPT ![l] = "reporting"]
    /\ UNCHANGED <<conf, main, ctx, upstream, watch, shut, active, exit, errs, repo, result, told>>

ListenerReports(l) ==
    /\ Running /\ srv[l] = "reporting" /\ exit < Capacity
    /\ exit' = exit + 1
    /\ srv' = [srv EXCEPT ![l] = "gone"]
    /\ UNCHANGED <<conf, main, ctx, upstream, watch, shut, active, errs, repo, result, told>>

Shutdown(l) ==
    /\ Running /\ srv[l] # "off" /\ shut[l] = "waiting" /\ ctx = "cancelled"
    /\ shut' = [shut EXCEPT ![l] = "draining"]
    /\ UNCHANGED <<conf, main, ctx, upstream, watch, srv, active, exit, errs, repo, result, told>>

\* The requests are done, or ServerShutdownTimeout has passed.
Drained(l) ==
    /\ Running /\ shut[l] = "draining"
    /\ shut' = [shut EXCEPT ![l] = "done"]
    /\ UNCHANGED <<conf, main, ctx, upstream, watch, srv, active, exit, errs, repo, result, told>>

Accept(l) ==
    /\ Running /\ srv[l] = "serving" /\ shut[l] = "waiting" /\ active[l] < MaxActive
    /\ active' = [active EXCEPT ![l] = @ + 1]
    /\ UNCHANGED <<conf, main, ctx, upstream, watch, srv, shut, exit, errs, repo, result, told>>

Respond(l) ==
    /\ Running /\ active[l] > 0
    /\ active' = [active EXCEPT ![l] = @ - 1]
    /\ UNCHANGED <<conf, main, ctx, upstream, watch, srv, shut, exit, errs, repo, result, told>>

-----------------------------------------------------------------------------
(* watchUpstream.                                                          *)

\* Wait of the stdio backend receives the waiter's error; the transparent one waits for ctx.
UpstreamReturns ==
    /\ Running /\ watch = "waiting"
    /\ IF Stdio
       THEN waiter = "sending" /\ waiter' = "gone" /\ watch' = "got"
       ELSE ctx = "cancelled" /\ watch' = "reporting" /\ UNCHANGED waiter
    /\ UNCHANGED <<conf, main, ctx, proc, setup, servers, exit, errs, repo, result, told>>

\* Faulty variant of Counts: the error of the upstream is not kept.
CountsNever == FALSE

\* The error of an upstream that was killed is none.
Counts == ctx # "cancelled"

UpstreamJudged ==
    /\ Running /\ watch = "got"
    /\ watch' = "reporting"
    /\ errs' = IF Counts THEN errs \cup {"upstream"} ELSE errs
    /\ UNCHANGED <<conf, main, ctx, upstream, servers, exit, repo, result, told>>

UpstreamReports ==
    /\ Running /\ watch = "reporting" /\ exit < Capacity
    /\ exit' = exit + 1 /\ watch' = "gone"
    /\ UNCHANGED <<conf, main, ctx, upstream, servers, errs, repo, result, told>>

-----------------------------------------------------------------------------
Next ==
    \/ ProcessExits \/ ProcessKilled \/ WaiterReturns \/ SetupReturns \/ RunReturns
    \/ Serve \/ StartFails \/ FirstReport \/ Joined \/ CloseRepo \/ Signal
    \/ \E l \in conf.listeners :
         \/ ListenerFails(l) \/ ListenerCloses(l) \/ ListenerReports(l)
         \/ Shutdown(l) \/ Drained(l) \/ Accept(l) \/ Respond(l)
    \/ UpstreamReturns \/ UpstreamJudged \/ UpstreamReports

Spec == Init /\ [][Next]_vars

\* The runtime runs every goroutine that can run.  Nothing is assumed of the signals, the
\* requests, the upstream's answers, or of a process that ends or a listener that fails.
Fairness ==
    /\ WF_vars(ProcessKilled) /\ WF_vars(WaiterReturns) /\ WF_vars(RunReturns)
    /\ WF_vars(Serve) /\ WF_vars(FirstReport) /\ WF_vars(Joined) /\ WF_vars(CloseRepo)
    /\ WF_vars(UpstreamReturns) /\ WF_vars(UpstreamJudged) /\ WF_vars(UpstreamReports)
    /\ \A l \in Listener :
         /\ WF_vars(l \in conf.listeners /\ ListenerCloses(l))
         /\ WF_vars(l \in conf.listeners /\ ListenerReports(l))
         /\ WF_vars(l \in conf.listeners /\ Shutdown(l))

FairSpec == Spec /\ Fairness

-----------------------------------------------------------------------------
(* Properties.                                                             *)

\* The store is closed only when no listener accepts any more and nothing waits for the
\* upstream (wait, the deferred Close).
RepoOutlivesListeners ==
    main = "ended" /\ repo = "closed" =>
        watch \in {"off", "gone"} /\ \A l \in conf.listeners : srv[l] \in {"off", "gone"}

\* A gateway that ends without an error was told to: the error of the part that stopped
\* first is never lost among those of the parts it stops (fail, watchUpstream, wait).
QuietEndsAreAsked == result = "ok" => told

\* Once the gateway is told to stop, or a part fails, it ends, whichever goroutine reports
\* first and whoever still has something to send, unless the upstream had ended with status 0.
StopsOnceStopping ==
    (ctx = "cancelled" \/ errs # {}) ~> (main = "ended" \/ proc = "exit0")

\* The comment of watchUpstream: it "ends the process when the upstream backend does".
UpstreamExitEndsGateway ==
    (main = "wait" /\ proc \in {"exit0", "exit1"}) ~> main = "ended"

\* The comment in serve: Shutdown drains the requests in flight.
RequestsAreDrained ==
    result = "ok" => \A l \in conf.listeners : shut[l] = "done" \/ active[l] = 0
================================================================================
