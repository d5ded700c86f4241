------------------------------ MODULE Lifecycle -------------------------------
(* The life of a process of the service: cmd/easyp-svc/start.go and             *)
(* internal/serve.  run brings the parts up one after the other, each of which  *)
(* may fail, and defers what takes them down; serveApp runs the servers and the *)
(* partition maintainer in an errgroup; a signal ends the context of all; a     *)
(* watchdog ends the process if that takes too long.                            *)
(* Requests are those of gRPC and MCP clients, scrapes of the metrics and       *)
(* probes of the health server.  Pool, audit writer and stores are modelled     *)
(* apart: here they are open or closed, and a Shutdown of theirs that times out *)
(* has closed them too.                                                         *)
EXTENDS Naturals, Sequences, SequencesExt

CONSTANTS
    Requests,           \* bound: the requests of one life
    McpEnabled          \* mcp.enabled

ASSUME LifecycleAssumption == McpEnabled \in BOOLEAN

Servers == {"grpc", "metrics"} \union (IF McpEnabled THEN {"mcp"} ELSE {})
Services == Servers \union {"maintainer"}

VARIABLES
    main,               \* where run is
    cleanups,           \* what run has deferred, the last on top
    failed,             \* run is going to return an error
    signalled,          \* the context of the process is over
    exit,               \* how the process has ended
    stores, audit, pool,    \* database with object storage; audit writer; pool
    ready,              \* readiness has the health check
    health,             \* the health server
    svc,                \* the services of serve.Start
    req, on             \* the state of a request, and the server it is at

vars == <<main, cleanups, failed, signalled, exit, stores, audit, pool, ready, health, svc,
          req, on>>
parts == <<stores, audit, pool>>
serving == <<health, svc>>
requests == <<req, on>>

MainState == {"telemetry", "health", "stores", "audit", "creds", "pool", "check", "serve",
              "serving", "waitHealth", "stopHealth", "unwinding", "returned"}
PartState == {"off", "open", "closed"}
\* orphaned: Accept has failed and Serve has returned, but the connections that
\* were accepted before are still served.
ServiceState == {"off", "starting", "up", "working", "stopping", "orphaned", "failed", "done"}
Returned == {"orphaned", "failed", "done"}
Broken == {s \in Services : svc[s] \in {"orphaned", "failed"}}

\* Mutants: the group of another context; a plain errgroup, which no error ends.
GroupOverOnError == Broken # {}
GroupOverOnSignal == signalled

\* errgroup.WithContext: over with the context of the process or the first error.
GroupOver == signalled \/ Broken # {}

Running == exit = "no"

Init ==
    /\ main = "telemetry"
    /\ cleanups = <<>>
    /\ failed = FALSE
    /\ signalled = FALSE
    /\ exit = "no"
    /\ stores = "off" /\ audit = "off" /\ pool = "off"
    /\ ready = FALSE
    /\ health = "off"
    /\ svc = [s \in Services |-> "off"]
    /\ req = [r \in Requests |-> "new"]
    /\ on = [r \in Requests |-> "none"]

-------------------------------------------------------------------------------
(* run: coming up *)

At(place) == Running /\ main = place
Defer(what) == cleanups' = Append(cleanups, what)

\* An early return: the deferred functions are all that is left.
Fail ==
    /\ main' = "unwinding"
    /\ failed' = TRUE

\* initObservability: the service goes on without telemetry if it has to.
StartTelemetry ==
    /\ At("telemetry")
    /\ main' = "health"
    /\ Defer("telemetry") \/ UNCHANGED cleanups
    /\ UNCHANGED <<failed, signalled, exit, parts, ready, serving, requests>>

\* startHealthServer: the listener is bound here, so its failure is seen here.
StartHealth ==
    /\ At("health")
    /\ \/ health' = "up" /\ main' = "stores" /\ UNCHANGED failed
       \/ Fail /\ UNCHANGED health
    /\ UNCHANGED <<cleanups, signalled, exit, parts, ready, svc, requests>>

\* initInfrastructure: migrations, database, object storage, registry.  Whatever
\* fails after the database was opened leaves it open.
OpenStores ==
    /\ At("stores")
    /\ \/ stores' = "open" /\ Defer("stores") /\ main' = "audit" /\ UNCHANGED failed
       \/ Fail /\ stores' \in {"off", "open"} /\ UNCHANGED cleanups
    /\ UNCHANGED <<signalled, exit, audit, pool, ready, serving, requests>>

\* initAudit starts the writer.
StartAudit ==
    /\ At("audit")
    /\ audit' = "open"
    /\ Defer("audit")
    /\ main' = "creds"
    /\ UNCHANGED <<failed, signalled, exit, stores, pool, ready, serving, requests>>

\* BuildServerCreds and buildLicenseClient.
LoadCredentials ==
    /\ At("creds")
    /\ (main' = "pool" /\ UNCHANGED failed) \/ Fail
    /\ UNCHANGED <<cleanups, signalled, exit, parts, ready, serving, requests>>

\* A mutant: the pool is started and its Shutdown deferred only later.
StartPoolOnly ==
    /\ At("pool")
    /\ pool' = "open"
    /\ main' = "check"
    /\ UNCHANGED <<cleanups, failed, signalled, exit, stores, audit, ready, serving, requests>>

\* initApp starts the workers.
StartPool ==
    /\ At("pool")
    /\ pool' = "open"
    /\ Defer("pool")
    /\ main' = "check"
    /\ UNCHANGED <<failed, signalled, exit, stores, audit, ready, serving, requests>>

\* initHealthCheck: from here on readiness is that of the database.
CheckHealth ==
    /\ At("check")
    /\ \/ ready' = TRUE /\ main' = "serve" /\ UNCHANGED failed
       \/ Fail /\ UNCHANGED ready
    /\ UNCHANGED <<cleanups, signalled, exit, parts, serving, requests>>

\* serveApp hands all services to serve.Start, or refuses a port.
Serve ==
    /\ At("serve")
    /\ \/ /\ svc' = [s \in Services |-> "starting"]
          /\ main' = "serving"
          /\ UNCHANGED failed
       \/ main' = "waitHealth" /\ failed' = TRUE /\ UNCHANGED svc
    /\ UNCHANGED <<cleanups, signalled, exit, parts, ready, health, requests>>

-------------------------------------------------------------------------------
(* The services *)

Become(s, from, to) ==
    /\ Running /\ svc[s] = from
    /\ svc' = [svc EXCEPT ![s] = to]
    /\ UNCHANGED <<main, cleanups, failed, signalled, exit, parts, ready, health, requests>>

\* net.Listen and Serve, ListenAndServe.
Listen(s) == Become(s, "starting", "up") /\ s \in Servers
ListenFails(s) == Become(s, "starting", "failed") /\ s \in Servers
AcceptFails(s) == Become(s, "up", "orphaned") /\ s \in Servers

\* GracefulStop, and Shutdown of a context without an end: no new requests, and
\* those that are there are waited for.
BeginStop(s) == Become(s, "up", "stopping") /\ s \in Servers /\ GroupOver

InFlight(s) == {r \in Requests : req[r] = "running" /\ on[r] = s}

Stop(s) == Become(s, "stopping", "done") /\ InFlight(s) = {}

\* Maintainer.Run: a pass at once, then one by one until the context is over.
BeginPass(s) == (Become(s, "starting", "working") \/ Become(s, "up", "working")) /\ s = "maintainer"
EndPass(s) == Become(s, "working", "up")
EndMaintenance(s) == Become(s, "up", "done") /\ s = "maintainer" /\ GroupOver

\* A request reaches a server that listens, or one that keeps a connection.
Arrive(r, s) ==
    /\ Running /\ req[r] = "new"
    /\ \/ s \in Servers /\ svc[s] \in {"up", "orphaned"}
       \/ s = "health" /\ health = "up"
    /\ req' = [req EXCEPT ![r] = "running"]
    /\ on' = [on EXCEPT ![r] = s]
    /\ UNCHANGED <<main, cleanups, failed, signalled, exit, parts, ready, serving>>

Answer(r) ==
    /\ Running /\ req[r] = "running"
    /\ req' = [req EXCEPT ![r] = "done"]
    /\ UNCHANGED <<main, cleanups, failed, signalled, exit, parts, ready, serving, on>>

-------------------------------------------------------------------------------
(* run: going down *)

\* A mutant: the first service that returns is enough.
AnyReturned ==
    /\ At("serving") /\ \E s \in Services : svc[s] \in Returned
    /\ main' = "waitHealth"
    /\ failed' = (Broken # {})
    /\ UNCHANGED <<cleanups, signalled, exit, parts, ready, serving, requests>>

\* group.Wait.
AllReturned ==
    /\ At("serving") /\ \A s \in Services : svc[s] \in Returned
    /\ main' = "waitHealth"
    /\ failed' = (Broken # {})
    /\ UNCHANGED <<cleanups, signalled, exit, parts, ready, serving, requests>>

\* waitHealth waits for the context of the process, not for that of the group.
WaitHealth ==
    /\ At("waitHealth") /\ signalled
    /\ health' = "stopping"
    /\ main' = "stopHealth"
    /\ UNCHANGED <<cleanups, failed, signalled, exit, parts, ready, svc, requests>>

StopHealth ==
    /\ At("stopHealth") /\ InFlight("health") = {}
    /\ health' = "done"
    /\ main' = "unwinding"
    /\ UNCHANGED <<cleanups, failed, signalled, exit, parts, ready, svc, requests>>

\* One deferred function: Shutdown of the pool, Shutdown of the audit writer,
\* Close of the database, the end of telemetry.
Cleanup ==
    /\ At("unwinding") /\ cleanups # <<>>
    /\ LET what == Last(cleanups)
       IN  /\ pool' = IF what = "pool" THEN "closed" ELSE pool
           /\ audit' = IF what = "audit" THEN "closed" ELSE audit
           /\ stores' = IF what = "stores" THEN "closed" ELSE stores
    /\ cleanups' = Front(cleanups)
    /\ UNCHANGED <<main, failed, signalled, exit, ready, serving, requests>>

\* run returns, and main with it.
Return ==
    /\ At("unwinding") /\ cleanups = <<>>
    /\ main' = "returned"
    /\ exit' = IF failed THEN "error" ELSE "clean"
    /\ UNCHANGED <<cleanups, failed, signalled, parts, ready, serving, requests>>

-------------------------------------------------------------------------------
Signal ==
    /\ Running /\ ~signalled
    /\ signalled' = TRUE
    /\ UNCHANGED <<main, cleanups, failed, exit, parts, ready, serving, requests>>

\* forceShutdown, ForceShutdownAfter later.
ForceShutdown ==
    /\ Running /\ signalled
    /\ exit' = "forced"
    /\ UNCHANGED <<main, cleanups, failed, signalled, parts, ready, serving, requests>>

Over == ~Running /\ UNCHANGED vars

ComeUp ==
    \/ StartTelemetry \/ StartHealth \/ OpenStores \/ StartAudit \/ LoadCredentials
    \/ StartPool \/ CheckHealth \/ Serve
GoDown == AllReturned \/ WaitHealth \/ StopHealth \/ Cleanup \/ Return

ServiceStep(s) ==
    \/ Listen(s) \/ ListenFails(s) \/ BeginStop(s) \/ Stop(s)
    \/ BeginPass(s) \/ EndPass(s)

Next ==
    \/ ComeUp \/ GoDown
    \/ \E s \in Services : ServiceStep(s) \/ EndMaintenance(s) \/ AcceptFails(s)
    \/ \E r \in Requests : Answer(r) \/ \E s \in Servers \union {"health"} : Arrive(r, s)
    \/ Signal \/ ForceShutdown
    \/ Over

Spec == Init /\ [][Next]_vars

\* The goroutines of the process are scheduled, and what it calls while it comes
\* up comes back.  Nobody has to send a signal; the watchdog need not fire.  A
\* ticker and a context that are both ready are chosen between at random, so the
\* maintainer comes to see that its context is over.
FairSpec ==
    /\ Spec
    /\ WF_vars(ComeUp) /\ WF_vars(GoDown)
    /\ \A s \in Services : WF_vars(ServiceStep(s)) /\ SF_vars(EndMaintenance(s))

\* Requests end: generations have a time-out, lookups, scrapes and probes are short.
\* The stream that an MCP client may keep open is the exception (see the end).
RequestsEnd == \A r \in Requests : WF_vars(Answer(r))

-------------------------------------------------------------------------------
(* Properties *)

TypeOK ==
    /\ main \in MainState
    /\ cleanups \in Seq({"telemetry", "stores", "audit", "pool"})
    /\ failed \in BOOLEAN /\ signalled \in BOOLEAN /\ ready \in BOOLEAN
    /\ exit \in {"no", "clean", "error", "forced"}
    /\ stores \in PartState /\ audit \in PartState /\ pool \in PartState
    /\ health \in ServiceState
    /\ svc \in [Services -> ServiceState]
    /\ req \in [Requests -> {"new", "running", "done"}]
    /\ on \in [Requests -> Servers \union {"health", "none"}]

Pending(what) == \E i \in DOMAIN cleanups : cleanups[i] = what

\* The places of run before a part is opened, and those between that and the
\* return; before all of them run has not come to the part's opening.
BeforeStores == {"telemetry", "health", "stores"}
BeforeAudit == BeforeStores \union {"audit"}
BeforePool == BeforeAudit \union {"creds", "pool"}
Ending == {"unwinding", "returned"}

\* What run has come to is open and its closing is deferred, once; what has been
\* opened and is not deferred is the database of a failed start.
PartsFollowMain ==
    /\ main \in BeforeStores => stores = "off"
    /\ main \in BeforeAudit => audit = "off"
    /\ main \in BeforePool => pool = "off"
    /\ main \notin BeforeStores \union Ending => Pending("stores")
    /\ main \notin BeforeAudit \union Ending => Pending("audit")
    /\ main \notin BeforePool \union Ending => Pending("pool")
    /\ Pending("stores") => stores = "open"
    /\ Pending("audit") <=> audit = "open"
    /\ Pending("pool") <=> pool = "open"
    /\ stores = "open" => Pending("stores") \/ audit = "off"
    /\ main = "returned" => cleanups = <<>>
    /\ main = "telemetry" => cleanups = <<>>
    /\ \A i, j \in DOMAIN cleanups : cleanups[i] = cleanups[j] => i = j

\* Services run only while run waits for them, and readiness is asked for only
\* as long as the health server is there.
ServicesFollowMain ==
    /\ main \in BeforePool \union {"check", "serve"} => \A s \in Services : svc[s] = "off"
    /\ main # "serving" => \A s \in Services : svc[s] \in Returned \union {"off"}
    /\ main \in BeforePool \union {"check"} => ready = FALSE
    /\ main \in Ending /\ ready => health = "done"
    /\ exit \in {"clean", "error"} => main = "returned"

\* A request that runs is at a server that waits for it or has been lost.
RequestsHaveServers ==
    \A r \in Requests : req[r] = "running" =>
        /\ on[r] \in Servers => svc[on[r]] \in {"up", "stopping", "orphaned"}
        /\ on[r] = "health" => health \in {"up", "stopping"}

IInv == TypeOK /\ PartsFollowMain /\ ServicesFollowMain /\ RequestsHaveServers

\* "guaranteed to have stopped before run() closes the DB pool" (serveApp): no pass
\* of the maintainer, no probe and no request of a server that stops as it should
\* finds the database, the audit writer or the pool closed.
NothingMeetsAClosedPart ==
    /\ svc["maintainer"] = "working" => stores = "open"
    /\ \A r \in Requests : req[r] = "running" =>
          /\ on[r] = "health" /\ ready => stores = "open"
          /\ on[r] \in Servers /\ svc[on[r]] # "orphaned" =>
                stores = "open" /\ audit = "open" /\ pool = "open"

\* However far it came, a process that returns has shut down what it had started,
\* but for a database whose initInfrastructure failed.
NothingLeftBehind ==
    exit \in {"clean", "error"} =>
        pool # "open" /\ audit # "open" /\ (stores = "open" => audit = "off")

\* After a signal the process ends by itself, without the watchdog, if requests do.
GracefulStop == RequestsEnd => (signalled ~> exit # "no")

\* "until either ctx.Done or any service exits, then it cancels and waits" (Start):
\* the failure of one service ends all.
FailureStopsServing ==
    RequestsEnd =>
        (Broken # {} ~> exit # "no" \/ \A s \in Services : svc[s] \in Returned)

\* "The first non-nil error tears down the whole process" (Maintainer.Run).
FailureEndsProcess == RequestsEnd => (Broken # {} ~> exit # "no")

-------------------------------------------------------------------------------
\* Not kept by the code.  No run checks these: as an invariant or a property of a
\* configuration, each is refuted at once (README, section 6).

\* "While the rest drain, an unready answer is what takes this pod out of load
\* balancing" (run): once the context is over, readiness is denied.
DrainingIsUnready ==
    main = "serving" /\ signalled /\ health = "up" => ~(ready /\ stores = "open")

\* "It runs until failed or ctx.Done" (HTTP): a signal ends the process although
\* an MCP client keeps its stream, for which Shutdown waits without a limit.
OtherRequestsEnd == \A r \in Requests : WF_vars(Answer(r) /\ on[r] # "mcp")
GracefulStopWithStreams == OtherRequestsEnd => (signalled ~> exit # "no")

\* A server that has failed leaves no request behind for the parts that close.
NoRequestOutlivesThePool == pool = "closed" => \A s \in Servers : InFlight(s) = {}
===============================================================================
