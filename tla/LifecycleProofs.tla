--------------------------- MODULE LifecycleProofs ----------------------------
(* Proofs about Lifecycle, for every set of requests, with and without the MCP  *)
(* endpoint: nothing that is served meets a part that has been closed, and a    *)
(* process that returns leaves nothing open that it had started; and about      *)
(* Settings, for every set of topics: what load has resolved of any file and    *)
(* any environment, and what the commands do with it.                           *)
EXTENDS Lifecycle, Settings, SequenceTheorems, TLAPS

Deferrable == {"telemetry", "stores", "audit", "pool"}

-------------------------------------------------------------------------------
(* What Append and Front do to the stack of deferred functions. *)

LEMMA Popped ==
    ASSUME NEW S, NEW s \in Seq(S), s # <<>>
    PROVE  /\ Front(s) \in Seq(S)
           /\ DOMAIN Front(s) = 1 .. Len(s) - 1
           /\ \A i \in 1 .. Len(s) - 1 : Front(s)[i] = s[i]
           /\ Last(s) = s[Len(s)] /\ Len(s) \in DOMAIN s /\ Len(s) \in Nat
           /\ DOMAIN s = 1 .. Len(s)
<1>1. /\ Len(s) \in Nat /\ Len(s) >= 1 /\ DOMAIN s = 1 .. Len(s)
      /\ \A i \in 1 .. Len(s) : s[i] \in S
  OBVIOUS
<1>2. Front(s) = [i \in 1 .. Len(s) - 1 |-> s[i]]
  BY <1>1 DEF Front
<1>3. Last(s) = s[Len(s)]
  BY DEF Last
<1>4. Front(s) \in Seq(S)
  BY <1>1, <1>2
<1> QED
  BY <1>1, <1>2, <1>3, <1>4

Once == \A i, j \in DOMAIN cleanups : cleanups[i] = cleanups[j] => i = j

LEMMA Deferring ==
    ASSUME cleanups \in Seq(Deferrable), NEW x \in Deferrable, Defer(x), Once, ~Pending(x)
    PROVE  /\ cleanups' \in Seq(Deferrable)
           /\ \A what : Pending(what)' <=> Pending(what) \/ what = x
           /\ Once'
<1>1. /\ cleanups' \in Seq(Deferrable)
      /\ Len(cleanups) \in Nat
      /\ DOMAIN cleanups = 1 .. Len(cleanups)
      /\ DOMAIN cleanups' = 1 .. Len(cleanups) + 1
      /\ \A i \in 1 .. Len(cleanups) : cleanups'[i] = cleanups[i]
      /\ cleanups'[Len(cleanups) + 1] = x
  BY DEF Defer
<1>2. \A what : Pending(what)' <=> Pending(what) \/ what = x
  BY <1>1 DEF Pending
<1>3. Once'
  BY <1>1 DEF Once, Pending
<1> QED
  BY <1>1, <1>2, <1>3

LEMMA Popping ==
    ASSUME cleanups \in Seq(Deferrable), cleanups # <<>>, cleanups' = Front(cleanups), Once
    PROVE  /\ cleanups' \in Seq(Deferrable)
           /\ Pending(Last(cleanups))
           /\ \A what : Pending(what)' <=> Pending(what) /\ what # Last(cleanups)
           /\ Once'
<1>1. /\ cleanups' \in Seq(Deferrable)
      /\ Len(cleanups) \in Nat /\ Len(cleanups) \in DOMAIN cleanups
      /\ DOMAIN cleanups = 1 .. Len(cleanups)
      /\ DOMAIN cleanups' = 1 .. Len(cleanups) - 1
      /\ \A i \in 1 .. Len(cleanups) - 1 : cleanups'[i] = cleanups[i]
      /\ cleanups[Len(cleanups)] = Last(cleanups)
  BY Popped
<1>2. Pending(Last(cleanups))
  BY <1>1 DEF Pending
<1>3. \A what : Pending(what)' <=> Pending(what) /\ what # Last(cleanups)
  BY <1>1 DEF Pending, Once
<1>4. Once'
  BY <1>1 DEF Once
<1> QED
  BY <1>1, <1>2, <1>3, <1>4

-------------------------------------------------------------------------------
(* The steps of a service, in one form. *)

LEMMA ServiceNames ==
    /\ Servers \subseteq {"grpc", "metrics", "mcp"}
    /\ Services = Servers \union {"maintainer"}
BY LifecycleAssumption DEF Servers, Services

Live == {"starting", "up", "working", "stopping"}

LEMMA ServiceMoves ==
    ASSUME NEW s \in Services, ServiceStep(s) \/ EndMaintenance(s) \/ AcceptFails(s)
    PROVE  \E from \in Live, to \in ServiceState \ {"off", "starting"} :
              /\ Become(s, from, to)
              /\ \/ from \in {"starting", "working"}
                 \/ to \in {"up", "stopping", "orphaned"}
                 \/ s = "maintainer"
                 \/ InFlight(s) = {}
<1> USE DEF Live, ServiceState
<1>1. CASE Listen(s)
  BY <1>1 DEF Listen
<1>2. CASE ListenFails(s)
  BY <1>2 DEF ListenFails
<1>3. CASE AcceptFails(s)
  BY <1>3 DEF AcceptFails
<1>4. CASE BeginStop(s)
  BY <1>4 DEF BeginStop
<1>5. CASE Stop(s)
  BY <1>5 DEF Stop
<1>6. CASE BeginPass(s)
  BY <1>6 DEF BeginPass
<1>7. CASE EndPass(s)
  BY <1>7 DEF EndPass
<1>8. CASE EndMaintenance(s)
  BY <1>8 DEF EndMaintenance
<1> QED
  BY <1>1, <1>2, <1>3, <1>4, <1>5, <1>6, <1>7, <1>8 DEF ServiceStep

-------------------------------------------------------------------------------
(* Type correctness. *)

LEMMA TypeInit == Init => TypeOK
<1> SUFFICES ASSUME Init PROVE TypeOK
  OBVIOUS
<1>1. failed \in BOOLEAN /\ signalled \in BOOLEAN /\ ready \in BOOLEAN
  BY Zenon DEF Init
<1>2. cleanups \in Seq({"telemetry", "stores", "audit", "pool"})
  BY DEF Init
<1> QED
  BY <1>1, <1>2, SMT DEF Init, TypeOK, MainState, PartState, ServiceState

LEMMA TypeStep == TypeOK /\ [Next]_vars => TypeOK'
<1> SUFFICES ASSUME TypeOK, [Next]_vars PROVE TypeOK'
  OBVIOUS
<1> USE DEF TypeOK, MainState, PartState, ServiceState, vars, parts, serving, requests
<1>1. CASE StartTelemetry
  BY <1>1 DEF StartTelemetry, Defer, At
<1>2. CASE StartHealth
  <2>1. failed' \in BOOLEAN /\ signalled' \in BOOLEAN /\ ready' \in BOOLEAN
    BY <1>2, Zenon DEF StartHealth, Fail, At
  <2> QED
    BY <1>2, <2>1 DEF StartHealth, Fail, At
<1>3. CASE OpenStores
  <2>1. failed' \in BOOLEAN /\ signalled' \in BOOLEAN /\ ready' \in BOOLEAN
    BY <1>3, Zenon DEF OpenStores, Defer, Fail, At
  <2> QED
    BY <1>3, <2>1 DEF OpenStores, Defer, Fail, At
<1>4. CASE StartAudit
  BY <1>4 DEF StartAudit, Defer, At
<1>5. CASE LoadCredentials
  <2>1. failed' \in BOOLEAN /\ signalled' \in BOOLEAN /\ ready' \in BOOLEAN
    BY <1>5, Zenon DEF LoadCredentials, Fail, At
  <2> QED
    BY <1>5, <2>1 DEF LoadCredentials, Fail, At
<1>6. CASE StartPool
  BY <1>6 DEF StartPool, Defer, At
<1>7. CASE CheckHealth
  <2>1. failed' \in BOOLEAN /\ signalled' \in BOOLEAN /\ ready' \in BOOLEAN
    BY <1>7, Zenon DEF CheckHealth, Fail, At
  <2> QED
    BY <1>7, <2>1 DEF CheckHealth, Fail, At
<1>8. CASE Serve
  <2>1. failed' \in BOOLEAN /\ signalled' \in BOOLEAN /\ ready' \in BOOLEAN
    BY <1>8, Zenon DEF Serve, At
  <2> QED
    BY <1>8, <2>1 DEF Serve, At
<1>9. CASE AllReturned
  BY <1>9 DEF AllReturned, At
<1>10. CASE WaitHealth
  BY <1>10 DEF WaitHealth, At
<1>11. CASE StopHealth
  BY <1>11 DEF StopHealth, At
<1>12. CASE Cleanup
  BY Popped, <1>12 DEF Cleanup, At
<1>13. CASE Return
  BY <1>13 DEF Return, At
<1>14. CASE Signal
  BY <1>14 DEF Signal, At
<1>15. CASE ForceShutdown
  BY <1>15 DEF ForceShutdown, At
<1>16. ASSUME NEW s \in Services, ServiceStep(s) \/ EndMaintenance(s) \/ AcceptFails(s)
       PROVE  TypeOK'
  <2>1. PICK from \in Live, to \in ServiceState \ {"off", "starting"} : Become(s, from, to)
    BY <1>16, ServiceMoves
  <2> QED
    BY <2>1 DEF Become
<1>17. ASSUME NEW r \in Requests, NEW s \in Servers \union {"health"}, Arrive(r, s)
       PROVE  TypeOK'
  BY <1>17 DEF Arrive
<1>18. ASSUME NEW r \in Requests, Answer(r)
       PROVE  TypeOK'
  BY <1>18 DEF Answer
<1>19. CASE UNCHANGED vars
  BY <1>19
<1> QED
  BY <1>1, <1>2, <1>3, <1>4, <1>5, <1>6, <1>7, <1>8, <1>9, <1>10, <1>11, <1>12, <1>13, <1>14, <1>15, <1>16, <1>17, <1>18, <1>19 DEF Next, ComeUp, GoDown, Over

-------------------------------------------------------------------------------
(* The parts follow run. *)

LEMMA Keeping ==
    ASSUME UNCHANGED cleanups
    PROVE  /\ \A what : Pending(what)' <=> Pending(what)
           /\ Once' <=> Once
BY DEF Pending, Once

LEMMA PartsInit == Init => PartsFollowMain
BY DEF Init, PartsFollowMain, Pending, BeforeStores, BeforeAudit, BeforePool, Ending

LEMMA PartsStep == TypeOK /\ PartsFollowMain /\ [Next]_vars => PartsFollowMain'
<1> SUFFICES ASSUME TypeOK, PartsFollowMain, [Next]_vars PROVE PartsFollowMain'
  OBVIOUS
<1> USE DEF BeforeStores, BeforeAudit, BeforePool, Ending
<1>a. cleanups \in Seq(Deferrable) /\ main \in MainState
  BY DEF TypeOK, Deferrable
<1>b. Once
  BY DEF PartsFollowMain, Once
<1>1. CASE StartTelemetry
  <2>1. ~Pending("telemetry")
    BY <1>1 DEF StartTelemetry, At, PartsFollowMain, Pending
  <2>2. CASE Defer("telemetry")
    <3>1. (\A what : Pending(what)' <=> Pending(what) \/ what = "telemetry") /\ Once'
      BY <1>a, <1>b, <2>1, <2>2, Deferring DEF Deferrable
    <3> QED
      BY <1>1, <2>2, <3>1 DEF StartTelemetry, At, parts, PartsFollowMain, Once
  <2>3. CASE UNCHANGED cleanups
    <3>1. (\A what : Pending(what)' <=> Pending(what)) /\ Once'
      BY <1>b, <2>3, Keeping
    <3> QED
      BY <1>1, <2>1, <2>3, <3>1 DEF StartTelemetry, At, parts, PartsFollowMain, Once
  <2> QED
    BY <1>1, <2>2, <2>3 DEF StartTelemetry
<1>2. CASE StartHealth
  <2>1. (\A what : Pending(what)' <=> Pending(what)) /\ Once'
    BY <1>b, <1>2, Keeping DEF StartHealth
  <2> QED
    BY <1>a, <1>2, <2>1 DEF StartHealth, At, parts, PartsFollowMain, Once, MainState, Fail
<1>3. CASE OpenStores
  <2>1. /\ main = "stores" /\ stores = "off" /\ audit = "off" /\ pool = "off"
        /\ UNCHANGED <<audit, pool>>
        /\ ~Pending("stores") /\ ~Pending("audit") /\ ~Pending("pool")
    BY <1>3 DEF OpenStores, At, PartsFollowMain
  <2>2. CASE stores' = "open" /\ Defer("stores") /\ main' = "audit"
    <3>1. (\A what : Pending(what)' <=> Pending(what) \/ what = "stores") /\ Once'
      BY <1>a, <1>b, <2>1, <2>2, Deferring DEF Deferrable
    <3> QED
      BY <2>1, <2>2, <3>1 DEF PartsFollowMain, Once
  <2>3. CASE main' = "unwinding" /\ stores' \in {"off", "open"} /\ UNCHANGED cleanups
    <3>1. (\A what : Pending(what)' <=> Pending(what)) /\ Once'
      BY <1>b, <2>3, Keeping
    <3> QED
      BY <2>1, <2>3, <3>1 DEF PartsFollowMain, Once
  <2> QED
    BY <1>3, <2>2, <2>3 DEF OpenStores, Fail
<1>4. CASE StartAudit
  <2>1. ~Pending("audit")
    BY <1>4 DEF StartAudit, At, PartsFollowMain, Pending
  <2>2. CASE Defer("audit")
    <3>1. (\A what : Pending(what)' <=> Pending(what) \/ what = "audit") /\ Once'
      BY <1>a, <1>b, <2>1, <2>2, Deferring DEF Deferrable
    <3> QED
      BY <1>4, <2>2, <3>1 DEF StartAudit, At, parts, PartsFollowMain, Once
  <2> QED
    BY <1>4, <2>2 DEF StartAudit
<1>5. CASE LoadCredentials
  <2>1. (\A what : Pending(what)' <=> Pending(what)) /\ Once'
    BY <1>b, <1>5, Keeping DEF LoadCredentials
  <2> QED
    BY <1>a, <1>5, <2>1 DEF LoadCredentials, At, parts, PartsFollowMain, Once, MainState, Fail
<1>6. CASE StartPool
  <2>1. ~Pending("pool")
    BY <1>6 DEF StartPool, At, PartsFollowMain, Pending
  <2>2. CASE Defer("pool")
    <3>1. (\A what : Pending(what)' <=> Pending(what) \/ what = "pool") /\ Once'
      BY <1>a, <1>b, <2>1, <2>2, Deferring DEF Deferrable
    <3> QED
      BY <1>6, <2>2, <3>1 DEF StartPool, At, parts, PartsFollowMain, Once
  <2> QED
    BY <1>6, <2>2 DEF StartPool
<1>7. CASE CheckHealth
  <2>1. (\A what : Pending(what)' <=> Pending(what)) /\ Once'
    BY <1>b, <1>7, Keeping DEF CheckHealth
  <2> QED
    BY <1>a, <1>7, <2>1 DEF CheckHealth, At, parts, PartsFollowMain, Once, MainState, Fail
<1>8. CASE Serve
  <2>1. (\A what : Pending(what)' <=> Pending(what)) /\ Once'
    BY <1>b, <1>8, Keeping DEF Serve
  <2> QED
    BY <1>a, <1>8, <2>1 DEF Serve, At, parts, PartsFollowMain, Once, MainState
<1>9. CASE AllReturned
  <2>1. (\A what : Pending(what)' <=> Pending(what)) /\ Once'
    BY <1>b, <1>9, Keeping DEF AllReturned
  <2> QED
    BY <1>a, <1>9, <2>1 DEF AllReturned, At, parts, PartsFollowMain, Once, MainState
<1>10. CASE WaitHealth
  <2>1. (\A what : Pending(what)' <=> Pending(what)) /\ Once'
    BY <1>b, <1>10, Keeping DEF WaitHealth
  <2> QED
    BY <1>a, <1>10, <2>1 DEF WaitHealth, At, parts, PartsFollowMain, Once, MainState
<1>11. CASE StopHealth
  <2>1. (\A what : Pending(what)' <=> Pending(what)) /\ Once'
    BY <1>b, <1>11, Keeping DEF StopHealth
  <2> QED
    BY <1>a, <1>11, <2>1 DEF StopHealth, At, parts, PartsFollowMain, Once, MainState
<1>12. CASE Cleanup
  <2>1. /\ \A what : Pending(what)' <=> Pending(what) /\ what # Last(cleanups)
        /\ Pending(Last(cleanups)) /\ Once'
    BY <1>a, <1>b, <1>12, Popping DEF Cleanup
  <2> QED
    BY <1>12, <2>1 DEF Cleanup, At, PartsFollowMain, Once
<1>13. CASE Return
  <2>1. (\A what : Pending(what)' <=> Pending(what)) /\ Once'
    BY <1>b, <1>13, Keeping DEF Return
  <2> QED
    BY <1>a, <1>13, <2>1 DEF Return, At, parts, PartsFollowMain, Once, MainState
<1>14. CASE UNCHANGED <<main, cleanups, stores, audit, pool>>
  <2>1. (\A what : Pending(what)' <=> Pending(what)) /\ Once'
    BY <1>b, <1>14, Keeping
  <2> QED
    BY <1>14, <2>1 DEF PartsFollowMain, Once
<1>15. ASSUME NEW s \in Services, ServiceStep(s) \/ EndMaintenance(s) \/ AcceptFails(s)
       PROVE  UNCHANGED <<main, cleanups, stores, audit, pool>>
  <2>1. PICK from \in Live, to \in ServiceState \ {"off", "starting"} : Become(s, from, to)
    BY <1>15, ServiceMoves
  <2> QED
    BY <2>1 DEF Become, parts
<1>16. ASSUME \/ \E r \in Requests : Answer(r)
              \/ \E r \in Requests, s \in Servers \union {"health"} : Arrive(r, s)
              \/ Signal \/ ForceShutdown \/ UNCHANGED vars
       PROVE  UNCHANGED <<main, cleanups, stores, audit, pool>>
  BY <1>16 DEF Answer, Arrive, Signal, ForceShutdown, vars, parts
<1> QED
  BY <1>1, <1>2, <1>3, <1>4, <1>5, <1>6, <1>7, <1>8, <1>9, <1>10, <1>11, <1>12, <1>13, <1>14, <1>15, <1>16 DEF Next, ComeUp, GoDown, Over

-------------------------------------------------------------------------------
(* Services run while run waits for them, and requests where they are served. *)

LEMMA ServicesInit == Init => ServicesFollowMain /\ RequestsHaveServers
BY DEF Init, ServicesFollowMain, RequestsHaveServers, BeforeStores, BeforeAudit, BeforePool,
       Ending, Returned

LEMMA ServicesStep == TypeOK /\ ServicesFollowMain /\ [Next]_vars => ServicesFollowMain'
<1> SUFFICES ASSUME TypeOK, ServicesFollowMain, [Next]_vars PROVE ServicesFollowMain'
  OBVIOUS
<1> USE DEF BeforeStores, BeforeAudit, BeforePool, Ending, Returned
<1>a. main \in MainState
  BY DEF TypeOK
<1>1. CASE StartTelemetry
  BY <1>a, <1>1 DEF StartTelemetry, At, Running, parts, serving, ServicesFollowMain, MainState
<1>2. CASE StartHealth
  BY <1>a, <1>2 DEF StartHealth, At, Running, parts, serving, ServicesFollowMain, MainState, Fail
<1>3. CASE OpenStores
  BY <1>a, <1>3 DEF OpenStores, At, Running, parts, serving, ServicesFollowMain, MainState, Fail
<1>4. CASE StartAudit
  BY <1>a, <1>4 DEF StartAudit, At, Running, parts, serving, ServicesFollowMain, MainState
<1>5. CASE LoadCredentials
  BY <1>a, <1>5 DEF LoadCredentials, At, Running, parts, serving, ServicesFollowMain, MainState, Fail
<1>6. CASE StartPool
  BY <1>a, <1>6 DEF StartPool, At, Running, parts, serving, ServicesFollowMain, MainState
<1>7. CASE CheckHealth
  BY <1>a, <1>7 DEF CheckHealth, At, Running, parts, serving, ServicesFollowMain, MainState, Fail
<1>8. CASE Serve
  BY <1>a, <1>8 DEF Serve, At, Running, parts, serving, ServicesFollowMain, MainState
<1>9. CASE AllReturned
  BY <1>a, <1>9 DEF AllReturned, At, Running, parts, serving, ServicesFollowMain, MainState
<1>10. CASE WaitHealth
  BY <1>a, <1>10 DEF WaitHealth, At, Running, parts, serving, ServicesFollowMain, MainState
<1>11. CASE StopHealth
  BY <1>a, <1>11 DEF StopHealth, At, Running, parts, serving, ServicesFollowMain, MainState
<1>12. CASE Cleanup
  BY <1>a, <1>12 DEF Cleanup, At, Running, parts, serving, ServicesFollowMain, MainState
<1>13. CASE Return
  BY <1>a, <1>13 DEF Return, At, Running, parts, serving, ServicesFollowMain, MainState
<1>14. CASE Signal
  BY <1>a, <1>14 DEF Signal, At, Running, parts, serving, ServicesFollowMain, MainState
<1>15. CASE ForceShutdown
  BY <1>a, <1>15 DEF ForceShutdown, At, Running, parts, serving, ServicesFollowMain, MainState
<1>16. ASSUME NEW s \in Services, ServiceStep(s) \/ EndMaintenance(s) \/ AcceptFails(s)
       PROVE  ServicesFollowMain'
  <2>1. PICK from \in Live, to \in ServiceState \ {"off", "starting"} : Become(s, from, to)
    BY <1>16, ServiceMoves
  <2>2. main = "serving" /\ main' = main /\ exit' = exit
    BY <2>1 DEF Become, Live, ServicesFollowMain
  <2> QED
    BY <2>1, <2>2 DEF Become, ServicesFollowMain, Running
<1>17. CASE \/ \E r \in Requests : Answer(r)
            \/ \E r \in Requests, s \in Servers \union {"health"} : Arrive(r, s)
            \/ UNCHANGED vars
  BY <1>17 DEF Answer, Arrive, vars, serving, ServicesFollowMain
<1> QED
  BY <1>1, <1>2, <1>3, <1>4, <1>5, <1>6, <1>7, <1>8, <1>9, <1>10, <1>11, <1>12, <1>13, <1>14, <1>15, <1>16, <1>17 DEF Next, ComeUp, GoDown, Over

LEMMA RequestsStep ==
    TypeOK /\ ServicesFollowMain /\ RequestsHaveServers /\ [Next]_vars => RequestsHaveServers'
<1> SUFFICES ASSUME TypeOK, ServicesFollowMain, RequestsHaveServers, [Next]_vars,
                    NEW r \in Requests, req'[r] = "running"
             PROVE  /\ on'[r] \in Servers => svc'[on'[r]] \in {"up", "stopping", "orphaned"}
                    /\ on'[r] = "health" => health' \in {"up", "stopping"}
  BY DEF RequestsHaveServers
<1> USE DEF serving, requests
<1>1. CASE \/ StartTelemetry \/ OpenStores \/ StartAudit \/ LoadCredentials \/ StartPool
           \/ CheckHealth \/ AllReturned \/ Cleanup \/ Return \/ Signal \/ ForceShutdown
           \/ UNCHANGED vars
  <2>1. UNCHANGED <<health, svc, req, on>>
    BY <1>1 DEF StartTelemetry, OpenStores, StartAudit, LoadCredentials, StartPool,
                CheckHealth, AllReturned, Cleanup, Return, Signal, ForceShutdown, vars
  <2> QED
    BY <2>1 DEF RequestsHaveServers
<1>2. CASE StartHealth \/ WaitHealth
  BY <1>2 DEF StartHealth, WaitHealth, RequestsHaveServers
<1>3. CASE StopHealth
  BY <1>3 DEF StopHealth, InFlight, RequestsHaveServers
<1>4. CASE Serve
  BY <1>4, ServiceNames DEF Serve, At, ServicesFollowMain, RequestsHaveServers
<1>5. ASSUME NEW s \in Services, ServiceStep(s) \/ EndMaintenance(s) \/ AcceptFails(s)
      PROVE  /\ on'[r] \in Servers => svc'[on'[r]] \in {"up", "stopping", "orphaned"}
             /\ on'[r] = "health" => health' \in {"up", "stopping"}
  <2>1. PICK from \in Live, to \in ServiceState \ {"off", "starting"} :
              /\ Become(s, from, to)
              /\ \/ from \in {"starting", "working"}
                 \/ to \in {"up", "stopping", "orphaned"}
                 \/ s = "maintainer"
                 \/ InFlight(s) = {}
    BY <1>5, ServiceMoves
  <2>2. /\ UNCHANGED <<health, req, on>> /\ req[r] = "running"
        /\ svc[s] = from /\ svc' = [svc EXCEPT ![s] = to]
        /\ svc \in [Services -> ServiceState]
    BY <2>1 DEF Become, TypeOK
  <2>3. CASE on[r] # s
    BY <2>2, <2>3, ServiceNames DEF RequestsHaveServers
  <2>4. CASE on[r] = s /\ s \in Servers
    <3>1. svc[s] \in {"up", "stopping", "orphaned"} /\ s # "maintainer"
      BY <2>2, <2>4, ServiceNames DEF RequestsHaveServers
    <3>2. InFlight(s) # {}
      BY <2>2, <2>4 DEF InFlight
    <3>3. to \in {"up", "stopping", "orphaned"}
      BY <2>1, <2>2, <3>1, <3>2
    <3> QED
      BY <2>2, <2>4, <3>3, ServiceNames
  <2>5. CASE on[r] = s /\ s \notin Servers
    BY <2>2, <2>5 DEF RequestsHaveServers
  <2> QED
    BY <2>3, <2>4, <2>5
<1>6. ASSUME NEW q \in Requests, NEW s \in Servers \union {"health"}, Arrive(q, s)
      PROVE  /\ on'[r] \in Servers => svc'[on'[r]] \in {"up", "stopping", "orphaned"}
             /\ on'[r] = "health" => health' \in {"up", "stopping"}
  BY <1>6, ServiceNames DEF Arrive, TypeOK, RequestsHaveServers
<1>7. ASSUME NEW q \in Requests, Answer(q)
      PROVE  /\ on'[r] \in Servers => svc'[on'[r]] \in {"up", "stopping", "orphaned"}
             /\ on'[r] = "health" => health' \in {"up", "stopping"}
  BY <1>7 DEF Answer, TypeOK, RequestsHaveServers
<1> QED
  BY <1>1, <1>2, <1>3, <1>4, <1>5, <1>6, <1>7 DEF Next, ComeUp, GoDown, Over

-------------------------------------------------------------------------------
(* The theorems. *)

\* Parts, services and requests are where run says: the invariant of run, the
\* services it starts and the functions it defers.
THEOREM Invariance == Spec => []IInv
<1>1. Init => IInv
  BY TypeInit, PartsInit, ServicesInit DEF IInv
<1>2. IInv /\ [Next]_vars => IInv'
  BY TypeStep, PartsStep, ServicesStep, RequestsStep DEF IInv
<1> QED
  BY <1>1, <1>2, PTL DEF Spec

\* Types are kept by run, its services and its requests.
THEOREM TypeCorrect == Spec => []TypeOK
<1>1. IInv => TypeOK
  BY DEF IInv
<1> QED
  BY <1>1, Invariance, PTL

\* Everything that is served, and every pass of the maintainer, ends before run
\* closes what it uses.
THEOREM PartsOutlastTheirUsers == Spec => []NothingMeetsAClosedPart
<1>1. IInv => NothingMeetsAClosedPart
  <2> SUFFICES ASSUME IInv PROVE NothingMeetsAClosedPart
    OBVIOUS
  <2> USE DEF BeforeStores, BeforeAudit, BeforePool, Ending
  <2>1. main = "serving" => stores = "open" /\ audit = "open" /\ pool = "open"
    BY DEF IInv, PartsFollowMain
  <2>2. svc["maintainer"] = "working" => main = "serving"
    BY ServiceNames DEF IInv, ServicesFollowMain, Returned
  <2>3. ASSUME NEW r \in Requests, req[r] = "running", on[r] = "health", ready
        PROVE  stores = "open"
    <3>1. health # "done"
      BY <2>3 DEF IInv, RequestsHaveServers
    <3>2. main \notin BeforePool \union {"check"} /\ main \notin Ending
      BY <2>3, <3>1 DEF IInv, ServicesFollowMain
    <3> QED
      BY <3>2 DEF IInv, PartsFollowMain
  <2>4. ASSUME NEW r \in Requests, req[r] = "running", on[r] \in Servers, svc[on[r]] # "orphaned"
        PROVE  main = "serving"
    BY <2>4, ServiceNames DEF IInv, RequestsHaveServers, ServicesFollowMain, Returned
  <2> QED
    BY <2>1, <2>2, <2>3, <2>4 DEF NothingMeetsAClosedPart
<1> QED
  BY <1>1, Invariance, PTL

\* Every return of run, early or late, has called what closes the parts.
THEOREM ReturnClosesAll == Spec => []NothingLeftBehind
<1>1. IInv => NothingLeftBehind
  <2> SUFFICES ASSUME IInv, exit \in {"clean", "error"}
               PROVE  pool # "open" /\ audit # "open" /\ (stores = "open" => audit = "off")
    BY DEF NothingLeftBehind
  <2>1. cleanups = <<>>
    BY DEF IInv, ServicesFollowMain, PartsFollowMain
  <2>2. \A what : ~Pending(what)
    BY <2>1 DEF Pending
  <2> QED
    BY <2>2 DEF IInv, PartsFollowMain
<1> QED
  BY <1>1, Invariance, PTL

------------------------------------------------------------------
(* Settings.  The sample, and what a setting is read from *)

LEMMA Sample ==
    /\ Default \in [Names -> Value] /\ 0 \in Value
    /\ Alias \notin Names /\ Aliased \in Names /\ Variables = Names \union {Alias}
  BY DEF Default, Names, Alias, Aliased, Value, Variables

LEMMA Apart ==
    /\ \A x \in {Unset, Blank, Missing, Null, Bad, Redacted, Flag} : x \notin Value
    /\ \A x \in {Unset, Blank, Missing, Null, Bad, Redacted, Flag} : x \notin Variables
    /\ Missing # Null /\ Missing # Bad /\ Missing # Redacted /\ Null # Bad
    /\ Bad # Unset /\ Bad # Blank
  BY SettingsAssumption

LEMMA SameInput ==
    ASSUME UNCHANGED input
    PROVE  /\ \A s : Key(s)' = Key(s) /\ Supplier(s)' = Supplier(s)
                     /\ FromEnvironment(s)' = FromEnvironment(s)
           /\ UNCHANGED Inputs
  BY DEF input, Key, Supplier, Found, FromEnvironment, Inputs

LEMMA SameDocument ==
    ASSUME UNCHANGED <<input, doc>>
    PROVE  /\ \A s : /\ Decoded(s)' = Decoded(s) /\ TakesFile(s)' = TakesFile(s)
                     /\ Origin(s)' = Origin(s) /\ Merged(s)' = Merged(s)
  BY SameInput DEF input, HasKey, Decoded, TakesFile, Origin, Merged

\* What the environment gives is a value, unless it is one of the wrong type.
LEMMA EnvironmentGives ==
    ASSUME SettingsTypeOK, NEW s \in Names
    PROVE  FromEnvironment(s) \in {Bad} \union Value
<1>1. Supplier(s) # Unset => Supplier(s) \in Variables /\ Found(Supplier(s))
  BY Sample DEF Supplier
<1>2. \A v \in Variables : Found(v) => env[v] \in {Bad} \union Value
  BY DEF SettingsTypeOK, Found
<1>. QED  BY <1>1, <1>2, Sample DEF FromEnvironment

LEMMA FileGives ==
    ASSUME SettingsTypeOK, NEW s \in Names
    PROVE  Decoded(s) \in Value
  BY Sample DEF SettingsTypeOK, Decoded

-------------------------------------------------------------------------------
(* The initial states *)

LEMMA SettingsInitInv == SettingsInit => SettingsInv
<1>. SUFFICES ASSUME SettingsInit PROVE SettingsInv
  OBVIOUS
<1>1. PICK topic \in Topics :
        /\ source \in {"file", "env"}
        /\ FileWrites(topic) /\ EnvironmentHas(topic) /\ ElseIsWrong(topic)
        /\ unreadable \in SUBSET (topic \cap Files)
        /\ stage = IF source = "file" THEN "parse" ELSE "environment"
        /\ doc = file
        /\ diags = {} /\ used = {} /\ status = "loading"
        /\ resolved = [s \in Names |-> 0] /\ origins = [s \in Names |-> "default"]
        /\ shown = [s \in Names |-> Missing]
        /\ command = [kind |-> "none"]
        /\ first = {}
  BY DEF SettingsInit
<1>2. /\ file \in [Names -> {Missing, Null, Bad} \union Value]
      /\ source = "env" => \A s \in Names : file[s] = Missing
  BY <1>1 DEF FileWrites, FileValue, Written, Value
<1>3. env \in [Variables -> {Unset, Blank, Bad} \union Value]
  BY <1>1 DEF EnvironmentHas, EnvValue, Value
<1>4. /\ misfit \in Misfits /\ stray \in Strays /\ former \in {Missing, 1, 2}
      /\ source = "env" => misfit = "none" /\ former = Missing
      /\ former # Missing => Former # {}
  BY <1>1 DEF ElseIsWrong, Misfits, Strays
<1>5. SettingsTypeOK
  BY <1>1, <1>2, <1>3, <1>4, Sample DEF SettingsTypeOK, Stages, Value
<1>6. Inputs
  BY <1>1, <1>2, <1>4 DEF Inputs
<1>7. DocumentRead
  BY <1>1, <1>2, <1>4 DEF DocumentRead, Key
<1>8. Verdicts /\ Resolution /\ Complaints /\ ReadAgain /\ Commands
  BY <1>1, <1>2, <1>6 DEF Verdicts, Loading, Usable, Resolution, Complaints, ReadAgain, Commands, Inputs,
     Reported
<1>. QED  BY <1>5, <1>6, <1>7, <1>8 DEF SettingsInv

-------------------------------------------------------------------------------
(* The stages of load *)

\* A stage that ends in another one of load's, and judges nothing.
LEMMA StageKeeps ==
    ASSUME SettingsInv, stage \in Loading, stage' \in Loading, UNCHANGED <<input, status, command, first>>
    PROVE  Inputs' /\ Verdicts' /\ Commands'
<1>1. Inputs'
  BY SameInput DEF SettingsInv
<1>2. Verdicts'
  BY DEF SettingsInv, Verdicts, Usable
<1>3. Commands'
  BY DEF Commands, Loading
<1>. QED  BY <1>1, <1>2, <1>3

LEMMA ParseInv == SettingsInv /\ Parse => SettingsInv'
<1>. SUFFICES ASSUME SettingsInv, Parse PROVE SettingsInv'
  OBVIOUS
<1>1. SettingsTypeOK'
  BY DEF SettingsInv, SettingsTypeOK, Parse, Stages, input
<1>2. Inputs' /\ Verdicts' /\ Commands'
  BY SameInput DEF SettingsInv, Parse, Verdicts, Commands, Loading, Usable
<1>3. DocumentRead'
  BY SameInput DEF SettingsInv, Parse, DocumentRead, input
<1>4. Resolution'
  BY DEF SettingsInv, Parse, Resolution, Verdicts, Usable, Loading
<1>5. Complaints'
  BY DEF SettingsInv, Parse, Complaints, input
<1>6. ReadAgain'
  BY DEF SettingsInv, Parse, ReadAgain, input, Prints
<1>. QED  BY <1>1, <1>2, <1>3, <1>4, <1>5, <1>6 DEF SettingsInv

LEMMA RenameInv == SettingsInv /\ Rename => SettingsInv'
<1>. SUFFICES ASSUME SettingsInv, Rename PROVE SettingsInv'
  OBVIOUS
<1>. DEFINE s == CHOOSE s \in Former : TRUE
<1>1. /\ stage = "rename" /\ stage' = "decode"
      /\ UNCHANGED <<input, resolved, origins, used, status, shown, command, first>>
      /\ diags' \in {diags, diags \union {"both"}, diags \union {"renamed"}}
      /\ former = Missing => diags' = diags
      /\ doc' = IF former # Missing /\ file[s] = Missing THEN [doc EXCEPT ![s] = former]
                ELSE doc
  BY DEF Rename
<1>2. former # Missing => s \in Names /\ \A t \in Names : t \in Former <=> t = s
  BY SettingsAssumption DEF SettingsInv, Inputs
<1>. HIDE DEF s
<1>3. SettingsTypeOK'
  BY <1>1, <1>2 DEF SettingsInv, SettingsTypeOK, Stages, input
<1>4. Inputs' /\ Verdicts' /\ Commands'
  BY <1>1, StageKeeps DEF Loading
<1>5. DocumentRead'
  BY <1>1, <1>2, SameInput DEF SettingsInv, SettingsTypeOK, DocumentRead, Verdicts, Loading, Key
<1>6. Resolution'
  BY <1>1 DEF SettingsInv, Resolution, Verdicts, Usable, Loading
<1>7. Complaints'
  BY <1>1 DEF SettingsInv, Complaints, input
<1>8. ReadAgain'
  BY <1>1 DEF SettingsInv, ReadAgain, input, Prints
<1>. QED  BY <1>3, <1>4, <1>5, <1>6, <1>7, <1>8 DEF SettingsInv

LEMMA DecodeInv == SettingsInv /\ Decode => SettingsInv'
<1>. SUFFICES ASSUME SettingsInv, Decode PROVE SettingsInv'
  OBVIOUS
<1>1. /\ stage = "decode" /\ stage' = "keys"
      /\ UNCHANGED <<input, doc, resolved, origins, used, status, shown, command, first>>
      /\ diags' = diags \union
            (IF misfit = "list" \/ \E s \in Names : doc[s] = Bad THEN {"type"} ELSE {})
  BY DEF Decode
<1>2. first # {} => diags' = {}
  <2>1. ASSUME first # {}, NEW s \in Names PROVE doc[s] # Bad
    <3>1. doc[s] = file[s]
      BY <1>1, <2>1 DEF SettingsInv, DocumentRead, ReadAgain, Key
    <3>2. PICK c \in first : file[s] = c[s] \/ file[s] = Missing
      BY <2>1 DEF SettingsInv, ReadAgain, Prints
    <3>. QED  BY <3>1, <3>2, Apart DEF SettingsInv, SettingsTypeOK
  <2>. QED  BY <1>1, <2>1 DEF SettingsInv, ReadAgain
<1>3. SettingsTypeOK'
  BY <1>1 DEF SettingsInv, SettingsTypeOK, Stages, input
<1>4. Inputs' /\ Verdicts' /\ Commands'
  BY <1>1, StageKeeps DEF Loading
<1>5. DocumentRead'
  BY <1>1, SameInput DEF SettingsInv, DocumentRead
<1>6. Resolution'
  BY <1>1 DEF SettingsInv, Resolution, Verdicts, Usable, Loading
<1>7. Complaints'
  BY <1>1 DEF SettingsInv, Complaints, input
<1>8. ReadAgain'
  BY <1>1, <1>2 DEF SettingsInv, ReadAgain, input, Prints
<1>. QED  BY <1>3, <1>4, <1>5, <1>6, <1>7, <1>8 DEF SettingsInv

LEMMA CheckKeysInv == SettingsInv /\ CheckKeys => SettingsInv'
<1>. SUFFICES ASSUME SettingsInv, CheckKeys PROVE SettingsInv'
  OBVIOUS
<1>1. /\ stage = "keys" /\ stage' = "environment"
      /\ UNCHANGED <<input, doc, resolved, origins, used, status, shown, command, first>>
      /\ diags' = diags \union (IF Reported(misfit) THEN {misfit} ELSE {})
                        \union (IF "both" \in diags THEN {"unknownKey"} ELSE {})
  BY DEF CheckKeys
<1>2. first # {} => diags' = {}
  BY <1>1 DEF SettingsInv, ReadAgain, Reported
<1>3. SettingsTypeOK'
  BY <1>1 DEF SettingsInv, SettingsTypeOK, Stages, input, Reported
<1>4. Inputs' /\ Verdicts' /\ Commands'
  BY <1>1, StageKeeps DEF Loading
<1>5. DocumentRead'
  BY <1>1, SameInput DEF SettingsInv, DocumentRead
<1>6. Resolution'
  BY <1>1 DEF SettingsInv, Resolution, Verdicts, Usable, Loading
<1>7. Complaints'
  BY <1>1 DEF SettingsInv, Complaints, input
<1>8. ReadAgain'
  BY <1>1, <1>2 DEF SettingsInv, ReadAgain, input, Prints
<1>. QED  BY <1>3, <1>4, <1>5, <1>6, <1>7, <1>8 DEF SettingsInv

LEMMA ApplyEnvInv == SettingsInv /\ ApplyEnv => SettingsInv'
<1>. SUFFICES ASSUME SettingsInv, ApplyEnv PROVE SettingsInv'
  OBVIOUS
<1>1. /\ stage = "environment" /\ used' = {s \in Names : Supplier(s) = Alias}
      /\ UNCHANGED <<input, doc, diags, origins, shown, command, first>>
      /\ \/ /\ \E s \in Names : FromEnvironment(s) = Bad
            /\ stage' = "findings" /\ status' = "unusable" /\ UNCHANGED resolved
         \/ /\ \A s \in Names : FromEnvironment(s) # Bad
            /\ stage' = "merge" /\ UNCHANGED status
            /\ resolved' = [s \in Names |-> FromEnvironment(s)]
  BY DEF ApplyEnv
<1>2. SettingsTypeOK'
  BY <1>1, EnvironmentGives DEF SettingsInv, SettingsTypeOK, Stages, input
<1>3. Inputs' /\ Verdicts' /\ Commands'
  BY <1>1, SameInput DEF SettingsInv, Verdicts, Commands, Loading, Usable
<1>4. DocumentRead'
  BY <1>1, SameInput DEF SettingsInv, DocumentRead
<1>5. Resolution'
  BY <1>1, SameInput DEF SettingsInv, Resolution, Verdicts, Usable, Loading, AliasesUsed
<1>6. Complaints'
  BY <1>1 DEF SettingsInv, Complaints, input
<1>7. ReadAgain'
  <2>1. ASSUME first # {} PROVE \A s \in Names : FromEnvironment(s) # Bad
    <3>1. \A v \in Variables : ~Found(v)
      BY <2>1 DEF SettingsInv, ReadAgain, Found
    <3>2. \A s \in Names : Supplier(s) = Unset
      BY <3>1, Sample DEF Supplier
    <3>. QED  BY <3>2, Sample, Apart DEF FromEnvironment
  <2>. QED  BY <1>1, <2>1 DEF SettingsInv, ReadAgain, input, Prints
<1>. QED  BY <1>2, <1>3, <1>4, <1>5, <1>6, <1>7 DEF SettingsInv

LEMMA MergeInv == SettingsInv /\ Merge => SettingsInv'
<1>. SUFFICES ASSUME SettingsInv, Merge PROVE SettingsInv'
  OBVIOUS
<1>1. /\ stage = "merge" /\ stage' = "judge"
      /\ resolved' = [s \in Names |-> IF TakesFile(s) THEN Decoded(s) ELSE resolved[s]]
      /\ origins' = [s \in Names |-> Origin(s)]
      /\ UNCHANGED <<input, doc, diags, used, status, shown, command, first>>
  BY DEF Merge
<1>2. SettingsTypeOK'
  <2>1. \A s \in Names : Origin(s) \in {"env", "file", "default"}
    BY DEF Origin
  <2>2. origins' \in [Names -> {"env", "file", "default"}]
    BY <1>1, <2>1
  <2>3. resolved' \in [Names -> Value]
    BY <1>1, FileGives DEF SettingsInv, SettingsTypeOK
  <2>. QED  BY <1>1, <2>2, <2>3 DEF SettingsInv, SettingsTypeOK, Stages, input
<1>3. Inputs' /\ Verdicts' /\ Commands'
  BY <1>1, StageKeeps DEF Loading
<1>4. DocumentRead'
  BY <1>1, SameInput DEF SettingsInv, DocumentRead
<1>5. Resolution'
  <2>1. \A s \in Names : /\ resolved[s] = FromEnvironment(s) /\ resolved[s] \in Value
                         /\ resolved'[s] = Merged(s) /\ origins'[s] = Origin(s)
    BY <1>1 DEF SettingsInv, SettingsTypeOK, Resolution, Merged
  <2>2. \A s \in Names : FromEnvironment(s) # Bad
    BY <2>1, Apart
  <2>3. AliasesUsed'
    BY <1>1, SameInput DEF SettingsInv, Resolution, AliasesUsed
  <2>. QED  BY <1>1, <2>1, <2>2, <2>3, SameInput, SameDocument DEF Resolution
<1>6. Complaints'
  BY <1>1 DEF SettingsInv, Complaints, input
<1>7. ReadAgain'
  BY <1>1 DEF SettingsInv, ReadAgain, input, Prints
<1>. QED  BY <1>2, <1>3, <1>4, <1>5, <1>6, <1>7 DEF SettingsInv

LEMMA JudgeInv == SettingsInv /\ Judge => SettingsInv'
<1>. SUFFICES ASSUME SettingsInv, Judge PROVE SettingsInv'
  OBVIOUS
<1>1. /\ stage = "judge" /\ stage' = "findings"
      /\ status' = IF Errors(diags) = {} /\ Valid(resolved) THEN "accepted" ELSE "rejected"
      /\ UNCHANGED <<input, doc, diags, resolved, origins, used, shown, command, first>>
  BY DEF Judge
<1>2. SettingsTypeOK'
  BY <1>1 DEF SettingsInv, SettingsTypeOK, Stages, input
<1>3. Inputs' /\ Verdicts' /\ Commands'
  BY <1>1, SameInput DEF SettingsInv, Verdicts, Commands, Loading, Usable
<1>4. DocumentRead'
  BY <1>1, SameInput DEF SettingsInv, DocumentRead, Verdicts, Loading
<1>5. Resolution'
  <2>1. AliasesUsed'
    BY <1>1, SameInput DEF SettingsInv, Resolution, AliasesUsed
  <2>. QED  BY <1>1, <2>1, SameInput, SameDocument DEF SettingsInv, Resolution
<1>6. Complaints'
  BY <1>1 DEF SettingsInv, Complaints, input, Verdicts, Loading
<1>7. ReadAgain'
  BY <1>1 DEF SettingsInv, ReadAgain, input, Prints
<1>. QED  BY <1>2, <1>3, <1>4, <1>5, <1>6, <1>7 DEF SettingsInv

LEMMA FindingsInv == SettingsInv /\ Findings => SettingsInv'
<1>. SUFFICES ASSUME SettingsInv, Findings PROVE SettingsInv'
  OBVIOUS
<1>1. /\ stage = "findings" /\ stage' = "loaded"
      /\ diags' = diags \union (IF stray = "prefixed" THEN {"strayVariable"} ELSE {})
      /\ UNCHANGED <<input, doc, resolved, origins, used, status, shown, command, first>>
  BY DEF Findings, Unknown
<1>2. SettingsTypeOK'
  BY <1>1 DEF SettingsInv, SettingsTypeOK, Stages, input
<1>3. Errors(diags') = Errors(diags)
  BY <1>1 DEF Errors
<1>4. Inputs' /\ Verdicts' /\ Commands'
  BY <1>1, <1>3, SameInput DEF SettingsInv, Verdicts, Commands, Loading, Usable
<1>5. DocumentRead'
  BY <1>1, SameInput DEF SettingsInv, DocumentRead
<1>6. Resolution'
  <2>1. Usable => AliasesUsed'
    BY <1>1, SameInput DEF SettingsInv, Resolution, AliasesUsed
  <2>. QED  BY <1>1, <2>1, SameInput, SameDocument DEF SettingsInv, Resolution, Usable
<1>7. Complaints'
  BY <1>1 DEF SettingsInv, Complaints, input
<1>8. ReadAgain'
  BY <1>1 DEF SettingsInv, ReadAgain, input, Prints
<1>. QED  BY <1>2, <1>4, <1>5, <1>6, <1>7, <1>8 DEF SettingsInv

-------------------------------------------------------------------------------
(* The commands *)

\* A command changes nothing of what was resolved: what it does is left to show.
LEMMA DoneKeeps ==
    ASSUME SettingsInv, NEW c, Done(c), shown' \in [Names -> {Missing, Redacted} \union Value],
           c.kind \in {"validate", "print", "start", "push", "register"}, Commands'
    PROVE  SettingsInv'
<1>1. /\ stage = "loaded" /\ stage' = "done" /\ command' = c
      /\ UNCHANGED <<input, doc, diags, resolved, origins, used, status, first>>
  BY DEF Done, result
<1>2. SettingsTypeOK'
  BY <1>1 DEF SettingsInv, SettingsTypeOK, Stages, input
<1>3. Inputs' /\ Verdicts'
  BY <1>1, SameInput DEF SettingsInv, Verdicts, Loading, Usable
<1>4. DocumentRead'
  BY <1>1, SameInput DEF SettingsInv, DocumentRead
<1>5. Resolution'
  <2>1. Usable => AliasesUsed'
    BY <1>1, SameInput DEF SettingsInv, Resolution, AliasesUsed
  <2>. QED  BY <1>1, <2>1, SameInput, SameDocument DEF SettingsInv, Resolution, Usable
<1>6. Complaints'
  BY <1>1 DEF SettingsInv, Complaints, input
<1>7. ReadAgain'
  BY <1>1 DEF SettingsInv, ReadAgain, input, Prints
<1>. QED  BY <1>2, <1>3, <1>4, <1>5, <1>6, <1>7 DEF SettingsInv

LEMMA ValidateCommandInv == SettingsInv /\ ValidateCommand => SettingsInv'
<1>. SUFFICES ASSUME SettingsInv, ValidateCommand PROVE SettingsInv'
  OBVIOUS
<1>. DEFINE c == [kind |-> "validate", ok |-> status = "accepted"]
<1>1. Done(c) /\ UNCHANGED shown /\ c.kind = "validate"
  BY DEF ValidateCommand
<1>2. Commands'
  BY <1>1 DEF Done, Commands
<1>. QED  BY <1>1, <1>2, DoneKeeps DEF SettingsInv, SettingsTypeOK

LEMMA PrintCommandInv ==
    ASSUME SettingsInv, NEW changed \in BOOLEAN, NEW secrets \in BOOLEAN,
           PrintCommand(changed, secrets)
    PROVE  SettingsInv'
<1>. DEFINE c == [kind |-> "print", ok |-> status # "unusable"]
<1>1. /\ Done(c) /\ c.kind = "print" /\ c.ok = (status # "unusable")
      /\ shown' = IF status = "unusable" THEN shown
                  ELSE [s \in Names |-> IF Selected(s, changed) THEN Rendered(s, secrets)
                                        ELSE Missing]
  BY DEF PrintCommand
<1>2. shown' \in [Names -> {Missing, Redacted} \union Value]
  BY <1>1 DEF SettingsInv, SettingsTypeOK, Rendered
<1>3. Commands'
  <2>1. ASSUME status # "unusable", NEW s \in Names
        PROVE  \/ shown'[s] = Redacted \/ shown'[s] = resolved[s]
               \/ shown'[s] = Missing /\ resolved[s] = Default[s]
    BY <1>1, <2>1 DEF Selected, Rendered
  <2>2. command' = c /\ UNCHANGED resolved
    BY <1>1 DEF Done, result
  <2>. HIDE DEF c
  <2>. QED  BY <1>1, <2>1, <2>2 DEF Commands, Prints
<1>. HIDE DEF c
<1>. QED  BY <1>1, <1>2, <1>3, DoneKeeps

LEMMA StartInv == SettingsInv /\ Start => SettingsInv'
<1>. SUFFICES ASSUME SettingsInv, Start PROVE SettingsInv'
  OBVIOUS
<1>. DEFINE c == [kind |-> "start", ok |-> status = "accepted" /\ Readable,
                  runs |-> [s \in Names |-> RunsOn(s, resolved[s])]]
<1>1. /\ Done(c) /\ UNCHANGED shown /\ c.kind = "start" /\ (c.ok => status = "accepted")
      /\ \A s \in Names : c.runs[s] = RunsOn(s, resolved[s])
  BY DEF Start
<1>2. command' = c /\ UNCHANGED <<resolved, status>>
  BY <1>1 DEF Done, result
<1>. HIDE DEF c
<1>3. Commands'
  BY <1>1, <1>2 DEF Commands
<1>. QED  BY <1>1, <1>3, DoneKeeps DEF SettingsInv, SettingsTypeOK

LEMMA PushInv ==
    ASSUME SettingsInv, NEW flags \in SUBSET {"bucket", "accessKey", "secretKey"}, Push(flags)
    PROVE  SettingsInv'
<1>1. PICK c : /\ Done(c) /\ UNCHANGED shown /\ c.kind = "push"
               /\ c.ok => c.credentials = Credentials(flags)
  <2>1. CASE status = "accepted"
    BY <2>1 DEF Push
  <2>2. CASE status # "accepted"
    BY <2>2 DEF Push
  <2>. QED  BY <2>1, <2>2
<1>2. command' = c /\ UNCHANGED resolved
  BY <1>1 DEF Done, result
<1>3. Credentials(flags)' = Credentials(flags)
  BY <1>2 DEF Credentials
<1>4. Commands'
  BY <1>1, <1>2, <1>3 DEF Commands
<1>. QED  BY <1>1, <1>4, DoneKeeps DEF SettingsInv, SettingsTypeOK

LEMMA RegisterInv == SettingsInv /\ Register => SettingsInv'
<1>. SUFFICES ASSUME SettingsInv, Register PROVE SettingsInv'
  OBVIOUS
<1>1. PICK c : Done(c) /\ UNCHANGED shown /\ c.kind = "register"
  BY DEF Register
<1>2. Commands'
  BY <1>1 DEF Done, Commands
<1>. QED  BY <1>1, <1>2, DoneKeeps DEF SettingsInv, SettingsTypeOK

LEMMA ReadBackInv == SettingsInv /\ ReadBack => SettingsInv'
<1>. SUFFICES ASSUME SettingsInv, ReadBack PROVE SettingsInv'
  OBVIOUS
<1>1. /\ stage = "done" /\ first = {} /\ first' = {resolved} /\ stage' = "parse"
      /\ source' = "file" /\ file' = shown /\ doc' = shown
      /\ former' = Missing /\ misfit' = "none" /\ stray' = "none"
      /\ env' = [v \in Variables |-> Unset]
      /\ diags' = {} /\ status' = "loading"
      /\ UNCHANGED <<unreadable, resolved, origins, used, shown, command>>
      /\ \A s \in Names : shown[s] # Redacted
      /\ Prints(shown, resolved)
  BY DEF ReadBack, SettingsInv, Commands
<1>2. SettingsTypeOK'
  <2>1. shown \in [Names -> {Missing, Null, Bad} \union Value]
    BY <1>1 DEF SettingsInv, SettingsTypeOK
  <2>2. env' \in [Variables -> {Unset, Blank, Bad} \union Value]
    BY <1>1
  <2>3. \A c \in first' : c \in [Names -> Value]
    BY <1>1 DEF SettingsInv, SettingsTypeOK
  <2>. QED  BY <1>1, <2>1, <2>2, <2>3 DEF SettingsInv, SettingsTypeOK, Stages, Misfits, Strays
<1>3. Inputs' /\ Verdicts' /\ Commands'
  BY <1>1 DEF Inputs, Verdicts, Commands, Loading, Usable
<1>4. DocumentRead'
  BY <1>1 DEF DocumentRead
<1>5. Resolution' /\ Complaints'
  BY <1>1 DEF Resolution, Complaints, Usable
<1>6. ReadAgain'
  BY <1>1 DEF ReadAgain, Prints
<1>. QED  BY <1>2, <1>3, <1>4, <1>5, <1>6 DEF SettingsInv

LEMMA SettingsStutter == SettingsInv /\ UNCHANGED settingsVars => SettingsInv'
<1>. SUFFICES ASSUME SettingsInv, UNCHANGED settingsVars PROVE SettingsInv'
  OBVIOUS
<1>1. UNCHANGED <<input, doc, result, stage, shown, command, first>>
  BY DEF settingsVars
<1>2. SettingsTypeOK' /\ Verdicts'
  BY <1>1 DEF SettingsInv, SettingsTypeOK, Verdicts, Usable, input, result
<1>3. Inputs' /\ DocumentRead'
  <2>1. UNCHANGED <<status, stage, doc, file>>
    BY <1>1 DEF result, input
  <2>2. \A s : Key(s)' = Key(s)
    BY <1>1, SameInput
  <2>. QED  BY <1>1, <2>1, <2>2, SameInput DEF SettingsInv, DocumentRead
<1>4. Resolution'
  <2>1. AliasesUsed' = AliasesUsed
    BY <1>1, SameInput DEF AliasesUsed, result
  <2>. QED  BY <1>1, <2>1, SameInput, SameDocument DEF SettingsInv, Resolution, Usable, result
<1>5. Complaints' /\ ReadAgain'
  BY <1>1 DEF SettingsInv, Complaints, ReadAgain, Prints, input, result
<1>6. Commands'
  <2>1. \A flags : Credentials(flags)' = Credentials(flags)
    BY <1>1 DEF Credentials, result
  <2>. QED  BY <1>1, <2>1 DEF SettingsInv, Commands, Prints, result
<1>. QED  BY <1>2, <1>3, <1>4, <1>5, <1>6 DEF SettingsInv

-------------------------------------------------------------------------------
(* Theorems *)

\* The inductive invariant holds.
THEOREM SettingsInvariance == SettingsSpec => []SettingsInv
<1>1. SettingsInv /\ [SettingsNext]_settingsVars => SettingsInv'
  BY ParseInv, RenameInv, DecodeInv, CheckKeysInv, ApplyEnvInv, MergeInv, JudgeInv, FindingsInv,
     ValidateCommandInv, PrintCommandInv, StartInv, PushInv, RegisterInv, ReadBackInv,
     SettingsStutter DEF SettingsNext, CommandOver
<1>. QED  BY <1>1, SettingsInitInv, PTL DEF SettingsSpec

\* Types.
THEOREM TypesOfSettings == SettingsSpec => []SettingsTypeOK
<1>1. SettingsInv => SettingsTypeOK
  BY DEF SettingsInv
<1>. QED  BY <1>1, SettingsInvariance, PTL

\* mergeFileValues, describeOrigin: the report names the layer a value came from.
THEOREM OriginsAreTrue == SettingsSpec => []OriginTrue
<1>1. SettingsInv => OriginTrue
  <2>. SUFFICES ASSUME SettingsInv, stage \in {"loaded", "done"}, Usable, NEW s \in Names
       PROVE  LET reported == IF s \in used THEN Alias ELSE s
                  inFile == source = "file" /\ misfit # "list" /\ Key(s) # Missing
              IN CASE origins[s] = "env" ->
                          /\ env[reported] \notin {Unset, Blank, Bad}
                          /\ resolved[s] = env[reported]
                          /\ reported = Alias => env[s] \in {Unset, Blank}
                   [] origins[s] = "file" ->
                          /\ inFile
                          /\ resolved[s] = IF Key(s) \in {Null, Bad} THEN 0 ELSE Key(s)
                          /\ env[s] \in {Unset, Blank}
                   [] origins[s] = "default" ->
                          /\ ~inFile /\ env[s] \in {Unset, Blank}
                          /\ s = Aliased => env[Alias] \in {Unset, Blank}
                          /\ resolved[s] = Default[s]
    BY DEF OriginTrue
  <2>. DEFINE reported == IF s \in used THEN Alias ELSE s
  <2>1. /\ resolved[s] = Merged(s) /\ origins[s] = Origin(s) /\ FromEnvironment(s) # Bad
        /\ s \in used <=> Supplier(s) = Alias
        /\ doc[s] = Key(s)
    BY DEF SettingsInv, Resolution, AliasesUsed, DocumentRead, Usable
  <2>2. s # Alias /\ s # Unset /\ Alias # Unset
    BY Sample, Apart
  <2>3. CASE Supplier(s) # Unset
    <3>1. origins[s] = "env" /\ resolved[s] = env[Supplier(s)]
      BY <2>1, <2>3 DEF Origin, Merged, TakesFile, FromEnvironment
    <3>2. /\ Supplier(s) = reported /\ Found(reported)
          /\ reported = Alias => ~Found(s)
      BY <2>1, <2>2, <2>3 DEF Supplier
    <3>3. env[reported] # Bad
      BY <2>1, <2>3, <3>2 DEF FromEnvironment
    <3>. HIDE DEF reported
    <3>. QED  BY <3>1, <3>2, <3>3 DEF Found, reported
  <2>4. CASE Supplier(s) = Unset
    <3>1. ~Found(s) /\ (s = Aliased => ~Found(Alias))
      BY <2>2, <2>4 DEF Supplier
    <3>2. CASE TakesFile(s)
      <4>1. origins[s] = "file" /\ resolved[s] = Decoded(s)
        BY <2>1, <2>4, <3>2 DEF Origin, Merged
      <4>2. Key(s) # Missing /\ source = "file" /\ misfit # "list"
        BY <2>1, <3>2 DEF TakesFile, HasKey
      <4>. QED  BY <2>1, <3>1, <4>1, <4>2 DEF Found, Decoded
    <3>3. CASE ~TakesFile(s)
      <4>1. origins[s] = "default" /\ resolved[s] = Default[s]
        BY <2>1, <2>4, <3>3 DEF Origin, Merged, FromEnvironment
      <4>2. ~(source = "file" /\ misfit # "list" /\ Key(s) # Missing)
        BY <2>1, <2>4, <3>3 DEF TakesFile, HasKey
      <4>. QED  BY <3>1, <4>1, <4>2 DEF Found
    <3>. QED  BY <3>2, <3>3
  <2>. QED  BY <2>3, <2>4
<1>. QED  BY <1>1, SettingsInvariance, PTL

\* config print: what is printed is read back as the same configuration.
THEOREM PrintIsReadBack == SettingsSpec => []RoundTrip
<1>1. SettingsInv => RoundTrip
  <2>. SUFFICES ASSUME SettingsInv, stage = "loaded", first # {} PROVE RoundTrip
    BY DEF RoundTrip
  <2>1. Usable
    BY DEF SettingsInv, SettingsTypeOK, Verdicts, ReadAgain, Usable, Loading
  <2>2. PICK c \in first : first = {c}
    BY DEF SettingsInv, ReadAgain
  <2>3. ASSUME NEW s \in Names PROVE resolved[s] = c[s]
    <3>1. doc[s] = file[s] /\ source = "file" /\ misfit = "none"
      BY DEF SettingsInv, DocumentRead, ReadAgain, Key
    <3>2. Supplier(s) = Unset
      BY Sample DEF SettingsInv, ReadAgain, Supplier, Found
    <3>3. resolved[s] = IF file[s] # Missing THEN Decoded(s) ELSE Default[s]
      BY <2>1, <3>1, <3>2 DEF SettingsInv, Resolution, Merged, TakesFile, HasKey, FromEnvironment
    <3>4. /\ c[s] \in Value
          /\ file[s] = c[s] \/ (file[s] = Missing /\ c[s] = Default[s])
      BY DEF SettingsInv, SettingsTypeOK, ReadAgain, Prints
    <3>. QED  BY <3>1, <3>3, <3>4, Apart DEF Decoded
  <2>4. resolved = c
    BY <2>3 DEF SettingsInv, SettingsTypeOK
  <2>5. (CHOOSE d \in first : TRUE) = resolved
    BY <2>2, <2>4
  <2>6. diags = {}
    BY DEF SettingsInv, ReadAgain
  <2>7. status = "accepted" <=> Valid(resolved)
    BY <2>1, <2>6 DEF SettingsInv, Verdicts, Errors, Loading
  <2>. QED  BY <2>1, <2>2, <2>4, <2>5, <2>6, <2>7 DEF RoundTrip
<1>. QED  BY <1>1, SettingsInvariance, PTL

\* Load: an accepted configuration has ignored nothing.
THEOREM AcceptedIgnoresNothing == SettingsSpec => []NothingIgnored
<1>1. SettingsInv => NothingIgnored
  <2>. SUFFICES ASSUME SettingsInv, stage = "loaded", status = "accepted" PROVE NothingIgnored
    BY DEF NothingIgnored
  <2>1. diags \ {"renamed", "strayVariable"} = {}
    BY DEF SettingsInv, Verdicts, Usable, Loading, Errors
  <2>2. stray = "prefixed" => "strayVariable" \in diags
    BY DEF SettingsInv, Complaints
  <2>3. misfit \in {"none", "heldKey"}
    <3>1. source = "env" \/ misfit \in {"none", "heldKey"}
      BY <2>1 DEF SettingsInv, SettingsTypeOK, Complaints, Misfits, Reported
    <3>. QED  BY <3>1 DEF SettingsInv, Inputs
  <2>4. ASSUME source = "file", NEW s \in Names
        PROVE  /\ Key(s) # Bad
               /\ Key(s) \notin {Missing, Null} => resolved[s] = Key(s) \/ origins[s] = "env"
    <3>1. /\ doc[s] = Key(s) /\ resolved[s] = Merged(s) /\ origins[s] = Origin(s)
      BY DEF SettingsInv, DocumentRead, Resolution, Usable
    <3>2. doc[s] # Bad
      BY <2>1, <2>4 DEF SettingsInv, Complaints
    <3>3. TakesFile(s) \/ origins[s] = "env" \/ Key(s) = Missing
      BY <2>3, <2>4, <3>1 DEF TakesFile, HasKey, Origin
    <3>. QED  BY <3>1, <3>2, <3>3 DEF Merged, Decoded
  <2>. QED  BY <2>2, <2>3, <2>4 DEF NothingIgnored
<1>. QED  BY <1>1, SettingsInvariance, PTL

\* validateRuntimeZeros: the service runs on the numbers that are printed.
THEOREM ServiceRunsAsPrinted == SettingsSpec => []RunsAsPrinted
<1>1. SettingsInv => RunsAsPrinted
  <2>. SUFFICES ASSUME SettingsInv, stage = "done", command.kind = "start", command.ok,
                       NEW s \in Names \ {"enqueueTimeout"}
       PROVE  command.runs[s] = resolved[s]
    BY DEF RunsAsPrinted
  <2>1. status = "accepted" /\ command.runs[s] = RunsOn(s, resolved[s])
    BY DEF SettingsInv, Commands
  <2>2. Valid(resolved)
    BY <2>1 DEF SettingsInv, Verdicts, Usable, Loading
  <2>3. /\ resolved["workers"] > 0 /\ resolved["genTimeout"] > 0 /\ resolved["burst"] > 0
        /\ resolved["cacheTTL"] > 0 /\ resolved["preCreate"] >= 0
        /\ resolved["maxOutput"] > 0 /\ resolved["maxSend"] >= resolved["maxOutput"]
    BY <2>2 DEF Valid, ValidWorkerPool, ValidRateLimit, ValidAudit, ValidSizes, ValidRuntimeZeros
  <2>4. {"workers", "genTimeout", "burst", "cacheTTL", "preCreate", "maxOutput", "maxSend"}
            \subseteq Names
    BY DEF Names, Default
  <2>5. resolved \in [Names -> Int]
    BY DEF SettingsInv, SettingsTypeOK, Value
  <2>6. resolved["maxSend"] > 0
    BY <2>3, <2>4, <2>5
  <2>. QED  BY <2>1, <2>3, <2>4, <2>5, <2>6 DEF RunsOn
<1>. QED  BY <1>1, SettingsInvariance, PTL

\* fillFromConfig: credentials travel as a pair.
THEOREM PairIsKept == SettingsSpec => []PairKept
<1>1. SettingsInv => PairKept
  <2>. SUFFICES ASSUME SettingsInv, stage = "done", command.kind = "push", command.ok
       PROVE  PairKept
    BY DEF PairKept
  <2>1. PICK flags \in SUBSET {"bucket", "accessKey", "secretKey"} :
            command.credentials = Credentials(flags)
    BY DEF SettingsInv, Commands
  <2>2. {"accessKey", "secretKey"} \subseteq Names
    BY DEF Names, Default
  <2>3. resolved["accessKey"] # Flag /\ resolved["secretKey"] # Flag /\ Flag # 0
    BY <2>2, Apart, Sample DEF SettingsInv, SettingsTypeOK
  <2>. QED  BY <2>1, <2>3 DEF Credentials, PairKept
<1>. QED  BY <1>1, SettingsInvariance, PTL

===============================================================================
