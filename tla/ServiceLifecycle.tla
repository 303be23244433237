--------------------------- MODULE ServiceLifecycle ---------------------------
(***************************************************************************)
(* The start and the end of every service of the committer:                 *)
(* StartAndServe of utils/serve/start_serve.go with the readiness flag of   *)
(* utils/channel/ready.go.  A service runs in one goroutine, is awaited by  *)
(* another, and is then exposed by servers with a gRPC and an HTTP listener *)
(* each; any of them may fail at any point, and all must then end.          *)
(***************************************************************************)
EXTENDS Integers, Sequences, FiniteSets

CONSTANTS
  Servers,   \* the server configurations
  Endpoints, \* the endpoints that each configures, in the order they are bound
  MaxFaults  \* bound on failures of the service and of the servers

ASSUME LifecycleAssumption == Endpoints \in Seq({"grpc", "http"}) /\ MaxFaults \in Nat

VARIABLES
  cancelled, \* the context of StartAndServe has ended
  err,       \* the first error recorded by the group
  run,       \* the service's goroutine: "init", "ready", "returned", "cancelled", "ended"
  runErr,    \* what Run returned
  flags,     \* the successive ready objects: "open", "ready" or "closed"
  main,      \* StartAndServe: "load", "wait", "refused", "serving", "returned"
  waitFor,   \* the ready object that WaitForReady has loaded
  srv,       \* each server's goroutine: "idle", "bind", "serve", "stop", "returned",
             \*   "cancelled", "ended"
  srvErr,    \* what Serve returned
  listener,  \* each endpoint: "none", "bound", "accepting", "failed", "closed"
  result,    \* the result of StartAndServe
  faults

service == <<run, runErr, flags>>
starter == <<main, waitFor, result>>
servers == <<srv, srvErr, listener>>
vars == <<cancelled, err, service, starter, servers, faults>>

Names == {Endpoints[i] : i \in DOMAIN Endpoints}
OK == "nil"
Canceled == "context canceled"
Failure == "failure"
NotReturned == "not returned"

\* The group's context, which the service and the servers receive.
gDone == cancelled \/ err # OK

Init ==
  /\ cancelled = FALSE /\ err = OK
  /\ run = "init" /\ runErr = OK /\ flags = <<"open">>
  /\ main = "load" /\ waitFor = 0 /\ result = NotReturned
  /\ srv = [s \in Servers |-> "idle"] /\ srvErr = [s \in Servers |-> OK]
  /\ listener = [s \in Servers |-> [e \in Names |-> "none"]]
  /\ faults = 0

-----------------------------------------------------------------------------
(* The ready object.  The first of Signal, Close and Reset decides it.      *)

fire(to) == IF flags[Len(flags)] = "open" THEN [flags EXCEPT ![Len(flags)] = to] ELSE flags

SignalReady ==
  /\ run = "init" /\ ~gDone
  /\ run' = "ready"
  /\ flags' = fire("ready")
  /\ UNCHANGED <<cancelled, err, runErr, starter, servers, faults>>

Reset == Append(fire("closed"), "open")

-----------------------------------------------------------------------------
(* The service's goroutine: Run, its deferred Reset, the deferred cancel,    *)
(* and then the error that the group records.                               *)

\* Run ends by itself, as the load generator does when its work is done, or with its context.
RunReturns ==
  /\ run \in {"init", "ready"}
  /\ \/ faults < MaxFaults /\ faults' = faults + 1 /\ runErr' \in {OK, Failure}
     \/ gDone /\ runErr' \in {OK, Canceled} /\ UNCHANGED faults
  /\ flags' = IF run = "ready" THEN Reset ELSE flags
  /\ run' = "returned"
  /\ UNCHANGED <<cancelled, err, starter, servers>>

cancel_Skipped == cancelled
cancel == TRUE

RunCancels ==
  /\ run = "returned"
  /\ cancelled' = cancel
  /\ run' = "cancelled"
  /\ UNCHANGED <<err, runErr, flags, starter, servers, faults>>

record(e) == err' = IF err = OK THEN e ELSE err

RunEnds ==
  /\ run = "cancelled"
  /\ record(runErr)
  /\ run' = "ended"
  /\ UNCHANGED <<cancelled, runErr, flags, starter, servers, faults>>

-----------------------------------------------------------------------------
(* StartAndServe.                                                           *)

LoadReady ==
  /\ main = "load"
  /\ waitFor' = Len(flags)
  /\ main' = "wait"
  /\ UNCHANGED <<cancelled, err, service, result, servers, faults>>

\* A select with several ready cases takes any of them; the startup timeout may pass at any
\* time.
WaitForReady ==
  /\ main = "wait"
  /\ \/ /\ flags[waitFor] = "ready"
        /\ main' = "serving"
        /\ srv' = [s \in Servers |-> "bind"]
        /\ UNCHANGED cancelled
     \/ /\ flags[waitFor] = "closed" \/ gDone
        /\ main' = "refused"
        /\ cancelled' = TRUE
        /\ UNCHANGED srv
  /\ UNCHANGED <<err, service, waitFor, result, srvErr, listener, faults>>

StartupTimeout ==
  /\ main = "wait" /\ faults < MaxFaults
  /\ faults' = faults + 1
  /\ main' = "refused"
  /\ cancelled' = TRUE
  /\ UNCHANGED <<err, service, waitFor, result, servers>>

\* g.Wait.
Return ==
  /\ \/ main = "refused" /\ run = "ended"
     \/ main = "serving" /\ run = "ended" /\ \A s \in Servers : srv[s] = "ended"
  /\ main' = "returned"
  /\ result' = err
  /\ UNCHANGED <<cancelled, err, service, waitFor, servers, faults>>

-----------------------------------------------------------------------------
(* One server.                                                              *)

unbound(s) == {i \in DOMAIN Endpoints : listener[s][Endpoints[i]] = "none"}
nextUnbound(s) == Endpoints[CHOOSE i \in unbound(s) : \A j \in unbound(s) : i <= j]

\* Stop, once: it closes whatever NewServers has bound.
closed_First(s) == [e \in Names |->
                      IF e = Endpoints[1] /\ listener[s][e] # "none" THEN "closed" ELSE listener[s][e]]
closed(s) == [e \in Names |-> IF listener[s][e] = "none" THEN "none" ELSE "closed"]

\* NewServers binds the listeners in turn; a port in use is tried again until the context
\* ends.  Stop is deferred before the error is returned.
Bind(s) ==
  /\ srv[s] = "bind" /\ unbound(s) # {}
  /\ listener' = [listener EXCEPT ![s][nextUnbound(s)] = "bound"]
  /\ UNCHANGED <<cancelled, err, service, starter, srv, srvErr, faults>>

BindFails(s) ==
  /\ srv[s] = "bind" /\ unbound(s) # {}
  /\ \/ faults < MaxFaults /\ faults' = faults + 1 /\ srvErr' = [srvErr EXCEPT ![s] = Failure]
     \/ gDone /\ srvErr' = [srvErr EXCEPT ![s] = Canceled] /\ UNCHANGED faults
  /\ listener' = [listener EXCEPT ![s] = closed(s)]
  /\ srv' = [srv EXCEPT ![s] = "returned"]
  /\ UNCHANGED <<cancelled, err, service, starter>>

RegisterService(s) ==
  /\ srv[s] = "bind" /\ unbound(s) = {}
  /\ srv' = [srv EXCEPT ![s] = "serve"]
  /\ UNCHANGED <<cancelled, err, service, starter, srvErr, listener, faults>>

\* The goroutine of an endpoint begins to accept, or finds the server stopped.
Accept(s, e) ==
  /\ srv[s] = "serve" /\ listener[s][e] = "bound"
  /\ listener' = [listener EXCEPT ![s][e] = "accepting"]
  /\ UNCHANGED <<cancelled, err, service, starter, srv, srvErr, faults>>

EndpointFails(s, e) ==
  /\ listener[s][e] = "accepting" /\ faults < MaxFaults
  /\ faults' = faults + 1
  /\ listener' = [listener EXCEPT ![s][e] = "failed"]
  /\ UNCHANGED <<cancelled, err, service, starter, srv, srvErr>>

\* The context ends, or an endpoint fails; Stop ends the other endpoints.  The error of an
\* endpoint that was stopped counts for nothing, and may come before a failure when the
\* context has ended.
stopped(s) == gDone \/ \E e \in Names : listener[s][e] = "failed"

serveErrs(s) ==
  IF \E e \in Names : listener[s][e] = "failed"
  THEN {Failure} \cup (IF gDone THEN {OK} ELSE {}) ELSE {OK}

Serve(s) ==
  /\ srv[s] = "serve" /\ stopped(s)
  /\ \E e \in serveErrs(s) : srvErr' = [srvErr EXCEPT ![s] = e]
  /\ listener' = [listener EXCEPT ![s] = closed(s)]
  /\ srv' = [srv EXCEPT ![s] = "returned"]
  /\ UNCHANGED <<cancelled, err, service, starter, faults>>

ServeCancels(s) ==
  /\ srv[s] = "returned"
  /\ cancelled' = TRUE
  /\ srv' = [srv EXCEPT ![s] = "cancelled"]
  /\ UNCHANGED <<err, service, starter, srvErr, listener, faults>>

ServeEnds(s) ==
  /\ srv[s] = "cancelled"
  /\ record(srvErr[s])
  /\ srv' = [srv EXCEPT ![s] = "ended"]
  /\ UNCHANGED <<cancelled, service, starter, srvErr, listener, faults>>

-----------------------------------------------------------------------------
\* The caller cancels the context it gave, as a signal to the process does.
Interrupt ==
  /\ ~cancelled /\ faults < MaxFaults
  /\ cancelled' = TRUE
  /\ faults' = faults + 1
  /\ UNCHANGED <<err, service, starter, servers>>

Internal ==
  \/ SignalReady \/ (gDone /\ RunReturns) \/ RunCancels \/ RunEnds
  \/ LoadReady \/ WaitForReady \/ Return
  \/ \E s \in Servers :
       \/ Bind(s) \/ RegisterService(s) \/ (gDone /\ BindFails(s)) \/ Serve(s)
       \/ ServeCancels(s) \/ ServeEnds(s)
       \/ \E e \in Names : Accept(s, e)

Next ==
  \/ Internal \/ RunReturns \/ StartupTimeout \/ Interrupt
  \/ \E s \in Servers : BindFails(s) \/ \E e \in Names : EndpointFails(s, e)

Spec == Init /\ [][Next]_vars

\* Every goroutine goes on, and a service returns once its context has ended.
FairSpec == Spec /\ WF_vars(Internal)

-----------------------------------------------------------------------------
(* Properties.                                                              *)

\* A listener is open only while StartAndServe has seen the service ready, and when it
\* returns, the service has returned and every listener is closed, whichever part failed
\* first and however far the others had come (start_serve.go:73 and :211).
NothingLeft ==
  /\ (\E s \in Servers, e \in Names : listener[s][e] # "none") => "ready" \in {flags[i] : i \in DOMAIN flags}
  /\ main = "returned" =>
       /\ run = "ended"
       /\ \A s \in Servers, e \in Names : listener[s][e] \in {"none", "closed"}

\* Once the service has returned, a server has failed, the context has ended or the startup
\* timeout has passed, StartAndServe returns; until then it serves (start_serve.go:109).
EndsTogether ==
  /\ (run = "returned" \/ cancelled \/ \E s \in Servers : srv[s] = "returned") ~> main = "returned"
  /\ <>(main = "serving" \/ gDone)
=============================================================================
