----------------------------- MODULE HTTPServer -----------------------------
(***************************************************************************)
(* httpserver.Server: Start binds a socket and leaves a goroutine serving  *)
(* it, Shutdown seals the Server and waits for the requests in flight,     *)
(* CloseListener or the operating system takes a socket away, and requests *)
(* arrive.  Calls overlap freely; the mutex covers only the fields of      *)
(* Server, not the bind, and not the gap between Shutdown's two halves.    *)
(*                                                                         *)
(* net/http is external: Serve registers its listener unless the server is *)
(* already in shutdown; Shutdown closes the registered listeners, waits    *)
(* for their Serve to return and then for the connections.                 *)
(***************************************************************************)
CONSTANTS
    Starts,      \* the calls of Start
    Stops,       \* the calls of Shutdown
    Requests,    \* the requests of clients, one connection each
    NoStart      \* s.ln is nil

ASSUME ServerAssumption == NoStart \notin Starts

VARIABLES
    start,       \* start[s]: where call s of Start is
    ln,          \* s.ln, the Start whose socket it is
    shutDown,    \* s.shutDown
    sock,        \* sock[s]: the socket that s bound
    serve,       \* serve[s]: the goroutine that s left
    reported,    \* the goroutines that called OnServeError
    inShutdown,  \* http.Server's own flag
    stop,        \* stop[c]: where call c of Shutdown is
    req          \* req[q]: where request q is

calls  == <<start, stop>>
fields == <<ln, shutDown>>
vars   == <<start, ln, shutDown, sock, serve, reported, inShutdown, stop, req>>

TypeOK ==
    /\ start \in [Starts -> {"idle", "checked", "bound", "ok", "error"}]
    /\ ln \in Starts \cup {NoStart} /\ shutDown \in BOOLEAN
    /\ sock \in [Starts -> {"none", "bound", "dead", "closed"}]
    /\ serve \in [Starts -> {"none", "spawned", "accepting", "ended"}]
    /\ reported \subseteq {s \in Starts : serve[s] = "ended"} /\ inShutdown \in BOOLEAN
    /\ stop \in [Stops -> {"idle", "sealed", "draining", "noop", "ok", "expired"}]
    /\ req \in [Requests -> {"none", "accepted", "running", "done"}]

Init ==
    /\ start = [s \in Starts |-> "idle"] /\ ln = NoStart /\ shutDown = FALSE
    /\ sock = [s \in Starts |-> "none"] /\ serve = [s \in Starts |-> "none"]
    /\ reported = {} /\ inShutdown = FALSE
    /\ stop = [c \in Stops |-> "idle"]
    /\ req = [q \in Requests |-> "none"]

-----------------------------------------------------------------------------
(* Start.                                                                  *)

(* The context is done already, or a Shutdown has stopped this Server.     *)
StartRefused(s, ctxDone) ==
    /\ start[s] = "idle" /\ (ctxDone \/ shutDown)
    /\ start' = [start EXCEPT ![s] = "error"]
    /\ UNCHANGED <<fields, sock, serve, reported, inShutdown, stop, req>>

StartChecked(s) ==
    /\ start[s] = "idle" /\ ~shutDown
    /\ start' = [start EXCEPT ![s] = "checked"]
    /\ UNCHANGED <<fields, sock, serve, reported, inShutdown, stop, req>>

Listen(s) ==
    /\ start[s] = "checked"
    /\ start' = [start EXCEPT ![s] = "bound"]
    /\ sock' = [sock EXCEPT ![s] = "bound"]
    /\ UNCHANGED <<fields, serve, reported, inShutdown, stop, req>>

ListenFails(s) ==
    /\ start[s] = "checked"
    /\ start' = [start EXCEPT ![s] = "error"]
    /\ UNCHANGED <<fields, sock, serve, reported, inShutdown, stop, req>>

StartReturns(s) ==
    /\ start[s] = "bound"
    /\ start' = [start EXCEPT ![s] = "ok"]
    /\ ln' = s
    /\ serve' = [serve EXCEPT ![s] = "spawned"]
    /\ UNCHANGED <<shutDown, sock, reported, inShutdown, stop, req>>

-----------------------------------------------------------------------------
(* The goroutine.                                                          *)

(* Serve registers the listener; in shutdown it closes it and returns      *)
(* ErrServerClosed, which the goroutine drops.                             *)
ServeBegins(s) ==
    /\ serve[s] = "spawned"
    /\ IF inShutdown
         THEN /\ serve' = [serve EXCEPT ![s] = "ended"]
              /\ sock' = [sock EXCEPT ![s] = "closed"]
         ELSE /\ serve' = [serve EXCEPT ![s] = "accepting"] /\ UNCHANGED sock
    /\ UNCHANGED <<start, fields, reported, inShutdown, stop, req>>

ServeClosed(s) ==
    /\ serve[s] = "accepting" /\ sock[s] # "bound" /\ inShutdown
    /\ serve' = [serve EXCEPT ![s] = "ended"]
    /\ sock' = [sock EXCEPT ![s] = "closed"]
    /\ UNCHANGED <<start, fields, reported, inShutdown, stop, req>>

(* Mutant of ServeFails: the error is dropped.                             *)
ServeFailsQuietly(s) ==
    /\ serve[s] = "accepting" /\ sock[s] # "bound" /\ ~inShutdown
    /\ serve' = [serve EXCEPT ![s] = "ended"]
    /\ sock' = [sock EXCEPT ![s] = "closed"]
    /\ UNCHANGED <<start, fields, reported, inShutdown, stop, req>>

(* Accept failed and nobody asked the server to stop: OnServeError.        *)
ServeFails(s) ==
    /\ serve[s] = "accepting" /\ sock[s] # "bound" /\ ~inShutdown
    /\ serve' = [serve EXCEPT ![s] = "ended"]
    /\ sock' = [sock EXCEPT ![s] = "closed"]
    /\ reported' = reported \cup {s}
    /\ UNCHANGED <<start, fields, inShutdown, stop, req>>

(* CloseListener, and the operating system: the current socket dies.       *)
CloseListener ==
    /\ ln # NoStart /\ sock[ln] = "bound"
    /\ sock' = [sock EXCEPT ![ln] = "dead"]
    /\ UNCHANGED <<calls, fields, serve, reported, inShutdown, req>>

-----------------------------------------------------------------------------
(* Shutdown.                                                               *)

ShutdownNoop(c) ==
    /\ stop[c] = "idle" /\ ln = NoStart
    /\ stop' = [stop EXCEPT ![c] = "noop"]
    /\ UNCHANGED <<start, fields, sock, serve, reported, inShutdown, req>>

ShutdownSeals(c) ==
    /\ stop[c] = "idle" /\ ln # NoStart
    /\ stop' = [stop EXCEPT ![c] = "sealed"]
    /\ shutDown' = TRUE
    /\ UNCHANGED <<start, ln, sock, serve, reported, inShutdown, req>>

(* http.Server.Shutdown raises its flag, then closes what is registered.   *)
ShutdownCloses(c) ==
    /\ stop[c] = "sealed"
    /\ stop' = [stop EXCEPT ![c] = "draining"]
    /\ inShutdown' = TRUE
    /\ sock' = [s \in Starts |-> IF serve[s] = "accepting" THEN "closed" ELSE sock[s]]
    /\ UNCHANGED <<start, fields, serve, reported, req>>

(* Mutants of ShutdownDone: it does not wait for the requests; it does not *)
(* call the http.Server's Shutdown.                                        *)
ShutdownHasty(c) ==
    /\ stop[c] = "draining"
    /\ \A s \in Starts : serve[s] # "accepting"
    /\ stop' = [stop EXCEPT ![c] = "ok"]
    /\ UNCHANGED <<start, fields, sock, serve, reported, inShutdown, req>>

ShutdownSkipped(c) ==
    /\ stop[c] = "sealed"
    /\ stop' = [stop EXCEPT ![c] = "ok"]
    /\ UNCHANGED <<start, fields, sock, serve, reported, inShutdown, req>>

ShutdownDone(c) ==
    /\ stop[c] = "draining"
    /\ \A s \in Starts : serve[s] # "accepting"
    /\ \A q \in Requests : req[q] \notin {"accepted", "running"}
    /\ stop' = [stop EXCEPT ![c] = "ok"]
    /\ UNCHANGED <<start, fields, sock, serve, reported, inShutdown, req>>

(* The context given to Shutdown is done first.                            *)
ShutdownExpires(c) ==
    /\ stop[c] = "draining"
    /\ stop' = [stop EXCEPT ![c] = "expired"]
    /\ UNCHANGED <<start, fields, sock, serve, reported, inShutdown, req>>

-----------------------------------------------------------------------------
(* Requests.                                                               *)

Accept(q) ==
    /\ req[q] = "none"
    /\ \E s \in Starts : serve[s] = "accepting" /\ sock[s] = "bound"
    /\ req' = [req EXCEPT ![q] = "accepted"]
    /\ UNCHANGED <<calls, fields, sock, serve, reported, inShutdown>>

Handle(q) ==
    /\ req[q] = "accepted"
    /\ req' = [req EXCEPT ![q] = "running"]
    /\ UNCHANGED <<calls, fields, sock, serve, reported, inShutdown>>

(* The handler returns.                                                    *)
Answer(q) ==
    /\ req[q] = "running"
    /\ req' = [req EXCEPT ![q] = "done"]
    /\ UNCHANGED <<calls, fields, sock, serve, reported, inShutdown>>

(* A connection that sent no request, or whose client left.                *)
Hangup(q) ==
    /\ req[q] = "accepted"
    /\ req' = [req EXCEPT ![q] = "done"]
    /\ UNCHANGED <<calls, fields, sock, serve, reported, inShutdown>>

-----------------------------------------------------------------------------
StartStep(s) ==
    \/ StartRefused(s, FALSE) \/ StartChecked(s) \/ Listen(s) \/ ListenFails(s)
    \/ StartReturns(s)
ServeStep(s) == ServeBegins(s) \/ ServeClosed(s) \/ ServeFails(s)
StopStep(c) ==
    \/ ShutdownNoop(c) \/ ShutdownSeals(c) \/ ShutdownCloses(c) \/ ShutdownDone(c)

Next ==
    \/ \E s \in Starts : StartStep(s) \/ ServeStep(s) \/ StartRefused(s, TRUE)
    \/ \E c \in Stops : StopStep(c) \/ ShutdownExpires(c)
    \/ \E q \in Requests : Accept(q) \/ Handle(q) \/ Answer(q) \/ Hangup(q)
    \/ CloseListener

Spec == Init /\ [][Next]_vars

(* Calls under way and goroutines proceed.  Nothing makes a call begin or  *)
(* a handler return.                                                       *)
Proceeds ==
    /\ \A s \in Starts : WF_vars(start[s] # "idle" /\ StartStep(s)) /\ WF_vars(ServeStep(s))
    /\ \A c \in Stops : WF_vars(stop[c] # "idle" /\ StopStep(c))

-----------------------------------------------------------------------------
(* When a Shutdown that stopped something has returned nil, no handler is  *)
(* running and none will: also when a second Start, which had read         *)
(* shutDown before, finishes behind its back (server.go:141).              *)
ShutdownDrains ==
    \A c \in Stops : stop[c] = "ok" =>
        \A q \in Requests : req[q] \notin {"accepted", "running"}

(* OnServeError is called for a listener that died, and never because of a *)
(* Shutdown, whichever of the two the goroutine notices first, and however *)
(* many Starts left goroutines behind (server.go:42-44).                   *)
OnlyDeathsReported ==
    [][ \A s \in Starts : s \in reported' \ reported => sock[s] = "dead" ]_vars

(* And a socket that dies under a Server nobody asked to stop is reported, *)
(* so that no listener dies in silence (server.go:168-179).                *)
DeathIsReported ==
    /\ OnlyDeathsReported
    /\ \A s \in Starts :
         (start[s] = "ok" /\ sock[s] = "dead") ~> (s \in reported \/ shutDown)

(* Once a Shutdown has returned, in time or not, the sockets of all Starts *)
(* that return close and stay closed; a Start that was under way leaves    *)
(* none behind (server.go:93-96).                                          *)
NothingLeftListening ==
    \A c \in Stops, s \in Starts :
        (stop[c] \in {"ok", "expired"}) ~> [](start[s] = "ok" => sock[s] # "bound")
=============================================================================
