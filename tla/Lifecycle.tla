------------------------------ MODULE Lifecycle ------------------------------
(***************************************************************************)
(* One run of the process, from app.Run to its return: components.Init,    *)
(* app.Start, the HTTP service of components/httpserver/server.go with its *)
(* graceful shutdown, and components.WaitAndClose.                         *)
(*                                                                         *)
(* The main goroutine, the routine that refreshes dbkv, the routine of the *)
(* HTTP service, the shutdown goroutine and the request handlers run       *)
(* beside each other; a cancelled context is all that stops them.          *)
(***************************************************************************)
EXTENDS Naturals, Sequences, SequencesExt

CONSTANT Request

(* The order of components.Init, and of Close.  Security, GeoIP and email  *)
(* hold nothing that is closed.                                            *)
InitOrder == <<"log", "security", "geoip", "lcache", "redis", "db", "routine",
               "statistics", "http", "email">>

(* Mutant: the database is closed before the service that uses it. *)
CloseOrderForgetful == <<"http", "statistics", "redis", "lcache", "log">>

CloseOrder == <<"http", "statistics", "redis", "db", "lcache", "log">>

VARIABLES main,      \* the main goroutine
          step,      \* how many components main has initialised or closed
          open,      \* the components that are initialised and not closed
          cancelled, \* the application context
          worker,    \* the refresh routine of dbkv
          http,      \* the routine of the HTTP service
          shutdown,  \* the function that waits for the context to end
          request,   \* the request handlers
          failed,    \* history: an error that must end the process
          forced     \* history: connections were closed under handlers

vars == <<main, step, open, cancelled, worker, http, shutdown, request,
          failed, forced>>

TypeOK ==
    /\ main \in {"components", "dbkv", "service", "wait", "close", "exited"}
    /\ step \in 0..Len(InitOrder)
    /\ open \subseteq ToSet(InitOrder)
    /\ cancelled \in BOOLEAN
    /\ worker \in {"none", "running", "done"}
    /\ http \in {"none", "register", "listen", "serving", "broken", "stopped",
                 "await", "ended"}
    /\ shutdown \in {"none", "armed", "draining", "done", "disarmed"}
    /\ http \in {"listen", "serving", "broken", "stopped", "await"}
          => shutdown # "none"
    /\ request \in [Request -> {"none", "running", "done"}]
    /\ failed \in BOOLEAN
    /\ forced \in BOOLEAN

Init ==
    /\ main = "components"
    /\ step = 0
    /\ open = {}
    /\ cancelled = FALSE
    /\ worker = "none"
    /\ http = "none"
    /\ shutdown = "none"
    /\ request = [r \in Request |-> "none"]
    /\ failed = FALSE
    /\ forced = FALSE

Running == {r \in Request : request[r] = "running"}

-----------------------------------------------------------------------------
(* app.Run: the components are initialised one after the other; the first  *)
(* error cancels the context and leads to WaitAndClose.                    *)

InitComponent ==
    /\ main = "components"
    /\ step < Len(InitOrder)
    /\ step' = step + 1
    /\ open' = open \cup {InitOrder[step + 1]}
    /\ UNCHANGED <<main, cancelled, worker, http, shutdown, request, failed, forced>>

InitFails ==
    /\ main = "components"
    /\ step < Len(InitOrder)
    /\ main' = "wait"
    /\ cancelled' = TRUE
    /\ failed' = TRUE
    /\ UNCHANGED <<step, open, worker, http, shutdown, request, forced>>

InitDone ==
    /\ main = "components"
    /\ step = Len(InitOrder)
    /\ main' = "dbkv"
    /\ UNCHANGED <<step, open, cancelled, worker, http, shutdown, request,
                   failed, forced>>

(* app.Start *)
DbkvInit ==
    /\ main = "dbkv"
    /\ \/ /\ main' = "service"
          /\ worker' = "running"
          /\ UNCHANGED <<cancelled, failed>>
       \/ /\ main' = "wait"
          /\ cancelled' = TRUE
          /\ failed' = TRUE
          /\ UNCHANGED worker
    /\ UNCHANGED <<step, open, http, shutdown, request, forced>>

(* When the routine of the service cannot be started the context is not    *)
(* cancelled: main then waits for the dbkv routine until a signal comes.   *)
StartService ==
    /\ main = "service"
    /\ main' = "wait"
    /\ http' \in {"register", "none"}
    /\ UNCHANGED <<step, open, cancelled, worker, shutdown, request, failed, forced>>

RoutinesEnded == worker \in {"none", "done"} /\ http \in {"none", "ended"}

Wait ==
    /\ main = "wait"
    /\ RoutinesEnded
    /\ main' = "close"
    /\ step' = 0
    /\ UNCHANGED <<open, cancelled, worker, http, shutdown, request, failed, forced>>

CloseComponent ==
    /\ main = "close"
    /\ step < Len(CloseOrder)
    /\ step' = step + 1
    /\ open' = open \ {CloseOrder[step + 1]}
    /\ UNCHANGED <<main, cancelled, worker, http, shutdown, request, failed, forced>>

Exit ==
    /\ main = "close"
    /\ step = Len(CloseOrder)
    /\ main' = "exited"
    /\ worker' = IF worker = "running" THEN "done" ELSE worker
    /\ request' = [r \in Request |-> IF r \in Running THEN "done" ELSE request[r]]
    /\ UNCHANGED <<step, open, cancelled, http, shutdown, failed, forced>>

-----------------------------------------------------------------------------
(* Interrupt or SIGTERM. *)
Signal ==
    /\ main # "exited"
    /\ ~ cancelled
    /\ cancelled' = TRUE
    /\ UNCHANGED <<main, step, open, worker, http, shutdown, request, failed, forced>>

WorkerEnds ==
    /\ worker = "running"
    /\ cancelled
    /\ worker' = "done"
    /\ UNCHANGED <<main, step, open, cancelled, http, shutdown, request, failed, forced>>

(* server.Start: the routes are registered, a panic there ends the routine *)
(* for good; then Server.Start sets up the shutdown and listens.           *)
Register ==
    /\ http = "register"
    /\ \/ /\ http' = "listen"
          /\ shutdown' = "armed"
          /\ UNCHANGED <<cancelled, failed>>
       \/ /\ http' = "ended"
          /\ cancelled' = TRUE
          /\ failed' = TRUE
          /\ UNCHANGED shutdown
    /\ UNCHANGED <<main, step, open, worker, request, forced>>

ShutdownCalled == shutdown \in {"draining", "done"}

Listen ==
    /\ http = "listen"
    /\ IF ShutdownCalled THEN http' = "stopped"
       ELSE http' \in {"serving", "broken"}
    /\ UNCHANGED <<main, step, open, cancelled, worker, shutdown, request,
                   failed, forced>>

Accept(r) ==
    /\ request[r] = "none"
    /\ http = "serving"
    /\ ~ ShutdownCalled
    /\ request' = [request EXCEPT ![r] = "running"]
    /\ UNCHANGED <<main, step, open, cancelled, worker, http, shutdown, failed, forced>>

Finish(r) ==
    /\ request[r] = "running"
    /\ request' = [request EXCEPT ![r] = "done"]
    /\ UNCHANGED <<main, step, open, cancelled, worker, http, shutdown, failed, forced>>

(* ListenAndServeTLS returns: the shutdown has begun, or accepting fails.  *)
(* Nobody drains the connections in the second case.                       *)
ServeReturns ==
    /\ http = "serving"
    /\ IF ShutdownCalled THEN http' = "stopped" /\ UNCHANGED forced
       ELSE http' = "broken" /\ forced' = TRUE
    /\ UNCHANGED <<main, step, open, cancelled, worker, shutdown, request, failed>>

(* Mutant: an error of the service is only logged. *)
DisarmOnly ==
    /\ http = "broken"
    /\ ~ cancelled
    /\ http' = "ended"
    /\ shutdown' = "disarmed"
    /\ failed' = TRUE
    /\ UNCHANGED <<main, step, open, cancelled, worker, request, forced>>

(* stopShutdown succeeds only while the context lives. *)
Disarm ==
    /\ http = "broken"
    /\ ~ cancelled
    /\ http' = "ended"
    /\ shutdown' = "disarmed"
    /\ cancelled' = TRUE
    /\ failed' = TRUE
    /\ UNCHANGED <<main, step, open, worker, request, forced>>

(* Mutant: the routine returns as soon as the server stops serving. *)
ReturnAtOnce ==
    /\ http \in {"stopped", "broken"}
    /\ http = "broken" => cancelled
    /\ http' = "ended"
    /\ UNCHANGED <<main, step, open, cancelled, worker, shutdown, request,
                   failed, forced>>

AwaitShutdown ==
    /\ http \in {"stopped", "broken"}
    /\ http = "broken" => cancelled
    /\ http' = "await"
    /\ UNCHANGED <<main, step, open, cancelled, worker, shutdown, request,
                   failed, forced>>

ServiceEnds ==
    /\ http = "await"
    /\ shutdown = "done"
    /\ http' = "ended"
    /\ UNCHANGED <<main, step, open, cancelled, worker, shutdown, request,
                   failed, forced>>

-----------------------------------------------------------------------------
(* The goroutine of context.AfterFunc. *)
BeginShutdown ==
    /\ shutdown = "armed"
    /\ cancelled
    /\ shutdown' = "draining"
    /\ UNCHANGED <<main, step, open, cancelled, worker, http, request, failed, forced>>

Drained ==
    /\ shutdown = "draining"
    /\ Running = {}
    /\ shutdown' = "done"
    /\ UNCHANGED <<main, step, open, cancelled, worker, http, request, failed, forced>>

(* The shutdown timeout: the connections are closed, the handlers go on.   *)
GraceEnds ==
    /\ shutdown = "draining"
    /\ Running # {}
    /\ shutdown' = "done"
    /\ forced' = TRUE
    /\ UNCHANGED <<main, step, open, cancelled, worker, http, request, failed>>

MainStep ==
    \/ InitComponent
    \/ InitFails
    \/ InitDone
    \/ DbkvInit
    \/ StartService
    \/ Wait
    \/ CloseComponent
    \/ Exit

ServiceStep ==
    \/ Register
    \/ Listen
    \/ Disarm
    \/ AwaitShutdown
    \/ ServiceEnds

ShutdownStep ==
    \/ BeginShutdown
    \/ Drained
    \/ GraceEnds

Next ==
    /\ main # "exited"
    /\ \/ MainStep
       \/ Signal
       \/ WorkerEnds
       \/ ServiceStep
       \/ ServeReturns
       \/ ShutdownStep
       \/ \E r \in Request : Accept(r) \/ Finish(r)

Spec == Init /\ [][Next]_vars

(* Every goroutine is scheduled and the shutdown timeout comes; a handler  *)
(* may run for ever, and serving ends when a shutdown has begun.           *)
FairSpec ==
    /\ Spec
    /\ WF_vars(MainStep)
    /\ WF_vars(WorkerEnds)
    /\ WF_vars(ServiceStep)
    /\ WF_vars(ShutdownCalled /\ ServeReturns)
    /\ WF_vars(ShutdownStep)

-----------------------------------------------------------------------------
(* What a handler may use. *)
Needed == {"log", "lcache", "redis", "db", "statistics"}

(* Graceful shutdown: a handler finds every component open, unless its     *)
(* connection was closed by force after "the shutdown grace period"        *)
(* (README.md:145-146) or because accepting failed; and the dbkv routine,  *)
(* which nobody waits for but EasyRoutine.Wait, never reads from a closed  *)
(* database.                                                               *)
NothingUsedClosed ==
    /\ (Running # {} /\ ~ forced) => Needed \subseteq open
    /\ worker = "running" => "db" \in open

(* "Any Error return will be followed by Close being called"               *)
(* (components.go:72): wherever the start fails or stops, nothing that     *)
(* needs closing is left open at the end.                                  *)
AllClosedAtExit ==
    main = "exited" =>
        open \subseteq {"security", "geoip", "routine", "email"}

(* A signal, and an error of a component, of dbkv or of the service, end   *)
(* the process, even if a handler never returns.                           *)
StopsWhenTold == (cancelled \/ failed) ~> main = "exited"
=============================================================================
