--------------------------- MODULE ServerLifecycle ---------------------------
(***************************************************************************)
(* The server process from the start of run to its exit: start-up, the     *)
(* Serve goroutine, the signal, requests in flight, Shutdown with its      *)
(* deadline, and the deferred clean-up.                                    *)
(*                                                                         *)
(* net/http and pgxpool are external.  Of net/http the model keeps: Serve  *)
(* returns ErrServerClosed once Shutdown has begun and otherwise any other *)
(* error, closing the listener; connections outlive Serve; Shutdown closes *)
(* idle connections and returns nil when none is left, or the context's    *)
(* error.  Of pgxpool: Close refuses new acquisitions and waits for the    *)
(* acquired connections.                                                   *)
(***************************************************************************)
CONSTANT Conns        \* client connections

VARIABLES
    main,        \* where main stands
    signal,      \* "none", "buffered" in shutdownCh, or "received"
    serve,       \* the goroutine that runs srv.Serve
    serveErrCh,  \* the channel of capacity one: a set of at most one error
    inShutdown,  \* srv.Shutdown has begun
    expired,     \* the shutdown context's deadline has passed
    shutdownErr, \* what srv.Shutdown returned
    conn,        \* state of every client connection
    pool,        \* "none", "open" or "closing": the pgx pool
    exit         \* the process's exit status

vars == <<main, signal, serve, serveErrCh, inShutdown, expired, shutdownErr,
          conn, pool, exit>>

http == <<serve, serveErrCh, inShutdown, expired, shutdownErr, conn>>

Startup == {"load", "migrate", "open", "auth", "listen"}

Started == {"select", "shutdown", "await"}

Init ==
    /\ main = "load"
    /\ signal = "none"
    /\ serve = "none"
    /\ serveErrCh = {}
    /\ inShutdown = FALSE
    /\ expired = FALSE
    /\ shutdownErr = "none"
    /\ conn = [c \in Conns |-> "closed"]
    /\ pool = "none"
    /\ exit = "none"

-----------------------------------------------------------------------------
(* main and run *)

\* run returns: its deferred calls begin.
return(status) ==
    /\ main' = "cleanup"
    /\ exit' = status

\* A start-up step fails: configuration, migration, connection, identity
\* provider or listener.  Before the pool is open nothing is deferred.
StartupFails ==
    /\ main \in Startup
    /\ return("failed")
    /\ UNCHANGED <<signal, pool, http>>

StartupStep(from, to) ==
    /\ main = from
    /\ main' = to
    /\ UNCHANGED <<signal, exit, http>>

\* config.Load, Migrate and the configuration of human authentication.
Load == StartupStep("load", "migrate") /\ UNCHANGED pool
Migrate == StartupStep("migrate", "open") /\ UNCHANGED pool
OpenPool == StartupStep("open", "auth") /\ pool' = "open"
ConfigureAuth == StartupStep("auth", "listen") /\ UNCHANGED pool

\* The listener is open and serveUntilShutdown starts the goroutine.
Listen ==
    /\ main = "listen"
    /\ main' = "select"
    /\ serve' = "spawned"
    /\ UNCHANGED <<signal, serveErrCh, inShutdown, expired, shutdownErr, conn,
                   pool, exit>>

\* signal.Notify is called once authentication is configured and undone
\* by the first deferred call; the channel has room for one signal, and a
\* second one is dropped or never read.
Signal ==
    /\ main \in {"listen"} \cup Started
    /\ signal = "none"
    /\ signal' = "buffered"
    /\ UNCHANGED <<main, pool, exit, http>>

\* Before signal.Notify, and again once signal.Stop has run, a signal has its
\* default effect: the process dies and no deferred call runs.
DefaultSignal ==
    /\ main \in {"load", "migrate", "open", "auth", "cleanup"}
    /\ main' = "exited"
    /\ exit' = "killed"
    /\ UNCHANGED <<signal, pool, http>>

\* select, first case: Serve returned by itself.
SelectServeErr ==
    /\ main = "select"
    /\ \E err \in serveErrCh :
          return(IF err = "ErrServerClosed" THEN "ok" ELSE "failed")
    /\ serveErrCh' = {}
    /\ UNCHANGED <<signal, serve, inShutdown, expired, shutdownErr, conn, pool>>

\* select, second case: the signal; srv.Shutdown begins and closes the listener.
SelectSignal ==
    /\ main = "select"
    /\ signal = "buffered"
    /\ signal' = "received"
    /\ main' = "shutdown"
    /\ inShutdown' = TRUE
    /\ UNCHANGED <<serve, serveErrCh, expired, shutdownErr, conn, pool, exit>>

drained == \A c \in Conns : conn[c] = "closed"

\* Mutant: only the listener is waited for.
ShutdownDone_NoDrain ==
    /\ main = "shutdown"
    /\ shutdownErr' = "nil"
    /\ main' = "await"
    /\ UNCHANGED <<signal, serve, serveErrCh, inShutdown, expired, conn, pool,
                   exit>>

\* Shutdown found every connection idle and closed it.
ShutdownDone ==
    /\ main = "shutdown"
    /\ drained
    /\ shutdownErr' = "nil"
    /\ main' = "await"
    /\ UNCHANGED <<signal, serve, serveErrCh, inShutdown, expired, conn, pool,
                   exit>>

\* Mutant: Shutdown is called with context.Background.
ShutdownExpired_Background ==
    /\ main = "shutdown"
    /\ drained
    /\ shutdownErr' = "nil"
    /\ main' = "await"
    /\ UNCHANGED <<signal, serve, serveErrCh, inShutdown, expired, conn, pool,
                   exit>>

\* Shutdown gives up: its context has expired.
ShutdownExpired ==
    /\ main = "shutdown"
    /\ expired
    /\ shutdownErr' = "DeadlineExceeded"
    /\ main' = "await"
    /\ UNCHANGED <<signal, serve, serveErrCh, inShutdown, expired, conn, pool,
                   exit>>

\* Mutant: only Shutdown's own error counts.
shutdownStatus_IgnoresServe(shutdown, err) ==
    IF shutdown = "nil" THEN "ok" ELSE "failed"

\* The status serveUntilShutdown derives from the two errors.
shutdownStatus(shutdown, err) ==
    IF shutdown = "nil" /\ err = "ErrServerClosed" THEN "ok" ELSE "failed"

\* serveErr := <-serveErrCh, after Shutdown returned.
AwaitServe ==
    /\ main = "await"
    /\ \E err \in serveErrCh : return(shutdownStatus(shutdownErr, err))
    /\ serveErrCh' = {}
    /\ UNCHANGED <<signal, serve, inShutdown, expired, shutdownErr, conn, pool>>

\* The deferred pool.Close: closed to acquisitions first.
ClosePool ==
    /\ main = "cleanup"
    /\ pool = "open"
    /\ pool' = "closing"
    /\ UNCHANGED <<main, signal, exit, http>>

\* Mutant: os.Exit inside run skips the deferred call.
Exit_SkipsDefers ==
    /\ main = "cleanup"
    /\ main' = "exited"
    /\ UNCHANGED <<signal, pool, exit, http>>

\* pool.Close returns when no connection is acquired, and the process ends;
\* with no pool opened it ends at once.
Exit ==
    /\ main = "cleanup"
    /\ \/ pool = "none"
       \/ pool = "closing" /\ \A c \in Conns : conn[c] # "holding"
    /\ main' = "exited"
    /\ UNCHANGED <<signal, pool, exit, http>>

-----------------------------------------------------------------------------
(* net/http: the Serve goroutine, the timer and the connections *)

alive == main # "exited"

\* Serve begins; once Shutdown has begun it returns ErrServerClosed instead.
ServeBegins ==
    /\ alive
    /\ serve = "spawned"
    /\ ~inShutdown
    /\ serve' = "running"
    /\ UNCHANGED <<main, signal, serveErrCh, inShutdown, expired, shutdownErr,
                   conn, pool, exit>>

\* Serve returns and the goroutine sends its error: ErrServerClosed after
\* Shutdown began, any other error from Accept.
ServeReturns ==
    /\ alive
    /\ serve \in {"spawned", "running"}
    /\ serve' = IF inShutdown THEN "closed" ELSE "failed"
    /\ serveErrCh' = serveErrCh \cup
                        {IF inShutdown THEN "ErrServerClosed" ELSE "AcceptError"}
    /\ UNCHANGED <<main, signal, inShutdown, expired, shutdownErr, conn, pool,
                   exit>>

\* The deadline of the shutdown context.
Deadline ==
    /\ main = "shutdown"
    /\ ~expired
    /\ expired' = TRUE
    /\ UNCHANGED <<main, signal, serve, serveErrCh, inShutdown, shutdownErr,
                   conn, pool, exit>>

connStep(c, from, to) ==
    /\ alive
    /\ conn[c] = from
    /\ conn' = [conn EXCEPT ![c] = to]
    /\ UNCHANGED <<main, signal, serve, serveErrCh, inShutdown, expired,
                   shutdownErr, pool, exit>>

\* A client connects; its connection starts idle.
Accept(c) == serve = "running" /\ ~inShutdown /\ connStep(c, "closed", "idle")

\* A request arrives on an open connection and its handler starts.
Request(c) == connStep(c, "idle", "active")

\* The handler acquires a pooled database connection.
Acquire(c) == pool = "open" /\ connStep(c, "active", "holding")

\* The query ends, or the router's timeout cancels it.
Release(c) == connStep(c, "holding", "active")

\* The handler answers; keep-alive ends once Shutdown has begun.
Answer(c) == connStep(c, "active", IF inShutdown THEN "closed" ELSE "idle")

\* The client closes its connection, or Shutdown closes it because it is idle.
CloseIdle(c) == connStep(c, "idle", "closed")

-----------------------------------------------------------------------------
Main ==
    \/ StartupFails \/ Load \/ Migrate \/ OpenPool \/ ConfigureAuth \/ Listen
    \/ SelectServeErr \/ SelectSignal
    \/ ShutdownDone \/ ShutdownExpired \/ AwaitServe
    \/ ClosePool \/ Exit

Http ==
    \/ ServeBegins
    \/ ServeReturns
    \/ Deadline
    \/ \E c \in Conns : Accept(c) \/ Request(c) \/ Acquire(c) \/ Release(c)
                           \/ Answer(c) \/ CloseIdle(c)

\* The process has ended.
Ended == main = "exited" /\ UNCHANGED vars

Next == Main \/ Signal \/ DefaultSignal \/ Http \/ Ended

(***************************************************************************)
(* main and the Serve goroutine run whenever they can, the deadline passes *)
(* and queries end (the router cancels their context after 30 seconds).    *)
(* Nothing is assumed of handlers that hold no database connection.        *)
(***************************************************************************)
Fairness ==
    /\ WF_vars(Main)
    /\ WF_vars(inShutdown /\ ServeReturns)
    /\ WF_vars(Deadline)
    /\ \A c \in Conns : WF_vars(Release(c))

Spec == Init /\ [][Next]_vars /\ Fairness

-----------------------------------------------------------------------------
(* Properties *)

\* Type invariant; the channel never holds two errors, so the goroutine's send
\* never blocks.
TypeOK ==
    /\ main \in Startup \cup Started \cup {"cleanup", "exited"}
    /\ signal \in {"none", "buffered", "received"}
    /\ serve \in {"none", "spawned", "running", "closed", "failed"}
    /\ serveErrCh \in {{}, {"ErrServerClosed"}, {"AcceptError"}}
    /\ inShutdown \in BOOLEAN
    /\ expired \in BOOLEAN
    /\ shutdownErr \in {"none", "nil", "DeadlineExceeded"}
    /\ conn \in [Conns -> {"closed", "idle", "active", "holding"}]
    /\ pool \in {"none", "open", "closing"}
    /\ exit \in {"none", "ok", "failed", "killed"}

\* "server stopped gracefully" is true: a process that ends with status 0
\* received a signal and cut off no request that was being handled.
GracefulExitDrained ==
    exit = "ok" => signal = "received" /\ drained

\* A process that is not killed never ends under a handler that holds a
\* database connection: run returns every error to main, so the deferred
\* pool.Close always runs, after a serve error too.
NoQueryCutOff ==
    main = "exited" /\ exit # "killed" => \A c \in Conns : conn[c] # "holding"

\* A failure of Serve is never swallowed, whether it comes before the signal,
\* with it or while Shutdown is waiting.
ServeFailureReported ==
    serve = "failed" /\ main \in {"cleanup", "exited"} => exit \in {"failed", "killed"}

\* Whatever handlers do, a process that got a signal ends: Shutdown is bounded
\* by its deadline, Serve's error is in the channel, and pool.Close ends.
SignalEndsProcess == signal # "none" ~> main = "exited"

\* serveUntilShutdown's comment: after the listener closes it does not return
\* until Shutdown has waited for the active handlers or its deadline expired
\* (it returns only once Serve has, which closes the listener).
ReturnsAfterDrain ==
    [][(main \in Started /\ main' = "cleanup")
          => (expired \/ \A c \in Conns : conn[c] \in {"closed", "idle"})]_vars
=============================================================================
