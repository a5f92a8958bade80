------------------------ MODULE ServerLifecycleProofs ------------------------
(***************************************************************************)
(* Theorems about ServerLifecycle, for any set of client connections.      *)
(***************************************************************************)
EXTENDS ServerLifecycle, TLAPS

\* Where Serve stands and what its channel holds.
ServeInv ==
    /\ serve \in {"none", "spawned", "running"} => serveErrCh = {}
    /\ serve = "closed" => inShutdown /\ serveErrCh \subseteq {"ErrServerClosed"}
    /\ serve = "failed" => serveErrCh \subseteq {"AcceptError"}
    /\ main \in Startup <=> (serve = "none" /\ main \notin {"cleanup", "exited"})
    /\ main \in {"cleanup", "exited"} => serve \in {"none", "closed", "failed"}

\* Shutdown begins after the signal and is what main waits for next.
ShutdownInv ==
    /\ inShutdown => signal = "received" /\ serve # "none"
    /\ main = "select" => ~inShutdown
    /\ main \in {"shutdown", "await"} => inShutdown
    /\ shutdownErr = "nil" => inShutdown /\ drained

\* The pool is opened before anything is served.
PoolInv ==
    /\ pool = "none" =>
          serve = "none" /\ main \in {"load", "migrate", "open", "cleanup", "exited"}
    /\ serve = "none" => drained

\* The status main ends with.
ExitInv ==
    /\ exit = "none" <=> main \notin {"cleanup", "exited"}
    /\ exit = "ok" => shutdownErr = "nil" /\ serve = "closed"
    /\ NoQueryCutOff

Inv == TypeOK /\ ServeInv /\ ShutdownInv /\ PoolInv /\ ExitInv

USE DEF Startup, Started

\* A process that has just started satisfies the invariant.
LEMMA InitInv == Init => Inv
BY DEF Init, Inv, TypeOK, ServeInv, ShutdownInv, PoolInv, ExitInv, NoQueryCutOff,
       drained

\* main's steps before the server listens.
LEMMA StartupInv ==
    ASSUME Inv,
           StartupFails \/ Load \/ Migrate \/ OpenPool \/ ConfigureAuth \/ Listen
              \/ Signal \/ DefaultSignal
    PROVE  Inv'
<1> USE DEF Inv, TypeOK, ServeInv, ShutdownInv, PoolInv, ExitInv, NoQueryCutOff,
            drained, http
<1>1. CASE StartupFails BY <1>1 DEF StartupFails, return
<1>2. CASE Load BY <1>2 DEF Load, StartupStep
<1>3. CASE Migrate BY <1>3 DEF Migrate, StartupStep
<1>4. CASE OpenPool BY <1>4 DEF OpenPool, StartupStep
<1>5. CASE ConfigureAuth BY <1>5 DEF ConfigureAuth, StartupStep
<1>6. CASE Listen BY <1>6 DEF Listen
<1>7. CASE Signal BY <1>7 DEF Signal
<1>8. CASE DefaultSignal BY <1>8 DEF DefaultSignal
<1> QED BY <1>1, <1>2, <1>3, <1>4, <1>5, <1>6, <1>7, <1>8

\* main's steps in serveUntilShutdown and in the deferred calls.
LEMMA ServeUntilShutdownInv ==
    ASSUME Inv,
           SelectServeErr \/ SelectSignal \/ ShutdownDone \/ ShutdownExpired
              \/ AwaitServe \/ ClosePool \/ Exit
    PROVE  Inv'
<1> USE DEF Inv, TypeOK, ServeInv, ShutdownInv, PoolInv, ExitInv, NoQueryCutOff,
            drained, http
<1>1. CASE SelectServeErr BY <1>1 DEF SelectServeErr, return
<1>2. CASE SelectSignal BY <1>2 DEF SelectSignal
<1>3. CASE ShutdownDone BY <1>3 DEF ShutdownDone
<1>4. CASE ShutdownExpired BY <1>4 DEF ShutdownExpired
<1>5. CASE AwaitServe BY <1>5 DEF AwaitServe, return, shutdownStatus
<1>6. CASE ClosePool BY <1>6 DEF ClosePool
<1>7. CASE Exit BY <1>7 DEF Exit
<1> QED BY <1>1, <1>2, <1>3, <1>4, <1>5, <1>6, <1>7

\* The steps of net/http.
LEMMA HttpInv ==
    ASSUME Inv, Http
    PROVE  Inv'
<1> USE DEF Inv, TypeOK, ServeInv, ShutdownInv, PoolInv, ExitInv, NoQueryCutOff,
            drained, alive
<1>1. CASE ServeBegins BY <1>1 DEF ServeBegins
<1>2. CASE ServeReturns BY <1>2 DEF ServeReturns
<1>3. CASE Deadline BY <1>3 DEF Deadline
<1>4. ASSUME NEW c \in Conns,
             Accept(c) \/ Request(c) \/ Acquire(c) \/ Release(c) \/ Answer(c) \/ CloseIdle(c)
      PROVE  Inv'
  <2>1. CASE Accept(c) BY <2>1 DEF Accept, connStep
  <2>2. CASE Request(c) BY <2>2 DEF Request, connStep
  <2>3. CASE Acquire(c) BY <2>3 DEF Acquire, connStep
  <2>4. CASE Release(c) BY <2>4 DEF Release, connStep
  <2>5. CASE Answer(c) BY <2>5 DEF Answer, connStep
  <2>6. CASE CloseIdle(c) BY <2>6 DEF CloseIdle, connStep
  <2> QED BY <1>4, <2>1, <2>2, <2>3, <2>4, <2>5, <2>6
<1> QED BY <1>1, <1>2, <1>3, <1>4 DEF Http

\* Steps of the environment that change nothing, and the end of the process.
LEMMA StutterInv ==
    ASSUME Inv, UNCHANGED vars
    PROVE  Inv'
BY DEF Inv, TypeOK, ServeInv, ShutdownInv, PoolInv, ExitInv, NoQueryCutOff, drained, vars

\* Inv holds in every reachable state of the server process.
THEOREM Invariance == Spec => []Inv
<1>1. Init => Inv BY InitInv
<1>2. Inv /\ [Next]_vars => Inv'
  BY StartupInv, ServeUntilShutdownInv, HttpInv, StutterInv DEF Next, Main, Ended
<1> QED BY <1>1, <1>2, PTL DEF Spec

\* The error channel never holds two errors (TypeOK): the goroutine's send
\* never blocks.
THEOREM TypeCorrect == Spec => []TypeOK
<1>1. Inv => TypeOK
  BY DEF Inv
<1> QED BY <1>1, Invariance, PTL

\* A process that ends with status 0 was told to stop and has drained every
\* connection (GracefulExitDrained).
THEOREM GracefulExit == Spec => []GracefulExitDrained
<1>1. Inv => GracefulExitDrained
  BY DEF Inv, ServeInv, ShutdownInv, ExitInv, GracefulExitDrained
<1> QED BY <1>1, Invariance, PTL

\* A process that ends by itself cuts off no query (NoQueryCutOff): the deferred
\* pool.Close runs on every return of run, also after a failure of Serve.
THEOREM QueriesRunToEnd == Spec => []NoQueryCutOff
<1>1. Inv => NoQueryCutOff
  BY DEF Inv, ExitInv
<1> QED BY <1>1, Invariance, PTL

\* A failure of Serve always shows in the exit status (ServeFailureReported),
\* whichever case of select comes first.
THEOREM ServeFailureShows == Spec => []ServeFailureReported
<1>1. Inv => ServeFailureReported
  BY DEF Inv, TypeOK, ServeInv, ExitInv, ServeFailureReported
<1> QED BY <1>1, Invariance, PTL
=============================================================================
