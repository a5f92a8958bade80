-------------------------------- MODULE Smoke --------------------------------
(***************************************************************************)
(* The smoke test driver, cmd/smoke: drivers started with --start-local    *)
(* create a schema, spawn a server on a port, wait for it, run the cases   *)
(* and take everything down again; a driver started with --base-url only   *)
(* runs the cases.  All of them use one port, on which one server listens  *)
(* at a time.  Servers may fail to start, crash or hang, database calls    *)
(* and requests may fail after they took effect, and the user may press    *)
(* Ctrl-C.                                                                 *)
(*                                                                         *)
(* A server's registry is what the cases look at: the external ids they    *)
(* use and the star and alert of the event they create.  A case is         *)
(* answered by one server.                                                 *)
(***************************************************************************)
EXTENDS Naturals, Sequences

CONSTANTS
    Drivers,    \* processes of pcr-smoke
    Remote,     \* those that may have --base-url instead of --start-local
    KeepData,   \* those with --keep-data
    None

ASSUME SmokeAssumption ==
    /\ Remote \subseteq Drivers
    /\ KeepData \subseteq Drivers
    /\ None \notin Drivers \cup {0, 1, 2}

VARIABLES
    remote,      \* the drivers with --base-url
    pc,          \* where each driver stands
    server,      \* per driver, its server: "none", "starting", "running",
                 \* "terminating" or "dead"
    schema,      \* per driver: "none", "created" or "dropped"
    tempDir,     \* per driver: whether its temporary directory exists
    port,        \* the driver whose server listens on the port, or None
    registry,    \* per server: what the cases have recorded there
    fixture,     \* per driver: the servers whose ids it kept for later cases
    case,        \* per driver: the case to run next
    failed,      \* per driver: whether some case has failed
    interrupted, \* per driver: whether Ctrl-C was pressed
    code,        \* per driver: the exit code, or None
    fault,       \* history, per driver: some outside call of it failed
    crossed      \* history: drivers whose server is not theirs alone

vars == <<remote, pc, server, schema, tempDir, port, registry, fixture, case,
          failed, interrupted, code, fault, crossed>>
cases == <<registry, fixture, case, failed, crossed>>
host == <<remote, server, schema, tempDir, port>>

Empty == [recorded |-> {}, starred |-> FALSE, alerted |-> FALSE]

Init ==
    /\ remote \in SUBSET Remote
    /\ pc = [d \in Drivers |-> IF d \in remote THEN "cases" ELSE "build"]
    /\ server = [d \in Drivers |-> "none"]
    /\ schema = [d \in Drivers |-> "none"]
    /\ tempDir = [d \in Drivers |-> FALSE]
    /\ port = None
    /\ registry = [d \in Drivers |-> Empty]
    /\ fixture = [d \in Drivers |-> [parent |-> None, current |-> None]]
    /\ case = [d \in Drivers |-> 1]
    /\ failed = [d \in Drivers |-> FALSE]
    /\ interrupted = [d \in Drivers |-> FALSE]
    /\ code = [d \in Drivers |-> None]
    /\ fault = [d \in Drivers |-> FALSE]
    /\ crossed = {}

goto(d, l) == pc' = [pc EXCEPT ![d] = l]
alive(d) == server[d] \in {"starting", "running", "terminating"}

\* The exit code is settled; the deferred stop runs before the driver ends.
returns(d, c, l) ==
    /\ code' = [code EXCEPT ![d] = c]
    /\ goto(d, l)

\* Bound: one outside call of a driver, or its server, fails by itself; after
\* Ctrl-C any may.
mayFail(d) ==
    /\ ~fault[d] \/ interrupted[d]
    /\ fault' = [fault EXCEPT ![d] = TRUE]

\* A request of d is answered by whoever listens on the port.
listenerAnswers(d) ==
    /\ port # None
    /\ crossed' = IF port = d THEN crossed ELSE crossed \cup {d, port}

-----------------------------------------------------------------------------
(* start                                                                   *)

\* ensureBinary: the build may fail, and does after Ctrl-C.
EnsureBinary(d) ==
    /\ pc[d] = "build"
    /\ \/ ~interrupted[d] /\ goto(d, "schema") /\ UNCHANGED <<code, fault>>
       \/ returns(d, 2, "done") /\ mayFail(d)
    /\ UNCHANGED <<host, cases, interrupted>>

\* prepareDatabase.  A failed CREATE SCHEMA may have happened; either way
\* start returns without calling stop.
PrepareDatabase(d) ==
    /\ pc[d] = "schema"
    /\ \/ /\ ~interrupted[d]
          /\ schema' = [schema EXCEPT ![d] = "created"]
          /\ goto(d, "spawn")
          /\ UNCHANGED <<code, fault>>
       \/ /\ schema' \in {schema, [schema EXCEPT ![d] = "created"]}
          /\ returns(d, 2, "done")
          /\ mayFail(d)
    /\ UNCHANGED <<remote, server, tempDir, port, cases, interrupted>>

\* os.MkdirTemp, os.Create and cmd.Start, which refuses a context that is
\* cancelled; from here on a failure calls stop.
Spawn(d) ==
    /\ pc[d] = "spawn"
    /\ \/ /\ ~interrupted[d]
          /\ tempDir' = [tempDir EXCEPT ![d] = TRUE]
          /\ server' = [server EXCEPT ![d] = "starting"]
          /\ goto(d, "ready")
          /\ UNCHANGED <<code, fault>>
       \/ /\ tempDir' \in {tempDir, [tempDir EXCEPT ![d] = TRUE]}
          /\ returns(d, 2, "stop")
          /\ mayFail(d)
          /\ UNCHANGED server
    /\ UNCHANGED <<remote, schema, port, cases, interrupted>>

\* waitReady polls the port.
WaitReady(d) ==
    /\ pc[d] = "ready"
    /\ \/ ~interrupted[d] /\ listenerAnswers(d) /\ goto(d, "cases") /\ UNCHANGED <<code, fault>>
       \/ server[d] = "dead" /\ returns(d, 2, "stop") /\ UNCHANGED <<fault, crossed>>
       \/ returns(d, 2, "stop") /\ mayFail(d) /\ UNCHANGED crossed \* ten seconds have passed
    /\ UNCHANGED <<host, registry, fixture, case, failed, interrupted>>

-----------------------------------------------------------------------------
(* The server process                                                      *)

\* The server binds the port, unless another one has it.
Bind(d) ==
    /\ server[d] = "starting"
    /\ IF port = None
       THEN port' = d /\ server' = [server EXCEPT ![d] = "running"]
       ELSE server' = [server EXCEPT ![d] = "dead"] /\ UNCHANGED port
    /\ UNCHANGED <<remote, pc, schema, tempDir, cases, interrupted, code, fault>>

endsServer(d) ==
    /\ server' = [server EXCEPT ![d] = "dead"]
    /\ port' = IF port = d THEN None ELSE port

\* It fails to start or crashes.
Crash(d) ==
    /\ server[d] \in {"starting", "running"}
    /\ endsServer(d)
    /\ mayFail(d)
    /\ UNCHANGED <<remote, pc, schema, tempDir, cases, interrupted, code>>

\* It has shut down after SIGTERM.
Exit(d) ==
    /\ server[d] = "terminating"
    /\ endsServer(d)
    /\ UNCHANGED <<remote, pc, schema, tempDir, cases, interrupted, code, fault>>

\* Ctrl-C cancels the driver's context ...
Interrupt(d) ==
    /\ pc[d] \notin {"drop", "clean", "done"} \* later it changes nothing
    /\ ~interrupted[d]
    /\ interrupted' = [interrupted EXCEPT ![d] = TRUE]
    /\ UNCHANGED <<pc, host, cases, code, fault>>

\* ... and exec.CommandContext then kills the server.
ContextKills(d) ==
    /\ interrupted[d]
    /\ alive(d)
    /\ endsServer(d)
    /\ UNCHANGED <<remote, pc, schema, tempDir, cases, interrupted, code, fault>>

-----------------------------------------------------------------------------
(* The cases                                                               *)

\* allCases, each by what it does: those that need only an answer are "status".
\* Neighbours that look at the same are one.
allCases == <<"status", "create", "parent", "status", "deploy", "fixtures", "current",
              "star", "starred", "unstar", "alert", "alerted", "status">>

needsParent == {"parent", "star", "starred", "unstar", "alert", "alerted"}

\* What a case leaves in the registry r of server s, with the ids f kept.
effect(k, f, s, r) ==
    CASE k = "create" -> [r EXCEPT !.recorded = @ \cup {"deploy"}]
      [] k = "fixtures" -> [r EXCEPT !.recorded = @ \cup {"current"}]
      [] k \in {"star", "unstar"} /\ f.parent = s -> [r EXCEPT !.starred = ~@]
      [] k = "alert" /\ f.parent = s -> [r EXCEPT !.alerted = TRUE]
      [] OTHER -> r

\* What the cases about Current, the star and the alert find at server s.
shows(k, f, s, r) ==
    /\ k = "current" => f.current = s
    /\ k = "starred" => r.starred
    /\ k = "unstar" => ~effect(k, f, s, r).starred
    /\ k = "alerted" => r.alerted

\* Mutant: create_event accepts an event that was there before.
passes_Existing(k, f, s, r) ==
    /\ k = "deploy" => "deploy" \in r.recorded
    /\ k \in needsParent => f.parent = s
    /\ shows(k, f, s, r)

\* Whether server s answers case k as it expects; ids of another server's
\* events are unknown to s.
passes(k, f, s, r) ==
    /\ k = "create" => "deploy" \notin r.recorded
    /\ k = "deploy" => "deploy" \in r.recorded
    /\ k \in needsParent => f.parent = s
    /\ shows(k, f, s, r)

\* create_event and create_current_fixtures keep ids.
kept(k, f, s, r) ==
    CASE k = "create" /\ passes(k, f, s, r) -> [f EXCEPT !.parent = s]
      [] k = "fixtures" -> [f EXCEPT !.current = s]
      [] OTHER -> f

advances(d) == case' = [case EXCEPT ![d] = @ + 1]

\* The listening server carries out d's next case.
carriedOut(d) ==
    /\ listenerAnswers(d)
    /\ registry' = [registry EXCEPT ![port] = effect(allCases[case[d]], fixture[d], port, @)]

RunCase(d) ==
    LET k == allCases[case[d]]
        r == registry[port]
    IN  /\ pc[d] = "cases" /\ case[d] <= Len(allCases)
        /\ ~interrupted[d]
        /\ carriedOut(d)
        /\ fixture' = [fixture EXCEPT ![d] = kept(k, @, port, r)]
        /\ failed' = [failed EXCEPT ![d] = @ \/ ~passes(k, fixture[d], port, r)]
        /\ advances(d)
        /\ UNCHANGED <<pc, host, interrupted, code, fault>>

\* Nobody listens, or the case times out; what it asks for may have happened
\* all the same.
FailCase(d) ==
    /\ pc[d] = "cases" /\ case[d] <= Len(allCases)
    /\ ~interrupted[d]
    /\ \/ port = None /\ UNCHANGED <<registry, crossed, fault>>
       \/ mayFail(d) /\ (carriedOut(d) \/ UNCHANGED <<registry, crossed>>)
    /\ failed' = [failed EXCEPT ![d] = TRUE]
    /\ advances(d)
    /\ UNCHANGED <<pc, host, fixture, interrupted, code>>

\* After Ctrl-C every remaining case fails at once.
CancelCases(d) ==
    /\ pc[d] = "cases" /\ case[d] <= Len(allCases)
    /\ interrupted[d]
    /\ case' = [case EXCEPT ![d] = Len(allCases) + 1]
    /\ failed' = [failed EXCEPT ![d] = TRUE]
    /\ UNCHANGED <<pc, host, registry, fixture, crossed, interrupted, code, fault>>

CasesDone(d) ==
    /\ pc[d] = "cases" /\ case[d] > Len(allCases)
    /\ returns(d, IF failed[d] THEN 1 ELSE 0, IF d \in remote THEN "done" ELSE "stop")
    /\ UNCHANGED <<host, cases, interrupted, fault>>

-----------------------------------------------------------------------------
(* stop                                                                    *)

\* SIGTERM, when there is a process.
Terminate(d) ==
    /\ pc[d] = "stop"
    /\ goto(d, IF server[d] = "none" THEN "drop" ELSE "reap")
    /\ server' = [server EXCEPT ![d] = IF alive(d) THEN "terminating" ELSE @]
    /\ UNCHANGED <<remote, schema, tempDir, port, cases, interrupted, code, fault>>

\* Mutant: five seconds after SIGTERM the driver goes on.
Kill_GoesOn(d) ==
    /\ pc[d] = "reap"
    /\ alive(d)
    /\ goto(d, "drop")
    /\ UNCHANGED <<host, cases, interrupted, code, fault>>

\* SIGKILL after five seconds.
Kill(d) ==
    /\ pc[d] = "reap"
    /\ alive(d)
    /\ endsServer(d)
    /\ UNCHANGED <<remote, pc, schema, tempDir, cases, interrupted, code, fault>>

\* The channel exited is closed.
Reaped(d) ==
    /\ pc[d] = "reap"
    /\ server[d] = "dead"
    /\ goto(d, "drop")
    /\ UNCHANGED <<host, cases, interrupted, code, fault>>

\* DROP SCHEMA ... CASCADE; an error is ignored.
DropSchema(d) ==
    /\ pc[d] = "drop"
    /\ \/ d \in KeepData /\ UNCHANGED <<schema, fault>>
       \/ d \notin KeepData /\ schema' = [schema EXCEPT ![d] = "dropped"] /\ UNCHANGED fault
       \/ d \notin KeepData /\ UNCHANGED schema /\ mayFail(d)
    /\ goto(d, "clean")
    /\ UNCHANGED <<remote, server, tempDir, port, cases, interrupted, code>>

RemoveTempDir(d) ==
    /\ pc[d] = "clean"
    /\ tempDir' = [tempDir EXCEPT ![d] = @ /\ d \in KeepData]
    /\ goto(d, "done")
    /\ UNCHANGED <<remote, server, schema, port, cases, interrupted, code, fault>>

-----------------------------------------------------------------------------
(* Specification                                                           *)

Start(d) == EnsureBinary(d) \/ PrepareDatabase(d) \/ Spawn(d) \/ WaitReady(d)
Stop(d) == Terminate(d) \/ Kill(d) \/ Reaped(d) \/ DropSchema(d) \/ RemoveTempDir(d)

Next ==
    \E d \in Drivers :
        \/ Start(d) \/ RunCase(d) \/ FailCase(d) \/ CancelCases(d) \/ CasesDone(d) \/ Stop(d)
        \/ Bind(d) \/ Crash(d) \/ Exit(d) \/ Interrupt(d) \/ ContextKills(d)

Spec == Init /\ [][Next]_vars

-----------------------------------------------------------------------------
(* Properties                                                              *)

\* A driver leaves nothing behind, however it ends: no server process and, but
\* for --keep-data, no temporary directory; a schema only when a call to the
\* database or to the outside failed.  And a schema is never dropped under a
\* server that still uses it.
LeavesNothing ==
    \A d \in Drivers :
        /\ pc[d] = "done" =>
              /\ ~alive(d)
              /\ d \notin KeepData => ~tempDir[d] /\ (schema[d] = "created" => fault[d])
        /\ schema[d] = "dropped" => ~alive(d)

\* The exit code is about one server.  A driver that passed left an alerted,
\* unstarred event in the registry of one server, and no other driver passed
\* there; a driver that had its own server to itself, with no fault and no
\* Ctrl-C, passed.
CodeTellsServer ==
    \A d \in Drivers :
        LET s == fixture[d].parent
        IN  /\ code[d] = 0 =>
                  /\ s # None
                  /\ registry[s] = [recorded |-> {"deploy", "current"},
                                    starred |-> FALSE, alerted |-> TRUE]
                  /\ \A e \in Drivers \ {d} : code[e] = 0 => fixture[e].parent # s
            /\ code[d] = 1 => fault[d] \/ interrupted[d] \/ d \in remote \cup crossed
=============================================================================
