----------------------------- MODULE SmokeProofs -----------------------------
(***************************************************************************)
(* Theorems about Smoke, for any set of drivers on one port.               *)
(***************************************************************************)
EXTENDS Smoke, TLAPS

Registry == [recorded : SUBSET {"deploy", "current"}, starred : BOOLEAN, alerted : BOOLEAN]
Fixtures == [parent : Drivers \cup {None}, current : Drivers \cup {None}]

\* Type invariant.
TypeOK ==
    /\ remote \subseteq Drivers
    /\ pc \in [Drivers -> {"build", "schema", "spawn", "ready", "cases", "stop", "reap",
                           "drop", "clean", "done"}]
    /\ server \in [Drivers -> {"none", "starting", "running", "terminating", "dead"}]
    /\ schema \in [Drivers -> {"none", "created", "dropped"}]
    /\ tempDir \in [Drivers -> BOOLEAN]
    /\ port \in Drivers \cup {None}
    /\ registry \in [Drivers -> Registry]
    /\ fixture \in [Drivers -> Fixtures]
    /\ case \in [Drivers -> 1..14]
    /\ failed \in [Drivers -> BOOLEAN]
    /\ interrupted \in [Drivers -> BOOLEAN]
    /\ code \in [Drivers -> {0, 1, 2, None}]
    /\ fault \in [Drivers -> BOOLEAN]
    /\ crossed \subseteq Drivers

\* What driver d has set up and taken down, by where it stands.
HostOK(d) ==
    /\ pc[d] \in {"build", "schema", "spawn"} => server[d] = "none"
    /\ pc[d] \in {"build", "schema"} => ~tempDir[d]
    /\ pc[d] = "build" => schema[d] = "none"
    /\ d \in remote =>
          /\ pc[d] \in {"cases", "done"}
          /\ server[d] = "none" /\ schema[d] = "none" /\ ~tempDir[d]
    /\ pc[d] \in {"drop", "clean", "done"} => ~alive(d)
    /\ pc[d] \in {"clean", "done"} /\ d \notin KeepData => (schema[d] = "created" => fault[d])
    /\ pc[d] = "done" /\ d \notin KeepData => ~tempDir[d]
    /\ schema[d] = "dropped" => pc[d] \in {"clean", "done"}
    /\ port = d => server[d] \in {"running", "terminating"}
    /\ server[d] = "terminating" => pc[d] = "reap"

HostInv == TypeOK /\ \A d \in Drivers : HostOK(d)

-----------------------------------------------------------------------------
(* Nothing is left behind *)

\* The cases, one by one.
LEMMA CaseTable ==
    /\ Len(allCases) = 13
    /\ allCases[1] = "status" /\ allCases[2] = "create" /\ allCases[3] = "parent"
    /\ allCases[4] = "status" /\ allCases[5] = "deploy" /\ allCases[6] = "fixtures"
    /\ allCases[7] = "current" /\ allCases[8] = "star" /\ allCases[9] = "starred"
    /\ allCases[10] = "unstar" /\ allCases[11] = "alert" /\ allCases[12] = "alerted"
    /\ allCases[13] = "status"
BY DEF allCases

\* A case leaves a registry, and ids of known servers.
LEMMA EffectType ==
    ASSUME NEW k, NEW f \in Fixtures, NEW s \in Drivers, NEW r \in Registry
    PROVE  effect(k, f, s, r) \in Registry /\ kept(k, f, s, r) \in Fixtures
BY DEF effect, kept, Registry, Fixtures

LEMMA InitHost == Init => HostInv
<1> SUFFICES ASSUME Init PROVE HostInv OBVIOUS
<1>1. TypeOK
  <2>1. Empty \in Registry BY DEF Empty, Registry
  <2>2. [parent |-> None, current |-> None] \in Fixtures BY DEF Fixtures
  <2> QED BY <2>1, <2>2, SmokeAssumption DEF Init, TypeOK
<1>2. \A d \in Drivers : HostOK(d)
      BY SmokeAssumption DEF Init, HostOK, alive
<1> QED BY <1>1, <1>2 DEF HostInv

\* The steps of start and stop, of the server process and of the user keep the
\* types ...
LEMMA HostTypes ==
    ASSUME TypeOK, NEW d \in Drivers,
           \/ Start(d) \/ Stop(d) \/ CasesDone(d)
           \/ Bind(d) \/ Crash(d) \/ Exit(d) \/ Interrupt(d) \/ ContextKills(d)
    PROVE  TypeOK'
<1>1. /\ UNCHANGED <<remote, registry, fixture, case, failed>> /\ crossed' \subseteq Drivers
      /\ port' \in Drivers \cup {None}
      BY DEF TypeOK, Start, Stop, EnsureBinary, PrepareDatabase, Spawn, WaitReady, Terminate,
             Kill, Reaped, DropSchema, RemoveTempDir, CasesDone, Bind, Crash, Exit, Interrupt,
             ContextKills, host, cases, endsServer, listenerAnswers
<1>2. pc' \in [Drivers -> {"build", "schema", "spawn", "ready", "cases", "stop", "reap",
                           "drop", "clean", "done"}]
      BY DEF TypeOK, Start, Stop, EnsureBinary, PrepareDatabase, Spawn, WaitReady, Terminate,
             Kill, Reaped, DropSchema, RemoveTempDir, CasesDone, Bind, Crash, Exit, Interrupt,
             ContextKills, goto, returns
<1>3. server' \in [Drivers -> {"none", "starting", "running", "terminating", "dead"}]
      BY DEF TypeOK, Start, Stop, EnsureBinary, PrepareDatabase, Spawn, WaitReady, Terminate,
             Kill, Reaped, DropSchema, RemoveTempDir, CasesDone, Bind, Crash, Exit, Interrupt,
             ContextKills, host, endsServer
<1>4. schema' \in [Drivers -> {"none", "created", "dropped"}]
      BY DEF TypeOK, Start, Stop, EnsureBinary, PrepareDatabase, Spawn, WaitReady, Terminate,
             Kill, Reaped, DropSchema, RemoveTempDir, CasesDone, Bind, Crash, Exit, Interrupt,
             ContextKills, host
<1>5. tempDir' \in [Drivers -> BOOLEAN]
      BY DEF TypeOK, Start, Stop, EnsureBinary, PrepareDatabase, Spawn, WaitReady, Terminate,
             Kill, Reaped, DropSchema, RemoveTempDir, CasesDone, Bind, Crash, Exit, Interrupt,
             ContextKills, host
<1>6. interrupted' \in [Drivers -> BOOLEAN] /\ fault' \in [Drivers -> BOOLEAN]
      BY DEF TypeOK, Start, Stop, EnsureBinary, PrepareDatabase, Spawn, WaitReady, Terminate,
             Kill, Reaped, DropSchema, RemoveTempDir, CasesDone, Bind, Crash, Exit, Interrupt,
             ContextKills, mayFail
<1>7. code' \in [Drivers -> {0, 1, 2, None}]
      BY DEF TypeOK, Start, Stop, EnsureBinary, PrepareDatabase, Spawn, WaitReady, Terminate,
             Kill, Reaped, DropSchema, RemoveTempDir, CasesDone, Bind, Crash, Exit, Interrupt,
             ContextKills, returns
<1> QED BY <1>1, <1>2, <1>3, <1>4, <1>5, <1>6, <1>7 DEF TypeOK

\* ... and what is known of the host.
LEMMA HostSteps ==
    ASSUME HostInv, NEW d \in Drivers,
           \/ Start(d) \/ Stop(d) \/ CasesDone(d)
           \/ Bind(d) \/ Crash(d) \/ Exit(d) \/ Interrupt(d) \/ ContextKills(d)
    PROVE  HostInv'
<1>1. TypeOK' BY HostTypes DEF HostInv
<1>2. ASSUME NEW e \in Drivers PROVE HostOK(e)'
  <2> USE SmokeAssumption DEF HostInv, TypeOK, HostOK, alive, host, cases, goto, returns,
          mayFail, endsServer
  <2>1. CASE EnsureBinary(d) BY <2>1 DEF EnsureBinary
  <2>2. CASE PrepareDatabase(d) BY <2>2 DEF PrepareDatabase
  <2>3. CASE Spawn(d) BY <2>3 DEF Spawn
  <2>4. CASE WaitReady(d) BY <2>4 DEF WaitReady, listenerAnswers
  <2>5. CASE CasesDone(d) BY <2>5 DEF CasesDone
  <2>6. CASE Terminate(d) BY <2>6 DEF Terminate
  <2>7. CASE Kill(d) BY <2>7 DEF Kill
  <2>8. CASE Reaped(d) BY <2>8 DEF Reaped
  <2>9. CASE DropSchema(d) BY <2>9 DEF DropSchema
  <2>10. CASE RemoveTempDir(d) BY <2>10 DEF RemoveTempDir
  <2>11. CASE Bind(d) BY <2>11 DEF Bind
  <2>12. CASE Crash(d) BY <2>12 DEF Crash
  <2>13. CASE Exit(d) BY <2>13 DEF Exit
  <2>14. CASE Interrupt(d) BY <2>14 DEF Interrupt
  <2>15. CASE ContextKills(d) BY <2>15 DEF ContextKills
  <2> QED BY <2>1, <2>2, <2>3, <2>4, <2>5, <2>6, <2>7, <2>8, <2>9, <2>10, <2>11, <2>12, <2>13, <2>14, <2>15
           DEF Start, Stop
<1> QED BY <1>1, <1>2 DEF HostInv

\* The cases leave the host alone.
LEMMA CaseSteps ==
    ASSUME HostInv, NEW d \in Drivers, RunCase(d) \/ FailCase(d) \/ CancelCases(d)
    PROVE  HostInv'
<1> USE DEF HostInv
<1>1. /\ UNCHANGED <<remote, server, schema, tempDir, port, pc, interrupted, code>>
      /\ fault' \in [Drivers -> BOOLEAN]
      /\ \A e \in Drivers : fault[e] => fault'[e]
      BY DEF TypeOK, RunCase, FailCase, CancelCases, host, mayFail
<1>2. \A e \in Drivers : HostOK(e)' BY <1>1 DEF HostOK, alive
<1>3. case[d] \in 1..13 /\ case[d] + 1 \in 1..14 /\ Len(allCases) + 1 = 14
      BY CaseTable DEF TypeOK, RunCase, FailCase, CancelCases
<1>4. case' \in [Drivers -> 1..14]
      BY <1>3, CaseTable DEF TypeOK, RunCase, FailCase, CancelCases, advances
<1>5. failed' \in [Drivers -> BOOLEAN] BY DEF TypeOK, RunCase, FailCase, CancelCases
<1>6. crossed' \subseteq Drivers
      BY DEF TypeOK, RunCase, FailCase, CancelCases, carriedOut, listenerAnswers
<1>7. registry' \in [Drivers -> Registry] /\ fixture' \in [Drivers -> Fixtures]
  <2>1. CASE RunCase(d)
    <3>1. port \in Drivers /\ fixture[d] \in Fixtures /\ registry[port] \in Registry
          BY <2>1 DEF TypeOK, RunCase, carriedOut, listenerAnswers
    <3>2. PICK k : k = allCases[case[d]] OBVIOUS
    <3>3. /\ effect(k, fixture[d], port, registry[port]) \in Registry
          /\ kept(k, fixture[d], port, registry[port]) \in Fixtures
          BY <3>1, EffectType
    <3> QED BY <2>1, <3>1, <3>2, <3>3 DEF TypeOK, RunCase, carriedOut
  <2>2. CASE FailCase(d) \/ CancelCases(d)
    <3>1. CASE UNCHANGED registry
          BY <2>2, <3>1 DEF TypeOK, FailCase, CancelCases
    <3>2. CASE carriedOut(d)
      <4>1. port \in Drivers /\ fixture[d] \in Fixtures /\ registry[port] \in Registry
            BY <3>2 DEF TypeOK, carriedOut, listenerAnswers
      <4>2. effect(allCases[case[d]], fixture[d], port, registry[port]) \in Registry
            BY <4>1, EffectType
      <4>3. UNCHANGED fixture BY <2>2 DEF FailCase, CancelCases
      <4> QED BY <3>2, <4>1, <4>2, <4>3 DEF TypeOK, carriedOut
    <3> QED BY <2>2, <3>1, <3>2 DEF FailCase, CancelCases
  <2> QED BY <2>1, <2>2
<1>8. TypeOK' BY <1>1, <1>7, <1>4, <1>5, <1>6 DEF TypeOK
<1> QED BY <1>2, <1>8

LEMMA HostInvariant == Spec => []HostInv
<1>1. HostInv /\ [Next]_vars => HostInv'
  <2> SUFFICES ASSUME HostInv, [Next]_vars PROVE HostInv' OBVIOUS
  <2>1. CASE UNCHANGED vars BY <2>1 DEF vars, HostInv, TypeOK, HostOK, alive
  <2>2. CASE Next BY <2>2, HostSteps, CaseSteps DEF Next
  <2> QED BY <2>1, <2>2
<1> QED BY <1>1, InitHost, PTL DEF Spec

\* A driver leaves no server and, without --keep-data, no directory behind, and
\* a schema only after a failed call; no schema is dropped under its server.
THEOREM NothingLeft == Spec => []LeavesNothing
<1>1. HostInv => LeavesNothing BY DEF HostInv, TypeOK, HostOK, LeavesNothing
<1> QED BY <1>1, HostInvariant, PTL

-----------------------------------------------------------------------------
(* What the cases find *)

\* The ids d kept, and what its cases so far have left at the server they name.
\* A server that has lost the port is dead and never gets it again.
CaseOK(d) ==
    LET s == fixture[d].parent
        c == fixture[d].current
    IN  /\ case[d] <= 2 => s = None
        /\ case[d] <= 6 => c = None
        /\ s # None => "deploy" \in registry[s].recorded /\ (port = s \/ server[s] = "dead")
        /\ c # None => "current" \in registry[c].recorded
        /\ ~failed[d] /\ case[d] > 2 => s # None
        /\ ~failed[d] /\ case[d] > 6 => c # None /\ (c = s \/ server[s] = "dead")
        /\ ~failed[d] /\ case[d] > 8 => c = s
        /\ ~failed[d] /\ s # None =>
              /\ registry[s].starred <=> case[d] \in {9, 10}
              /\ registry[s].alerted <=> case[d] > 11

\* Where d stands, its next case and its exit code.
PlaceOK(d) ==
    /\ pc[d] \in {"build", "schema", "spawn", "ready"} => case[d] = 1
    /\ pc[d] \in {"build", "schema", "spawn", "ready", "cases"} => code[d] = None
    /\ code[d] = 0 => ~failed[d] /\ case[d] = 14
    /\ code[d] = 1 => failed[d]

\* No two drivers kept an event of one server, and only a driver that did has
\* starred or alerted there.
OwnersInv ==
    /\ \A d, e \in Drivers :
          fixture[d].parent # None /\ fixture[d].parent = fixture[e].parent => d = e
    /\ \A s \in Drivers : registry[s].starred \/ registry[s].alerted =>
          \E d \in Drivers : fixture[d].parent = s

\* Nothing has gone wrong outside d, and its server is its alone.
Clean(d) == ~fault[d] /\ ~interrupted[d] /\ d \notin remote \cup crossed

CleanOK(d) ==
    Clean(d) =>
        /\ ~failed[d]
        /\ pc[d] \in {"build", "schema", "spawn", "ready"} => "deploy" \notin registry[d].recorded
        /\ pc[d] = "cases" =>
              /\ port = d
              /\ case[d] > 2 => fixture[d].parent = d
              /\ case[d] > 6 => fixture[d].current = d
              /\ "deploy" \in registry[d].recorded <=> case[d] > 2

CasesInv ==
    /\ HostInv
    /\ OwnersInv
    /\ \A d \in Drivers : CaseOK(d) /\ PlaceOK(d) /\ CleanOK(d)

\* What a case k does to a registry r of server s and to the ids f kept.
DoesCase(k, f, s, r, a, g) ==
    /\ a.recorded = r.recorded \cup (IF k = "create" THEN {"deploy"} ELSE {})
                      \cup (IF k = "fixtures" THEN {"current"} ELSE {})
    /\ a.starred <=> ~(r.starred <=> (k \in {"star", "unstar"} /\ f.parent = s))
    /\ a.alerted <=> (r.alerted \/ (k = "alert" /\ f.parent = s))
    /\ g.parent = IF k = "create" /\ "deploy" \notin r.recorded THEN s ELSE f.parent
    /\ g.current = IF k = "fixtures" THEN s ELSE f.current

LEMMA EffectFacts ==
    \A k : \A f \in Fixtures, s \in Drivers, r \in Registry :
        DoesCase(k, f, s, r, effect(k, f, s, r), kept(k, f, s, r))
<1> SUFFICES ASSUME NEW k, NEW f \in Fixtures, NEW s \in Drivers, NEW r \in Registry
             PROVE  DoesCase(k, f, s, r, effect(k, f, s, r), kept(k, f, s, r))
    OBVIOUS
<1> USE DEF DoesCase
<1>1. CASE k = "create"
      BY <1>1 DEF effect, kept, passes, shows, needsParent, Registry, Fixtures
<1>2. CASE k = "fixtures" BY <1>2 DEF effect, kept, Registry, Fixtures
<1>3. CASE k \in {"star", "unstar"} BY <1>3 DEF effect, kept, Registry, Fixtures
<1>4. CASE k = "alert" BY <1>4 DEF effect, kept, Registry, Fixtures
<1>5. CASE k \notin {"create", "fixtures", "star", "unstar", "alert"}
      BY <1>5 DEF effect, kept, Registry, Fixtures
<1> QED BY <1>1, <1>2, <1>3, <1>4, <1>5

LEMMA InitCases == Init => CasesInv
<1> SUFFICES ASSUME Init PROVE CasesInv OBVIOUS
<1>1. HostInv BY InitHost
<1>2. OwnersInv BY DEF Init, OwnersInv, Empty
<1>3. ASSUME NEW d \in Drivers PROVE CaseOK(d) /\ PlaceOK(d) /\ CleanOK(d)
      BY SmokeAssumption DEF Init, CaseOK, PlaceOK, CleanOK, Clean, Empty
<1> QED BY <1>1, <1>2, <1>3 DEF CasesInv

\* A step outside the cases: a dead server stays dead, and one that loses the
\* port is dead.
LEMMA PortSteps ==
    ASSUME HostInv, NEW d \in Drivers,
           \/ Start(d) \/ Stop(d) \/ CasesDone(d)
           \/ Bind(d) \/ Crash(d) \/ Exit(d) \/ Interrupt(d) \/ ContextKills(d)
    PROVE  /\ UNCHANGED <<remote, registry, fixture, case, failed>>
           /\ \A s \in Drivers : server[s] = "dead" => server'[s] = "dead"
           /\ \A s \in Drivers : port = s => port' = s \/ server'[s] = "dead"
<1>1. UNCHANGED <<remote, registry, fixture, case, failed>>
      BY DEF Start, Stop, EnsureBinary, PrepareDatabase, Spawn, WaitReady, Terminate,
             Kill, Reaped, DropSchema, RemoveTempDir, CasesDone, Bind, Crash, Exit, Interrupt,
             ContextKills, host, cases
<1>2. ASSUME NEW s \in Drivers
      PROVE  /\ server[s] = "dead" => server'[s] = "dead"
             /\ port = s => port' = s \/ server'[s] = "dead"
  <2> USE SmokeAssumption DEF HostInv, TypeOK, HostOK, alive, host, endsServer
  <2>1. CASE EnsureBinary(d) BY <2>1 DEF EnsureBinary
  <2>2. CASE PrepareDatabase(d) BY <2>2 DEF PrepareDatabase
  <2>3. CASE Spawn(d) BY <2>3 DEF Spawn
  <2>4. CASE WaitReady(d) BY <2>4 DEF WaitReady
  <2>5. CASE CasesDone(d) BY <2>5 DEF CasesDone
  <2>6. CASE Terminate(d) BY <2>6 DEF Terminate
  <2>7. CASE Kill(d) BY <2>7 DEF Kill
  <2>8. CASE Reaped(d) BY <2>8 DEF Reaped
  <2>9. CASE DropSchema(d) BY <2>9 DEF DropSchema
  <2>10. CASE RemoveTempDir(d) BY <2>10 DEF RemoveTempDir
  <2>11. CASE Bind(d) BY <2>11 DEF Bind
  <2>12. CASE Crash(d) BY <2>12 DEF Crash
  <2>13. CASE Exit(d) BY <2>13 DEF Exit
  <2>14. CASE Interrupt(d) BY <2>14 DEF Interrupt
  <2>15. CASE ContextKills(d) BY <2>15 DEF ContextKills
  <2> QED BY <2>1, <2>2, <2>3, <2>4, <2>5, <2>6, <2>7, <2>8, <2>9, <2>10, <2>11, <2>12, <2>13, <2>14, <2>15
           DEF Start, Stop
<1> QED BY <1>1, <1>2

\* Such a step keeps the invariant of the cases.
LEMMA HostKeepsCases ==
    ASSUME CasesInv, NEW d \in Drivers,
           \/ Start(d) \/ Stop(d) \/ CasesDone(d)
           \/ Bind(d) \/ Crash(d) \/ Exit(d) \/ Interrupt(d) \/ ContextKills(d)
    PROVE  CasesInv'
<1>1. HostInv /\ HostInv' BY HostSteps DEF CasesInv
<1>2. /\ UNCHANGED <<remote, registry, fixture, case, failed>>
      /\ \A s \in Drivers : server[s] = "dead" => server'[s] = "dead"
      /\ \A s \in Drivers : port = s => port' = s \/ server'[s] = "dead"
      BY <1>1, PortSteps
<1>3. OwnersInv' BY <1>2 DEF CasesInv, OwnersInv
<1>4. ASSUME NEW e \in Drivers PROVE CaseOK(e)'
  <2>1. fixture[e].parent \in Drivers \cup {None} /\ CaseOK(e)
        BY DEF CasesInv, HostInv, TypeOK, Fixtures
  <2>2. fixture[e].parent # None =>
           (port = fixture[e].parent \/ server[fixture[e].parent] = "dead")'
        BY <1>2, <2>1 DEF CaseOK
  <2>3. fixture[e].parent # None =>
           (server[fixture[e].parent] = "dead" => server'[fixture[e].parent] = "dead")
        BY <1>2, <2>1
  <2>4. case[e] \in 1..14 BY DEF CasesInv, HostInv, TypeOK
  <2> QED BY <1>2, <2>1, <2>2, <2>3, <2>4 DEF CaseOK
<1>5. ASSUME NEW e \in Drivers PROVE PlaceOK(e)'
  <2>0. PlaceOK(e) /\ TypeOK BY DEF CasesInv, HostInv
  <2> USE SmokeAssumption, <2>0, <1>2 DEF TypeOK, PlaceOK, goto, returns
  <2>1. CASE EnsureBinary(d) BY <2>1 DEF EnsureBinary
  <2>2. CASE PrepareDatabase(d) BY <2>2 DEF PrepareDatabase
  <2>3. CASE Spawn(d) BY <2>3 DEF Spawn
  <2>4. CASE WaitReady(d) BY <2>4 DEF WaitReady
  <2>5. CASE CasesDone(d) BY <2>5, CaseTable DEF CasesDone
  <2>6. CASE Terminate(d) BY <2>6 DEF Terminate
  <2>7. CASE Kill(d) BY <2>7 DEF Kill
  <2>8. CASE Reaped(d) BY <2>8 DEF Reaped
  <2>9. CASE DropSchema(d) BY <2>9 DEF DropSchema
  <2>10. CASE RemoveTempDir(d) BY <2>10 DEF RemoveTempDir
  <2>11. CASE Bind(d) BY <2>11 DEF Bind
  <2>12. CASE Crash(d) BY <2>12 DEF Crash
  <2>13. CASE Exit(d) BY <2>13 DEF Exit
  <2>14. CASE Interrupt(d) BY <2>14 DEF Interrupt
  <2>15. CASE ContextKills(d) BY <2>15 DEF ContextKills
  <2> QED BY <2>1, <2>2, <2>3, <2>4, <2>5, <2>6, <2>7, <2>8, <2>9, <2>10, <2>11, <2>12, <2>13, <2>14, <2>15
           DEF Start, Stop
<1>6. ASSUME NEW e \in Drivers PROVE CleanOK(e)'
  <2>0. /\ CleanOK(e) /\ HostOK(e) /\ TypeOK /\ PlaceOK(e) /\ CaseOK(e)
        BY DEF CasesInv, HostInv
  <2> USE SmokeAssumption, <2>0, <1>2 DEF TypeOK, CleanOK, Clean, HostOK, PlaceOK, goto, returns,
          mayFail, endsServer, host, alive
  <2>1. CASE EnsureBinary(d) BY <2>1 DEF EnsureBinary, cases
  <2>2. CASE PrepareDatabase(d) BY <2>2 DEF PrepareDatabase, cases
  <2>3. CASE Spawn(d) BY <2>3 DEF Spawn, cases
  <2>4. CASE WaitReady(d) BY <2>4 DEF WaitReady, listenerAnswers, CaseOK
  <2>5. CASE CasesDone(d) BY <2>5 DEF CasesDone, cases
  <2>6. CASE Terminate(d) BY <2>6 DEF Terminate, cases
  <2>7. CASE Kill(d) BY <2>7 DEF Kill, cases
  <2>8. CASE Reaped(d) BY <2>8 DEF Reaped, cases
  <2>9. CASE DropSchema(d) BY <2>9 DEF DropSchema, cases
  <2>10. CASE RemoveTempDir(d) BY <2>10 DEF RemoveTempDir, cases
  <2>11. CASE Bind(d) BY <2>11 DEF Bind, cases
  <2>12. CASE Crash(d) BY <2>12 DEF Crash, cases
  <2>13. CASE Exit(d) BY <2>13 DEF Exit, cases
  <2>14. CASE Interrupt(d) BY <2>14 DEF Interrupt, cases
  <2>15. CASE ContextKills(d) BY <2>15 DEF ContextKills, cases
  <2> QED BY <2>1, <2>2, <2>3, <2>4, <2>5, <2>6, <2>7, <2>8, <2>9, <2>10, <2>11, <2>12, <2>13, <2>14, <2>15
           DEF Start, Stop
<1> QED BY <1>1, <1>3, <1>4, <1>5, <1>6 DEF CasesInv

\* The listening server p carries out a case of d for the ids f: what becomes of
\* the registries.
LEMMA CarriedOut ==
    ASSUME HostInv, NEW d \in Drivers, carriedOut(d)
    PROVE  LET k == allCases[case[d]]
               a == registry'[port]
               r == registry[port]
           IN  /\ port \in Drivers
               /\ \A s \in Drivers : s # port => registry'[s] = registry[s]
               /\ \A s \in Drivers : registry[s].recorded \subseteq registry'[s].recorded
               /\ a.recorded = r.recorded \cup (IF k = "create" THEN {"deploy"} ELSE {})
                                 \cup (IF k = "fixtures" THEN {"current"} ELSE {})
               /\ a.starred <=> ~(r.starred <=> (k \in {"star", "unstar"} /\ fixture[d].parent = port))
               /\ a.alerted <=> (r.alerted \/ (k = "alert" /\ fixture[d].parent = port))
               /\ crossed' = IF port = d THEN crossed ELSE crossed \cup {d, port}
<1> DEFINE k == allCases[case[d]]
           r == registry[port]
<1>1. /\ port \in Drivers /\ fixture[d] \in Fixtures /\ r \in Registry
      /\ registry \in [Drivers -> Registry]
      BY DEF HostInv, TypeOK, carriedOut, listenerAnswers
<1>2. registry' = [registry EXCEPT ![port] = effect(k, fixture[d], port, r)]
      BY DEF carriedOut
<1>3. registry'[port] = effect(k, fixture[d], port, r) BY <1>1, <1>2
<1>4. LET a == effect(k, fixture[d], port, r) IN
         /\ a.recorded = r.recorded \cup (IF k = "create" THEN {"deploy"} ELSE {})
                           \cup (IF k = "fixtures" THEN {"current"} ELSE {})
         /\ a.starred <=> ~(r.starred <=> (k \in {"star", "unstar"} /\ fixture[d].parent = port))
         /\ a.alerted <=> (r.alerted \/ (k = "alert" /\ fixture[d].parent = port))
  <2> HIDE DEF k, r
  <2>1. DoesCase(k, fixture[d], port, r, effect(k, fixture[d], port, r),
                 kept(k, fixture[d], port, r))
        BY <1>1, EffectFacts
  <2> QED BY <2>1 DEF DoesCase
<1>5. \A s \in Drivers : s # port => registry'[s] = registry[s] BY <1>1, <1>2
<1>6. registry[port].recorded \subseteq registry'[port].recorded
  <2> HIDE DEF k
  <2> QED BY <1>3, <1>4
<1>7. \A s \in Drivers : registry[s].recorded \subseteq registry'[s].recorded
      BY <1>5, <1>6
<1> HIDE DEF k
<1> QED BY <1>1, <1>3, <1>4, <1>5, <1>7 DEF carriedOut, listenerAnswers, k

\* What a case that is answered does to the ids d kept and to its verdict.
LEMMA RunCaseFacts ==
    ASSUME HostInv, NEW d \in Drivers, RunCase(d)
    PROVE  LET k == allCases[case[d]]
               r == registry[port]
           IN  /\ case[d] \in 1..13 /\ case'[d] = case[d] + 1
               /\ fixture'[d].parent = IF k = "create" /\ "deploy" \notin r.recorded
                                       THEN port ELSE fixture[d].parent
               /\ fixture'[d].current = IF k = "fixtures" THEN port ELSE fixture[d].current
               /\ failed'[d] <=> failed[d] \/ ~passes(k, fixture[d], port, r)
               /\ \A e \in Drivers : e # d =>
                     fixture'[e] = fixture[e] /\ case'[e] = case[e] /\ failed'[e] = failed[e]
<1> DEFINE k == allCases[case[d]]
           r == registry[port]
<1>1. /\ port \in Drivers /\ fixture[d] \in Fixtures /\ r \in Registry
      /\ fixture \in [Drivers -> Fixtures] /\ case \in [Drivers -> 1..14]
      /\ failed \in [Drivers -> BOOLEAN]
      BY DEF HostInv, TypeOK, RunCase, carriedOut, listenerAnswers
<1>2. case[d] \in 1..13 BY <1>1, CaseTable DEF RunCase
<1>3. /\ fixture' = [fixture EXCEPT ![d] = kept(k, fixture[d], port, r)]
      /\ failed' = [failed EXCEPT ![d] = failed[d] \/ ~passes(k, fixture[d], port, r)]
      /\ case' = [case EXCEPT ![d] = case[d] + 1]
      BY DEF RunCase, advances
<1>4. LET g == kept(k, fixture[d], port, r) IN
         /\ g.parent = IF k = "create" /\ "deploy" \notin r.recorded THEN port
                       ELSE fixture[d].parent
         /\ g.current = IF k = "fixtures" THEN port ELSE fixture[d].current
  <2> HIDE DEF k, r
  <2>1. DoesCase(k, fixture[d], port, r, effect(k, fixture[d], port, r),
                 kept(k, fixture[d], port, r))
        BY <1>1, EffectFacts
  <2> QED BY <2>1 DEF DoesCase
<1>5. /\ fixture'[d] = kept(k, fixture[d], port, r)
      /\ failed'[d] <=> failed[d] \/ ~passes(k, fixture[d], port, r)
      /\ case'[d] = case[d] + 1
      BY <1>1, <1>3
<1>6. \A e \in Drivers : e # d =>
         fixture'[e] = fixture[e] /\ case'[e] = case[e] /\ failed'[e] = failed[e]
      BY <1>1, <1>3
<1> QED BY <1>2, <1>4, <1>5, <1>6

\* Each case that matters has one place.
LEMMA CaseIndex ==
    ASSUME NEW n \in 1..13
    PROVE  /\ allCases[n] = "create" <=> n = 2
           /\ allCases[n] = "parent" <=> n = 3
           /\ allCases[n] = "deploy" <=> n = 5
           /\ allCases[n] = "fixtures" <=> n = 6
           /\ allCases[n] = "current" <=> n = 7
           /\ allCases[n] = "star" <=> n = 8
           /\ allCases[n] = "starred" <=> n = 9
           /\ allCases[n] = "unstar" <=> n = 10
           /\ allCases[n] = "alert" <=> n = 11
           /\ allCases[n] = "alerted" <=> n = 12
<1>1. n \in {1, 2, 3, 4, 5, 6, 7, 8, 9, 10, 11, 12, 13} OBVIOUS
<1> QED BY <1>1, CaseTable

\* The other drivers are left alone but for what the listener recorded.
LEMMA OthersKeep ==
    ASSUME CasesInv, NEW d \in Drivers, NEW e \in Drivers, e # d,
           UNCHANGED <<remote, server, port, pc, interrupted, code>>,
           fixture'[e] = fixture[e], case'[e] = case[e], failed'[e] = failed[e],
           fault'[e] = fault[e],
           carriedOut(d) \/ UNCHANGED <<registry, crossed>>
    PROVE  CaseOK(e)' /\ PlaceOK(e)' /\ CleanOK(e)'
<1>1. HostInv /\ CaseOK(e) /\ PlaceOK(e) /\ CleanOK(e) BY DEF CasesInv
<1>2. PlaceOK(e)' BY <1>1 DEF PlaceOK
<1>3. CASE UNCHANGED <<registry, crossed>>
      BY <1>1, <1>2, <1>3 DEF CaseOK, CleanOK, Clean
<1>4. CASE carriedOut(d)
  <2> DEFINE s == fixture[e].parent
             c == fixture[e].current
  <2>1. /\ s \in Drivers \cup {None} /\ c \in Drivers \cup {None} /\ case[e] \in 1..14
        BY <1>1 DEF HostInv, TypeOK, Fixtures
  <2>2. /\ port \in Drivers
        /\ \A q \in Drivers : q # port => registry'[q] = registry[q]
        /\ \A q \in Drivers : registry[q].recorded \subseteq registry'[q].recorded
        /\ crossed' = IF port = d THEN crossed ELSE crossed \cup {d, port}
        BY <1>1, <1>4, CarriedOut
  <2>3. s # None => /\ registry'[s].starred <=> registry[s].starred
                    /\ registry'[s].alerted <=> registry[s].alerted
    <3>1. CASE s # port BY <2>1, <2>2, <3>1
    <3>2. CASE s = port
      <4>1. fixture[d].parent # port BY <2>2, <3>2, SmokeAssumption DEF CasesInv, OwnersInv
      <4> QED BY <1>1, <1>4, <3>2, <4>1, CarriedOut
    <3> QED BY <3>1, <3>2
  <2>4. /\ s # None => "deploy" \in registry'[s].recorded
        /\ c # None => "current" \in registry'[c].recorded
        BY <1>1, <2>1, <2>2 DEF CaseOK
  <2>5. CaseOK(e)' BY <1>1, <2>3, <2>4 DEF CaseOK
  <2>6. CleanOK(e)'
    <3>1. CASE e = port BY <2>2, <3>1 DEF CleanOK, Clean
    <3>2. CASE e # port
      <4>1. registry'[e] = registry[e] /\ (e \in crossed => e \in crossed') BY <2>2, <3>2
      <4> QED BY <1>1, <4>1 DEF CleanOK, Clean
    <3> QED BY <3>1, <3>2
  <2> QED BY <1>2, <2>5, <2>6
<1> QED BY <1>3, <1>4

\* A case that is answered keeps the invariant.
LEMMA RunKeepsCases == ASSUME CasesInv, NEW d \in Drivers, RunCase(d) PROVE CasesInv'
<1> DEFINE k == allCases[case[d]]
           r == registry[port]
           s == fixture[d].parent
           n == case[d]
<1>1. /\ HostInv /\ HostInv' /\ CaseOK(d) /\ PlaceOK(d) /\ CleanOK(d) /\ OwnersInv
      BY CaseSteps DEF CasesInv
<1>2. /\ UNCHANGED <<remote, server, port, pc, interrupted, code, fault>>
      /\ carriedOut(d) /\ pc[d] = "cases" /\ ~interrupted[d]
      BY DEF RunCase, host
<1>3. /\ port \in Drivers
      /\ \A q \in Drivers : q # port => registry'[q] = registry[q]
      /\ \A q \in Drivers : registry[q].recorded \subseteq registry'[q].recorded
      /\ registry'[port].recorded = r.recorded \cup (IF k = "create" THEN {"deploy"} ELSE {})
                                 \cup (IF k = "fixtures" THEN {"current"} ELSE {})
      /\ registry'[port].starred <=> ~(r.starred <=> (k \in {"star", "unstar"} /\ s = port))
      /\ registry'[port].alerted <=> (r.alerted \/ (k = "alert" /\ s = port))
      /\ crossed' = IF port = d THEN crossed ELSE crossed \cup {d, port}
      BY <1>1, <1>2, CarriedOut
<1>4. /\ n \in 1..13 /\ case'[d] = n + 1
      /\ fixture'[d].parent = IF k = "create" /\ "deploy" \notin r.recorded THEN port ELSE s
      /\ fixture'[d].current = IF k = "fixtures" THEN port ELSE fixture[d].current
      /\ failed'[d] <=> failed[d] \/ ~passes(k, fixture[d], port, r)
      /\ \A e \in Drivers : e # d =>
            fixture'[e] = fixture[e] /\ case'[e] = case[e] /\ failed'[e] = failed[e]
      BY <1>1, RunCaseFacts
<1>5. /\ k = "create" <=> n = 2
      /\ k = "parent" <=> n = 3
      /\ k = "deploy" <=> n = 5
      /\ k = "fixtures" <=> n = 6
      /\ k = "current" <=> n = 7
      /\ k = "star" <=> n = 8
      /\ k = "starred" <=> n = 9
      /\ k = "unstar" <=> n = 10
      /\ k = "alert" <=> n = 11
      /\ k = "alerted" <=> n = 12
      BY <1>4, CaseIndex
<1>6. /\ s \in Drivers \cup {None} /\ fixture[d].current \in Drivers \cup {None}
      /\ failed[d] \in BOOLEAN
      BY <1>1 DEF HostInv, TypeOK, Fixtures
<1> HIDE DEF k, r, s, n
<1>7. OwnersInv'
  <2>1. ASSUME NEW e \in Drivers, e # d, fixture[e].parent # None
        PROVE  fixture'[d].parent # fixture[e].parent
    <3>1. fixture[e].parent = port => "deploy" \in r.recorded
          BY <1>3, <2>1 DEF CasesInv, CaseOK, r
    <3>2. s # fixture[e].parent BY <1>1, <2>1 DEF OwnersInv, s
    <3> QED BY <1>4, <3>1, <3>2
  <2>2. \A e, f \in Drivers :
           fixture'[e].parent # None /\ fixture'[e].parent = fixture'[f].parent => e = f
        BY <1>1, <1>4, <2>1 DEF OwnersInv
  <2>3. ASSUME NEW q \in Drivers, registry'[q].starred \/ registry'[q].alerted
        PROVE  \E e \in Drivers : fixture'[e].parent = q
    <3>1. \E e \in Drivers : fixture[e].parent = q
          BY <1>1, <1>3, <2>3 DEF OwnersInv, r, s
    <3>2. PICK e \in Drivers : fixture[e].parent = q BY <3>1
    <3>3. CASE e = d
      <4>1. s = q /\ q # None BY <3>2, <3>3, SmokeAssumption DEF s
      <4>2. n # 2 BY <1>1, <4>1 DEF CaseOK, s, n
      <4> QED BY <1>4, <1>5, <3>3, <4>1, <4>2
    <3>4. CASE e # d BY <1>4, <3>2, <3>4
    <3> QED BY <3>3, <3>4
  <2> QED BY <2>2, <2>3 DEF OwnersInv
<1>8. failed'[d]
      \/ /\ ~failed[d]
         /\ n = 2 => "deploy" \notin r.recorded
         /\ n \in {8, 9, 10, 11, 12} => s = port
         /\ n = 7 => fixture[d].current = port
      BY <1>4, <1>5 DEF passes, shows, needsParent, s
<1>9. CaseOK(d)'
  <2> DEFINE t == fixture'[d].parent
             c == fixture'[d].current
  <2>1. n <= 2 => s = None BY <1>1 DEF CaseOK, n, s
  <2>2. n <= 6 => fixture[d].current = None BY <1>1 DEF CaseOK, n
  <2>3. case'[d] <= 2 => t = None BY <1>4, <1>5, <2>1
  <2>4. case'[d] <= 6 => c = None BY <1>4, <1>5, <2>2
  <2>5. s # None => "deploy" \in registry[s].recorded /\ (port = s \/ server[s] = "dead")
        BY <1>1 DEF CaseOK, s
  <2>6. t # None => "deploy" \in registry'[t].recorded /\ (port' = t \/ server'[t] = "dead")
    <3>1. CASE t = port /\ k = "create" BY <1>2, <1>3, <3>1
    <3>2. CASE t = s BY <1>2, <1>3, <1>6, <2>5, <3>2
    <3> QED BY <1>4, <3>1, <3>2
  <2>7. c # None => "current" \in registry'[c].recorded
    <3>1. CASE k = "fixtures" BY <1>3, <1>4, <3>1
    <3>2. CASE k # "fixtures"
      <4>1. c = fixture[d].current BY <1>4, <3>2
      <4>2. c # None => "current" \in registry[c].recorded BY <1>1, <4>1 DEF CaseOK
      <4> QED BY <1>3, <1>6, <4>1, <4>2
    <3> QED BY <3>1, <3>2
  <2>8. ASSUME ~failed'[d], case'[d] > 2 PROVE t # None
    <3>1. ~failed[d] /\ n > 2 => s # None BY <1>1 DEF CaseOK, n, s
    <3> QED BY <1>3, <1>4, <1>5, <1>8, <2>8, <3>1, SmokeAssumption
  <2>9. ASSUME ~failed'[d], case'[d] > 6
        PROVE  c # None /\ (c = t \/ server'[t] = "dead")
    <3>1. n > 2 /\ n >= 6 /\ t = s /\ t # None BY <1>4, <1>5, <2>8, <2>9
    <3>2. CASE n = 6 BY <1>2, <1>3, <1>4, <1>5, <2>5, <3>1, <3>2, SmokeAssumption
    <3>3. CASE n > 6
      <4>1. fixture[d].current # None /\ (fixture[d].current = s \/ server[s] = "dead")
            BY <1>1, <1>8, <2>9, <3>3 DEF CaseOK, n, s
      <4> QED BY <1>2, <1>4, <1>5, <3>1, <3>3, <4>1
    <3> QED BY <1>4, <3>1, <3>2, <3>3
  <2>10. ASSUME ~failed'[d], case'[d] > 8 PROVE c = t
    <3>1. n >= 8 /\ t = s /\ c = fixture[d].current BY <1>4, <1>5, <2>10
    <3>2. CASE n = 8
      <4>1. s = port /\ ~failed[d] BY <1>8, <2>10, <3>2
      <4>2. server[s] # "dead" BY <1>1, <1>3, <4>1 DEF HostInv, HostOK
      <4> QED BY <1>1, <3>1, <3>2, <4>1, <4>2 DEF CaseOK, n, s
    <3>3. CASE n > 8 BY <1>1, <1>8, <2>10, <3>1, <3>3 DEF CaseOK, n, s
    <3> QED BY <1>4, <3>1, <3>2, <3>3
  <2>11. ASSUME ~failed'[d], t # None
         PROVE  /\ registry'[t].starred <=> n + 1 \in {9, 10}
                /\ registry'[t].alerted <=> n + 1 > 11
    <3>1. n >= 2 BY <1>4, <2>3, <2>11
    <3>2. CASE n = 2
      <4>1. t = port /\ "deploy" \notin r.recorded
            BY <1>4, <1>5, <1>8, <2>11, <3>2
      <4>2. ~r.starred /\ ~r.alerted
            BY <1>1, <1>3, <4>1, SmokeAssumption DEF OwnersInv, CasesInv, CaseOK, r
      <4> QED BY <1>3, <1>5, <3>2, <4>1, <4>2
    <3>3. CASE n > 2
      <4>1. t = s BY <1>4, <1>5, <3>3
      <4>2. /\ registry[s].starred <=> n \in {9, 10}
            /\ registry[s].alerted <=> n > 11
            BY <1>1, <1>8, <2>11, <4>1 DEF CaseOK, n, s
      <4>3. CASE s # port
        <5>1. registry'[s] = registry[s] BY <1>3, <1>6, <2>11, <4>1, <4>3
        <5>2. n \notin {8, 9, 10, 11, 12} BY <1>8, <2>11, <4>3
        <5> QED BY <1>4, <4>1, <4>2, <5>1, <5>2
      <4>4. CASE s = port
        <5>1. r = registry[s] BY <4>4 DEF r
        <5>2. /\ registry'[s].starred <=> ~(registry[s].starred <=> (n \in {8, 10}))
              /\ registry'[s].alerted <=> (registry[s].alerted \/ n = 11)
              BY <1>3, <1>5, <4>4, <5>1
        <5> QED BY <1>4, <4>1, <4>2, <5>2
      <4> QED BY <4>3, <4>4
    <3> QED BY <1>4, <3>1, <3>2, <3>3
  <2> QED BY <1>4, <2>3, <2>4, <2>6, <2>7, <2>8, <2>9, <2>10, <2>11 DEF CaseOK
<1>10. PlaceOK(d)'
       BY <1>1, <1>2, SmokeAssumption DEF PlaceOK
<1>11. CleanOK(d)'
  <2> SUFFICES ASSUME Clean(d)' PROVE CleanOK(d)' BY DEF CleanOK
  <2>1. port = d /\ Clean(d) BY <1>2, <1>3 DEF Clean
  <2>2. /\ ~failed[d]
        /\ n > 2 => s = d
        /\ n > 6 => fixture[d].current = d
        /\ "deploy" \in r.recorded <=> n > 2
        BY <1>1, <1>2, <2>1 DEF CleanOK, n, s, r
  <2>3. n > 2 => /\ r.starred <=> n \in {9, 10}
                 /\ r.alerted <=> n > 11
        BY <1>1, <2>1, <2>2, SmokeAssumption DEF CaseOK, n, s, r
  <2>4. passes(k, fixture[d], port, r)
    <3>1. k \in needsParent => n > 2 BY <1>4, <1>5 DEF needsParent
    <3>2. k = "unstar" => ~effect(k, fixture[d], port, r).starred
      <4>1. fixture[d] \in Fixtures /\ r \in Registry BY <1>1, <1>3 DEF HostInv, TypeOK, r
      <4>2. DoesCase(k, fixture[d], port, r, effect(k, fixture[d], port, r),
                     kept(k, fixture[d], port, r))
            BY <1>3, <4>1, EffectFacts
      <4> QED BY <1>5, <2>1, <2>2, <2>3, <4>2 DEF DoesCase, s
    <3> QED BY <1>4, <1>5, <2>1, <2>2, <2>3, <3>1, <3>2 DEF passes, shows, s
  <2>5. ~failed'[d] BY <1>4, <2>2, <2>4
  <2>6. n + 1 > 2 => fixture'[d].parent = d BY <1>4, <1>5, <2>1, <2>2
  <2>7. n + 1 > 6 => fixture'[d].current = d BY <1>4, <1>5, <2>1, <2>2
  <2>8. "deploy" \in registry'[d].recorded <=> n + 1 > 2
        BY <1>3, <1>4, <1>5, <2>1, <2>2
  <2> QED BY <1>2, <1>4, <2>1, <2>5, <2>6, <2>7, <2>8 DEF CleanOK
<1>12. ASSUME NEW e \in Drivers, e # d PROVE CaseOK(e)' /\ PlaceOK(e)' /\ CleanOK(e)'
       BY <1>2, <1>4, <1>12, OthersKeep
<1> QED BY <1>1, <1>7, <1>9, <1>10, <1>11, <1>12 DEF CasesInv

\* A case that fails from outside, or is cancelled, keeps the invariant.
LEMMA FailKeepsCases ==
    ASSUME CasesInv, NEW d \in Drivers, FailCase(d) \/ CancelCases(d)
    PROVE  CasesInv'
<1>1. /\ HostInv /\ HostInv' /\ CaseOK(d) /\ PlaceOK(d) /\ CleanOK(d) /\ OwnersInv
      BY CaseSteps DEF CasesInv
<1>2. /\ UNCHANGED <<remote, server, port, pc, interrupted, code, fixture>>
      /\ carriedOut(d) \/ UNCHANGED <<registry, crossed>>
      /\ pc[d] = "cases"
      BY DEF FailCase, CancelCases, host
<1>3. /\ failed'[d] /\ case[d] <= case'[d]
      /\ \A e \in Drivers : e # d =>
            case'[e] = case[e] /\ failed'[e] = failed[e] /\ fault'[e] = fault[e]
      BY <1>1, CaseTable DEF HostInv, TypeOK, FailCase, CancelCases, advances, mayFail
<1>4. case[d] \in Nat /\ case'[d] \in Nat BY <1>1 DEF HostInv, TypeOK
<1>5. \A q \in Drivers : registry[q].recorded \subseteq registry'[q].recorded
      BY <1>1, <1>2, CarriedOut
<1>6. OwnersInv'
  <2>1. ASSUME NEW q \in Drivers, registry'[q].starred \/ registry'[q].alerted
        PROVE  \E e \in Drivers : fixture[e].parent = q
    <3>1. CASE UNCHANGED registry BY <1>1, <2>1, <3>1 DEF OwnersInv
    <3>2. CASE carriedOut(d)
      <4>1. registry[q].starred \/ registry[q].alerted \/ fixture[d].parent = q
            BY <1>1, <2>1, <3>2, CarriedOut
      <4> QED BY <1>1, <4>1 DEF OwnersInv
    <3> QED BY <1>2, <3>1, <3>2
  <2> QED BY <1>1, <1>2, <2>1 DEF OwnersInv
<1>7. CaseOK(d)'
  <2>1. fixture[d].parent \in Drivers \cup {None} /\ fixture[d].current \in Drivers \cup {None}
        BY <1>1 DEF HostInv, TypeOK, Fixtures
  <2>2. /\ case'[d] <= 2 => fixture[d].parent = None
        /\ case'[d] <= 6 => fixture[d].current = None
        BY <1>1, <1>3, <1>4 DEF CaseOK
  <2>3. fixture[d].parent # None =>
           /\ "deploy" \in registry'[fixture[d].parent].recorded
           /\ (port = fixture[d].parent \/ server[fixture[d].parent] = "dead")
        BY <1>1, <1>5, <2>1 DEF CaseOK
  <2>4. fixture[d].current # None => "current" \in registry'[fixture[d].current].recorded
        BY <1>1, <1>5, <2>1 DEF CaseOK
  <2> QED BY <1>2, <1>3, <2>2, <2>3, <2>4 DEF CaseOK
<1>8. PlaceOK(d)' BY <1>1, <1>2, SmokeAssumption DEF PlaceOK
<1>9. ~Clean(d)'
  <2>1. CASE CancelCases(d) BY <2>1 DEF CancelCases, Clean
  <2>2. CASE FailCase(d) /\ port = None
        BY <1>1, <1>2, <2>2, SmokeAssumption DEF FailCase, Clean, CleanOK, mayFail, carriedOut,
           listenerAnswers, HostInv, TypeOK
  <2>3. CASE FailCase(d) /\ port # None
        BY <1>1, <2>3 DEF FailCase, Clean, mayFail, HostInv, TypeOK
  <2> QED BY <2>1, <2>2, <2>3
<1>10. ASSUME NEW e \in Drivers, e # d PROVE CaseOK(e)' /\ PlaceOK(e)' /\ CleanOK(e)'
       BY <1>2, <1>3, <1>10, OthersKeep
<1> QED BY <1>1, <1>6, <1>7, <1>8, <1>9, <1>10 DEF CasesInv, CleanOK

LEMMA CasesInvariant == Spec => []CasesInv
<1>1. CasesInv /\ [Next]_vars => CasesInv'
  <2> SUFFICES ASSUME CasesInv, [Next]_vars PROVE CasesInv' OBVIOUS
  <2>1. CASE UNCHANGED vars
        BY <2>1 DEF vars, CasesInv, HostInv, TypeOK, HostOK, alive, OwnersInv, CaseOK, PlaceOK,
           CleanOK, Clean
  <2>2. CASE Next BY <2>2, HostKeepsCases, RunKeepsCases, FailKeepsCases DEF Next
  <2> QED BY <2>1, <2>2
<1> QED BY <1>1, InitCases, PTL DEF Spec

\* The exit code is about one server: who passed left its event there, alone;
\* who had its own server to itself and met no fault passed.
THEOREM CodeIsTruthful == Spec => []CodeTellsServer
<1>1. ASSUME CasesInv PROVE CodeTellsServer
  <2>1. ASSUME NEW d \in Drivers, code[d] = 0
        PROVE  /\ fixture[d].parent # None
               /\ registry[fixture[d].parent] = [recorded |-> {"deploy", "current"},
                                                 starred |-> FALSE, alerted |-> TRUE]
               /\ \A e \in Drivers \ {d} : code[e] = 0 => fixture[e].parent # fixture[d].parent
    <3>1. PICK s : s = fixture[d].parent OBVIOUS
    <3>2. ~failed[d] /\ case[d] = 14 BY <1>1, <2>1 DEF CasesInv, PlaceOK
    <3>3. /\ s # None /\ fixture[d].current = s
          /\ "deploy" \in registry[s].recorded /\ "current" \in registry[s].recorded
          /\ ~registry[s].starred /\ registry[s].alerted
          BY <1>1, <3>1, <3>2 DEF CasesInv, CaseOK
    <3>4. registry[s] \in Registry
          BY <1>1, <3>1, <3>3 DEF CasesInv, HostInv, TypeOK, Fixtures
    <3>5. registry[s] = [recorded |-> {"deploy", "current"}, starred |-> FALSE, alerted |-> TRUE]
      <4>1. PICK q \in Registry : q = registry[s] BY <3>4
      <4>2. q.recorded = {"deploy", "current"} BY <3>3, <4>1 DEF Registry
      <4>3. q.starred = FALSE /\ q.alerted = TRUE BY <3>3, <4>1 DEF Registry
      <4>4. q = [recorded |-> q.recorded, starred |-> q.starred, alerted |-> q.alerted]
            BY DEF Registry
      <4> QED BY <4>1, <4>2, <4>3, <4>4
    <3>6. \A e \in Drivers \ {d} : fixture[e].parent # s
          BY <1>1, <3>1, <3>3 DEF CasesInv, OwnersInv
    <3> QED BY <3>1, <3>3, <3>5, <3>6
  <2>2. ASSUME NEW d \in Drivers, code[d] = 1
        PROVE  fault[d] \/ interrupted[d] \/ d \in remote \cup crossed
        BY <1>1, <2>2 DEF CasesInv, PlaceOK, CleanOK, Clean
  <2> QED BY <2>1, <2>2 DEF CodeTellsServer
<1> QED BY <1>1, CasesInvariant, PTL
=============================================================================
