------------------------------- MODULE Client -------------------------------
(***************************************************************************)
(* The pcr command: each invocation checks its command line, resolves its  *)
(* configuration, sends at most one request and turns what comes back, or  *)
(* does not, into an exit status.  The request passes the Beyond proxy (in *)
(* front of the servers configured for it), API authentication and one     *)
(* handler; proxy, network and server may fail at any point, and a request *)
(* may still be carried out after its invocation has given up.             *)
(*                                                                         *)
(* The registry behind the handlers is atomic here (ChangeRegistry has its *)
(* steps): events are known by their external id.  Times are in fractions  *)
(* of a second.  A text that may hold colons is the sequence of its parts. *)
(* Flags that are handed through unchanged (user, type, severity, offset,  *)
(* top-level, alerted) are left out.                                       *)
(***************************************************************************)
EXTENDS Access, Integers

CONSTANTS
    Invocations,    \* processes of the pcr command
    Commands,       \* the command lines and settings tried
    Environments,   \* the settings the server may have been started with
    Holder,         \* per well-formed credential, the person the proxy knows it by, or None
    Second,         \* time units in a second
    DefaultWindow,  \* the 30 minutes of parseAroundWindow
    SortStrings,    \* sort.Strings: for a set of tag keys, the keys in order
    Malformed       \* an argument that does not parse

Kinds == {"list", "create", "get", "current", "doctor"}

\* An optional time or duration, and a tag, as kong hands them to the command;
\* both sides of the tag's "=" are texts that may hold colons.
OptionalTime == Int \cup {None, Malformed}
Parts == Seq(STRING) \ {<< >>}
TagArgument == [key : Parts, value : Parts] \cup {Malformed}

ASSUME ClientAssumption ==
    /\ Second \in Nat \ {0}
    /\ DefaultWindow \in Nat /\ DefaultWindow % Second = 0
    /\ None \notin Int /\ Malformed \notin Int \cup {None}
    /\ None \notin DOMAIN Holder
    /\ \A credential \in DOMAIN Holder : Holder[credential] \in Persons \cup {None}

ASSUME CommandsAssumption ==
    \A c \in Commands :
        /\ c # None
        /\ c.kind \in Kinds
        /\ c.kind = "list" =>
              /\ {c.after, c.before, c.around, c.window} \subseteq OptionalTime
              /\ c.tag \in Seq(TagArgument)
              /\ c.limit \in Nat
        /\ c.kind = "current" => c.scope \subseteq Names \cup {None}

ASSUME EnvironmentsAssumption ==
    \A e \in Environments :
        /\ DOMAIN e = {"provider", "tokens", "oauth", "issuer", "duration", "orgs", "subjects",
                       "allowAny", "requireAuthReads", "others"}
        /\ e.orgs \in Seq(Names)
        /\ \A s \in e.subjects : s = [namespace |-> s.namespace, id |-> s.id]
        /\ e.provider = "github" => \A person \in Persons, org \in Entries(e.orgs) :
                                      org.text \in DOMAIN person.member

VARIABLES
    env,       \* the server's settings; never change
    db,        \* the recorded events: external id, recorded user, invocation
    pc,        \* where each invocation stands
    command,   \* the command of each invocation, or None
    request,   \* each invocation's request under way, or None
    response,  \* the answer under way to it, or None
    served,    \* history: the parameters its query was served with, or None
    exit       \* its exit status, or None

vars == <<env, db, pc, command, request, response, served, exit>>
process == <<pc, command, exit>>

Init ==
    /\ env \in Environments
    /\ db = {}
    /\ pc = [i \in Invocations |-> "idle"]
    /\ command = [i \in Invocations |-> None]
    /\ request = [i \in Invocations |-> None]
    /\ response = [i \in Invocations |-> None]
    /\ served = [i \in Invocations |-> None]
    /\ exit = [i \in Invocations |-> None]

cfg == Load(env)

-----------------------------------------------------------------------------
(* The command line (internal/pcrcli)                                      *)

\* --tag key=value; a repeated key keeps its last value.
validTags(args) == \A t \in DOMAIN args : args[t] # Malformed

parseTags(args) ==
    [k \in {args[t].key : t \in DOMAIN args} |->
        args[Max({t \in DOMAIN args : args[t].key = k})].value]

ASSUME SortAssumption ==
    \A c \in Commands : c.kind = "list" /\ validTags(c.tag) =>
        LET keys == DOMAIN parseTags(c.tag)
        IN  /\ SortStrings[keys] \in Seq(keys)
            /\ \A k \in keys : \E n \in DOMAIN SortStrings[keys] : SortStrings[keys][n] = k

\* What EventsListCommand.Run, EventsCreateCommand.Run and the commands about
\* one event check before they look at the configuration.
validArguments(c) ==
    CASE c.kind = "list" ->
            /\ Malformed \notin {c.after, c.before, c.around, c.window}
            /\ c.window # None => c.window > 0 /\ c.around # None
            /\ validTags(c.tag)
      [] c.kind = "create" -> c.ext # Malformed /\ validTags(c.tag)
      [] c.kind = "get" -> c.ext # Malformed
      [] OTHER -> TRUE

\* pcrconfig.Load: only the default file may be missing.
loads(s) == s.file # Malformed /\ (s.file = None => ~s.pathRequired)

firstSet(values) ==
    LET given == {i \in DOMAIN values : values[i] # None}
    IN  IF given = {} THEN None ELSE values[Min(given)]

fileURL(s) == IF s.file = None THEN None ELSE s.file.url
fileCredential(s) == IF s.file = None THEN None ELSE s.file.credential

\* The flag, then the environment, then the file; for the credential, the
\* environment, then the file.
effectiveURL(s) == firstSet(<<s.urlFlag, s.urlEnv, fileURL(s)>>)
effectiveCredential(s) == firstSet(<<s.credentialEnv, fileCredential(s)>>)

\* HTTPS, or with --allow-http plain HTTP to this machine.
ParseOrigin(url, allowHTTP) == url = "https" \/ (url = "loopback" /\ allowHTTP)

ValidateCredential(credential) == credential \in DOMAIN Holder

\* Resolve and Runtime.client.
resolves(s) ==
    /\ loads(s)
    /\ ParseOrigin(effectiveURL(s), s.allowHTTP)
    /\ ValidateCredential(effectiveCredential(s))

-----------------------------------------------------------------------------
(* The requests (internal/pcrclient)                                       *)

\* time.RFC3339 has no fractions of a second.
setTime(t) == IF t = None THEN None ELSE t - (t % Second)

\* key+":"+value for each tag, in the order of the keys.
tagParams(tags) ==
    LET keys == SortStrings[DOMAIN tags]
    IN  [n \in DOMAIN keys |-> keys[n] \o tags[keys[n]]]

\* Client.List; a zero limit is left out, as are empty strings.
List(c) ==
    [start_after |-> setTime(c.after), start_before |-> setTime(c.before),
     around |-> setTime(c.around),
     window |-> IF c.around # None THEN c.window ELSE None,
     tag |-> tagParams(parseTags(c.tag)),
     limit |-> IF c.limit = 0 THEN None ELSE c.limit]

\* cleanValues and Client.Current.
Current(c) == [for_team |-> c.team, scope |-> c.scope \ {None}]

query(c) ==
    CASE c.kind = "list" -> List(c)
      [] c.kind = "current" -> Current(c)
      [] c.kind = "doctor" -> [limit |-> 1]
      [] OTHER -> None

\* Mutant: a server error counts as a bad request.
exitCodeFor_Range(status) ==
    CASE status \in {401, 403} -> 77
      [] status = 404 -> 66
      [] status > 500 -> 69
      [] OTHER -> 64

\* statusError and exitCodeFor.
exitCodeFor(status) ==
    CASE status \in {401, 403} -> 77
      [] status = 404 -> 66
      [] status >= 500 -> 69
      [] OTHER -> 64

success(c) == IF c.kind = "create" THEN {200, 201} ELSE {200}

ends(i, status) ==
    /\ pc' = [pc EXCEPT ![i] = "done"]
    /\ exit' = [exit EXCEPT ![i] = status]

\* Run: invocation i is started with command c.
begins(i, c) ==
    /\ pc[i] = "idle"
    /\ command' = [command EXCEPT ![i] = c]

RefuseUsage(i, c) ==
    /\ begins(i, c)
    /\ ~validArguments(c)
    /\ ends(i, 64)
    /\ UNCHANGED <<env, db, request, response, served>>

RefuseConfiguration(i, c) ==
    /\ begins(i, c)
    /\ validArguments(c)
    /\ ~resolves(c.settings)
    /\ ends(i, 78)
    /\ UNCHANGED <<env, db, request, response, served>>

\* Client.do up to httpClient.Do.
Send(i, c) ==
    /\ begins(i, c)
    /\ validArguments(c)
    /\ resolves(c.settings)
    /\ request' = [request EXCEPT ![i] =
          [at |-> IF env.provider = "beyond" THEN "proxy" ELSE "server",
           credential |-> effectiveCredential(c.settings), person |-> None,
           query |-> query(c)]]
    /\ pc' = [pc EXCEPT ![i] = "waiting"]
    /\ UNCHANGED <<env, db, response, served, exit>>

\* An answer is read: its status decides, then whether its body decodes.
Receive(i) ==
    /\ pc[i] = "waiting"
    /\ response[i] # None
    /\ response' = [response EXCEPT ![i] = None]
    /\ IF response[i].status \notin success(command[i])
       THEN ends(i, exitCodeFor(response[i].status))
       ELSE IF ~response[i].whole
       THEN ends(i, 69)
       ELSE pc' = [pc EXCEPT ![i] = "writing"] /\ UNCHANGED exit
    /\ UNCHANGED <<env, db, command, request, served>>

\* The result goes to standard output, which may fail.
WriteResult(i) ==
    /\ pc[i] = "writing"
    /\ \E status \in {0, 1} : ends(i, status)
    /\ UNCHANGED <<env, db, command, request, response, served>>

\* What is under way goes on without the invocation.
givesUp(i) ==
    /\ pc[i] = "waiting"
    /\ ends(i, 69)
    /\ response' = [response EXCEPT ![i] = None]
    /\ UNCHANGED <<env, db, command, request, served>>

\* Mutant: no client timeout.
TimeOut_Unbounded(i) == pc[i] = "waiting" /\ command[i].settings.timeout < 0 /\ givesUp(i)

\* http.Client's Timeout, when it is positive.
TimeOut(i) == pc[i] = "waiting" /\ command[i].settings.timeout > 0 /\ givesUp(i)

\* The connection fails, or the user interrupts the command.
Disconnect(i) == givesUp(i)

-----------------------------------------------------------------------------
(* The proxy and the network                                               *)

\* An answer to invocation i, if it still waits for one.
answers(i, status, whole) ==
    response' = IF pc[i] = "waiting" /\ response[i] = None
                THEN [response EXCEPT ![i] = [status |-> status, whole |-> whole]]
                ELSE response

\* Beyond replaces the credential by the identity it verified.
ProxyForwards(i) ==
    /\ request[i] # None /\ request[i].at = "proxy"
    /\ Holder[request[i].credential] # None
    /\ request' = [request EXCEPT ![i] =
          [at |-> "server", credential |-> None, person |-> Holder[@.credential],
           query |-> @.query]]
    /\ UNCHANGED <<env, db, process, response, served>>

\* A credential it does not know.  The redirect to the login page is refused
\* by the client.
ProxyRefuses(i) ==
    /\ request[i] # None /\ request[i].at = "proxy"
    /\ Holder[request[i].credential] = None
    /\ \E status \in {302, 401, 403} : answers(i, status, TRUE)
    /\ request' = [request EXCEPT ![i] = None]
    /\ UNCHANGED <<env, db, process, served>>

\* The proxy answers for a server that is slow or down; a request it has
\* forwarded goes on.
ProxyFails(i) ==
    /\ env.provider = "beyond"
    /\ request[i] # None
    /\ answers(i, 502, TRUE)
    /\ request' = [request EXCEPT ![i] = IF @.at = "proxy" THEN None ELSE @]
    /\ UNCHANGED <<env, db, process, served>>

\* A request is lost, or cancelled with its connection before it takes effect.
Lose(i) ==
    /\ request[i] # None
    /\ request' = [request EXCEPT ![i] = None]
    /\ UNCHANGED <<env, db, process, response, served>>

-----------------------------------------------------------------------------
(* The server                                                              *)

reads(c) == c.kind # "create"

\* Mutant: the proxy's identity is taken without PCR's own policy.
AuthWithTrustedIdentity_NoPolicy(c, r) ==
    IF ~cfg.requireAuthReads /\ reads(c) THEN "open"
    ELSE IF cfg.provider = "beyond" /\ r.person # None THEN "principal"
    ELSE IF r.credential \in cfg.tokens THEN "token"
    ELSE "refused"

\* Mutant: reads are never authenticated.
AuthWithTrustedIdentity_OpenReads(c, r) ==
    IF reads(c) THEN "open"
    ELSE IF cfg.provider = "beyond" /\ r.person # None
            /\ admitted(AuthenticateRequest(cfg, r.person)) THEN "principal"
    ELSE IF r.credential \in cfg.tokens THEN "token"
    ELSE "refused"

\* How request r of command c is authenticated: not at all, by the trusted
\* identity, by an API token.  The command sends no cookie and no query token.
AuthWithTrustedIdentity(c, r) ==
    IF ~cfg.requireAuthReads /\ reads(c) THEN "open"
    ELSE IF cfg.provider = "beyond" /\ r.person # None
            /\ admitted(AuthenticateRequest(cfg, r.person)) THEN "principal"
    ELSE IF r.credential \in cfg.tokens THEN "token"
    ELSE "refused"

\* authenticatedAPIIdentity overrides the body's user name; the command sends
\* none, so that a token leaves it empty.
recordedUser(c, r) ==
    IF AuthWithTrustedIdentity(c, r) = "principal" THEN lower(r.person.email) ELSE None

recorded(ext) == \E e \in db : e.ext = ext

\* CreateEvent and ChangeService.Create: a known external id comes first, then
\* the user name and the tags.
createStatus(c, r) ==
    IF recorded(c.ext) THEN 200
    ELSE IF recordedUser(c, r) = None \/ ~c.acceptable THEN 400
    ELSE 201

\* tags[k] = v: the last parameter with the key.
lastTag(tag, k) == Max({n \in DOMAIN tag : Head(tag[n]) = k})

\* Mutant: a tag is split at every colon and its second part taken.
parseTagParams_Split(tag) ==
    [k \in {Head(tag[n]) : n \in DOMAIN tag} |-> <<Head(Tail(tag[lastTag(tag, k)]))>>]

\* A tag is cut at its first colon.
parseTagParams(tag) ==
    [k \in {Head(tag[n]) : n \in DOMAIN tag} |-> Tail(tag[lastTag(tag, k)])]

\* The paramError of parseTagParams: nothing before the first colon.
badTag(tag) == \E n \in DOMAIN tag : Head(tag[n]) = ""

\* parseListParams with parseAroundWindow.
parseListParams(q) ==
    [after |-> q.start_after, before |-> q.start_before, around |-> q.around,
     window |-> IF q.around = None THEN None
                ELSE IF q.window = None THEN DefaultWindow ELSE q.window,
     tags |-> parseTagParams(q.tag),
     limit |-> IF q.limit = None THEN 0 ELSE q.limit]

\* normalizeCurrentValues.
parseCurrentParams(q) == [forTeam |-> q.for_team, scopes |-> {lower(s) : s \in q.scope}]

params(c, q) ==
    CASE c.kind = "list" -> parseListParams(q)
      [] c.kind = "current" -> parseCurrentParams(q)
      [] OTHER -> None

statusOf(c, r) ==
    IF AuthWithTrustedIdentity(c, r) = "refused" THEN 401
    ELSE CASE c.kind = "create" -> createStatus(c, r)
           [] c.kind = "get" -> IF recorded(c.ext) THEN 200 ELSE 404
           [] c.kind = "list" -> IF badTag(r.query.tag) THEN 400 ELSE 200
           [] OTHER -> 200

insertion(i) ==
    {[ext |-> command[i].ext, user |-> recordedUser(command[i], request[i]), by |-> i]}

handling(i) == request[i] # None /\ request[i].at = "server" /\ cfg # None

\* The handler runs to its end; the body may be cut off on its way.
Serve(i) ==
    LET c == command[i]
        s == statusOf(c, request[i])
    IN  /\ handling(i)
        /\ \E whole \in BOOLEAN : answers(i, s, whole)
        /\ db' = IF s = 201 THEN db \cup insertion(i) ELSE db
        /\ served' = [served EXCEPT ![i] = IF s = 200 THEN params(c, request[i].query) ELSE @]
        /\ request' = [request EXCEPT ![i] = None]
        /\ UNCHANGED <<env, process>>

\* The store fails, or the request times out: a commit may have happened.
ServeFails(i) ==
    LET c == command[i]
        s == statusOf(c, request[i])
    IN  /\ handling(i)
        /\ s # 401
        /\ answers(i, 500, TRUE)
        /\ \/ UNCHANGED db
           \/ s = 201 /\ db' = db \cup insertion(i)
        /\ request' = [request EXCEPT ![i] = None]
        /\ UNCHANGED <<env, process, served>>

-----------------------------------------------------------------------------
(* Specification                                                           *)

Next ==
    \E i \in Invocations :
        \/ \E c \in Commands : RefuseUsage(i, c) \/ RefuseConfiguration(i, c) \/ Send(i, c)
        \/ Receive(i) \/ WriteResult(i) \/ TimeOut(i) \/ Disconnect(i)
        \/ ProxyForwards(i) \/ ProxyRefuses(i) \/ ProxyFails(i) \/ Lose(i)
        \/ Serve(i) \/ ServeFails(i)

\* An invocation's own steps are taken, the timer included; nothing is
\* assumed of the network, the proxy or the server.
Fairness ==
    \A i \in Invocations : WF_vars(TimeOut(i)) /\ WF_vars(WriteResult(i))

Spec == Init /\ [][Next]_vars /\ Fairness

-----------------------------------------------------------------------------
(* Properties                                                              *)

creates(i) == command[i] # None /\ command[i].kind = "create"

\* The exit status of a creation tells a script whether to try again
\* (README, exit categories): 0 means the event is recorded; a bad invocation,
\* denied access or bad configuration means this invocation recorded nothing
\* and nothing of it is under way.  Only 69 and 1 leave it open.
ExitTellsOutcome ==
    \A i \in Invocations : creates(i) =>
        /\ exit[i] = 0 => recorded(command[i].ext)
        /\ exit[i] \in {64, 66, 77, 78} => request[i] = None /\ \A e \in db : e.by # i

\* Every event recorded through the command names the person whose credential
\* the invocation resolved, and PCR's own policy permits that person.
AttributedToHolder ==
    \A e \in db :
        LET person == Holder[effectiveCredential(command[e.by].settings)]
        IN  /\ person # None
            /\ e.user = lower(person.email)
            /\ Permitted(env, person)

\* doctor predicts access: where reads are authenticated, no creation with the
\* settings doctor approved is denied for lack of permission.
DoctorPredicts ==
    \A i, j \in Invocations :
        (/\ env.requireAuthReads
         /\ exit[i] = 0 /\ command[i].kind = "doctor"
         /\ creates(j) /\ command[j].settings = command[i].settings)
        => exit[j] # 77

canonicalTime(t) == t - (t % Second)

\* The bounds buildWhereClause puts on stored times.
bounds(after, before, around, window) ==
    IF around # None THEN <<canonicalTime(around - window), canonicalTime(around + window)>>
    ELSE <<IF after = None THEN None ELSE canonicalTime(after),
           IF before = None THEN None ELSE canonicalTime(before)>>

\* A listing is served with the bounds, teams, scopes and limit of the command
\* line, whatever fractions of a second and repeated or blank flags it has; only
\* a window that is not of whole seconds may reach from one second earlier, and
\* end one second earlier, than asked.  The server filters on the part of each
\* tag's key before its first colon, by what is left of the key and the value:
\* on the tag as written when no key has a colon, whatever colons its value has,
\* and else on another key; of several keys that begin alike one is left.
ListedAsAsked ==
    \A i \in Invocations : served[i] # None =>
        LET c == command[i]
            s == served[i]
        IN  /\ c.kind = "list" =>
                  /\ LET asked == bounds(c.after, c.before, c.around,
                                         IF c.window = None THEN DefaultWindow ELSE c.window)
                         given == bounds(s.after, s.before, s.around, s.window)
                     IN  IF c.window = None \/ c.window % Second = 0
                         THEN given = asked
                         ELSE \A b \in 1..2 : given[b] \in {asked[b], asked[b] - Second}
                  /\ DOMAIN s.tags = {Head(c.tag[t].key) : t \in DOMAIN c.tag}
                  /\ \A k \in DOMAIN s.tags : \E t \in DOMAIN c.tag :
                        /\ Head(c.tag[t].key) = k
                        /\ \A u \in DOMAIN c.tag : u > t => c.tag[u].key # c.tag[t].key
                        /\ s.tags[k] = Tail(c.tag[t].key) \o c.tag[t].value
                  /\ s.limit = c.limit
            /\ c.kind = "current" =>
                  /\ s.forTeam = c.team
                  /\ {scope.text : scope \in s.scopes} = {scope.text : scope \in c.scope \ {None}}
                  /\ \A scope \in s.scopes : ~scope.upper

\* A server that starts admits exactly the people its settings permit, as the
\* operator wrote them; a provider that fails is never taken for a refusal nor
\* for a permission.  The settings never change: it is enough to look at the
\* states in which nothing has happened yet.
AdmittedAsWritten ==
    (cfg # None /\ \A i \in Invocations : pc[i] = "idle") => \A person \in Persons : \A answer \in Answers(person) :
        \A reply \in {"ok", "failed", "unavailable"} :
            LET decision == Authenticate(cfg, person, reply, answer)
            IN  /\ admitted(decision) => Permitted(env, person)
                /\ decision = "unauthorized" => ~Permitted(env, person)

\* Every invocation with a timeout ends, whatever the other side does.
EveryInvocationExits ==
    \A i \in Invocations :
        (pc[i] = "waiting" /\ command[i].settings.timeout > 0) ~> (pc[i] = "done")
=============================================================================
