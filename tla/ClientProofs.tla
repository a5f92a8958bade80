---------------------------- MODULE ClientProofs ----------------------------
(***************************************************************************)
(* Theorems about Client and Access, for any people, server settings,      *)
(* credentials and command lines of the assumed shapes.                    *)
(***************************************************************************)
EXTENDS Client, WellFoundedInduction, TLAPS

-----------------------------------------------------------------------------
(* The policy *)

\* Min of a set of naturals is in the set.
LEMMA MinElement ==
    ASSUME NEW S \in SUBSET Nat, S # {}
    PROVE  Min(S) \in S /\ \A y \in S : Min(S) <= y
<1> DEFINE R == {p \in Nat \X Nat : p[1] < p[2]}
<1>1. IsWellFoundedOn(R, Nat) BY NatLessThanWellFounded, Zenon DEF OpToRel
<1>2. PICK x \in S : \A y \in S : ~(<<y, x>> \in R) BY <1>1, WFMin
<1>3. ASSUME NEW y \in S, y < x PROVE FALSE
  <2>1. <<y, x>> \in Nat \X Nat /\ <<y, x>>[1] = y /\ <<y, x>>[2] = x OBVIOUS
  <2>2. <<y, x>> \in R BY <1>3, <2>1
  <2> QED BY <1>2, <2>2
<1>4. \A y \in S : x <= y BY <1>3
<1> QED BY <1>4 DEF Min

\* The settings of a server that starts.
LEMMA LoadedSettings ==
    ASSUME NEW e \in Environments, Load(e) # None
    PROVE  /\ accepted(e)
           /\ Load(e).provider = e.provider /\ Load(e).issuer = e.issuer
           /\ Load(e).tokens = e.tokens /\ Load(e).subjects = e.subjects
           /\ Load(e).allowAny = e.allowAny
           /\ Load(e).requireAuthReads = e.requireAuthReads
           /\ Load(e).orgs = [i \in DOMAIN e.orgs |-> normalizeOrg(e.provider, e.orgs[i])]
BY EnvironmentsAssumption DEF Load

LEMMA LoadedOrgs ==
    ASSUME NEW e \in Environments, Load(e) # None
    PROVE  /\ DOMAIN Load(e).orgs = DOMAIN e.orgs
           /\ \A i \in DOMAIN e.orgs :
                 /\ e.orgs[i] \in Names
                 /\ e.provider \in {"github", "google"} => Load(e).orgs[i] = lower(e.orgs[i])
                 /\ e.provider \in {"authentik", "beyond"} => Load(e).orgs[i] = e.orgs[i]
           /\ DOMAIN e.orgs \subseteq Nat
<1>1. PICK orgs : orgs = Load(e).orgs OBVIOUS
<1>2. orgs = [i \in DOMAIN e.orgs |-> normalizeOrg(e.provider, e.orgs[i])]
      BY <1>1, LoadedSettings
<1>3. /\ DOMAIN orgs = DOMAIN e.orgs
      /\ \A i \in DOMAIN e.orgs : orgs[i] = normalizeOrg(e.provider, e.orgs[i])
      BY <1>2
<1>4. e.orgs \in Seq(Names) BY EnvironmentsAssumption
<1>5. DOMAIN e.orgs \subseteq Nat /\ \A i \in DOMAIN e.orgs : e.orgs[i] \in Names
      BY <1>4
<1> QED BY <1>1, <1>3, <1>5 DEF normalizeOrg

\* A name and its lower-case form.
LEMMA LowerName ==
    ASSUME NEW a \in Names
    PROVE  /\ lower(a) \in Names /\ lower(a).text = a.text /\ lower(a).upper = FALSE
           /\ \A b \in Names : lower(a) = lower(b) <=> a.text = b.text
BY DEF Names, lower

\* An allowed subject is one the operator wrote, and the other way round.
LEMMA SubjectAsWritten ==
    ASSUME NEW e \in Environments, Load(e) # None, NEW id
    PROVE  subjectAllowed(Load(e), id) <=> \E s \in e.subjects : s.id = id
<1>1. IdentityProvider(Load(e)) = IdentityProvider(e)
      BY LoadedSettings DEF IdentityProvider
<1>2. \A s \in e.subjects : s.namespace = IdentityProvider(e)
      BY LoadedSettings DEF accepted, validateHumanAuth, validateAllowedSubjects
<1>3. \A s \in e.subjects : s = [namespace |-> s.namespace, id |-> s.id]
      BY EnvironmentsAssumption
<1> QED BY <1>1, <1>2, <1>3, LoadedSettings DEF subjectAllowed

\* The organization found through GitHub.
LEMMA ActiveOrganization ==
    ASSUME NEW e \in Environments, Load(e) # None, e.provider = "github",
           NEW person \in Persons, NEW answer \in Answers(person)
    PROVE  LET found == activeOrganization(Load(e), answer)
               belongs == \E org \in Entries(e.orgs) : BelongsTo(e, person, org)
           IN  /\ found \in {"org", "unauthorized", "unavailable"}
               /\ found = "org" => belongs
               /\ found = "unauthorized" => ~belongs
<1> DEFINE orgs == Load(e).orgs
           decided == {i \in DOMAIN orgs : answer[orgs[i].text] \notin {"absent", "pending"}}
<1>1. /\ DOMAIN orgs = DOMAIN e.orgs
      /\ \A i \in DOMAIN e.orgs : e.orgs[i] \in Names /\ orgs[i] = lower(e.orgs[i])
      BY LoadedOrgs
<1>2. DOMAIN e.orgs \subseteq Nat BY LoadedOrgs
<1>3. ASSUME NEW i \in DOMAIN e.orgs
      PROVE  /\ e.orgs[i] \in Names /\ orgs[i].text = e.orgs[i].text
             /\ answer[orgs[i].text] \in {person.member[e.orgs[i].text], "error"}
             /\ BelongsTo(e, person, e.orgs[i]) <=> person.member[e.orgs[i].text] = "active"
  <2>1. e.orgs[i] \in Names BY <1>1, <1>3
  <2>2. orgs[i].text = e.orgs[i].text
    <3>1. orgs[i] = lower(e.orgs[i]) BY <1>1, <1>3
    <3> QED BY <2>1, <3>1, LowerName
  <2>3. e.orgs[i].text \in DOMAIN person.member
        BY <1>3, EnvironmentsAssumption DEF Entries
  <2>4. answer[e.orgs[i].text] \in {person.member[e.orgs[i].text], "error"}
        BY <2>3 DEF Answers
  <2> QED BY <2>1, <2>2, <2>4 DEF BelongsTo
<1>4. activeOrganization(Load(e), answer) =
         (IF decided = {} THEN "unauthorized"
          ELSE IF answer[orgs[Min(decided)].text] = "active" THEN "org" ELSE "unavailable")
      BY DEF activeOrganization
<1>5. ASSUME activeOrganization(Load(e), answer) = "org"
      PROVE  \E org \in Entries(e.orgs) : BelongsTo(e, person, org)
  <2>1. decided # {} /\ answer[orgs[Min(decided)].text] = "active" BY <1>4, <1>5
  <2>2. Min(decided) \in DOMAIN e.orgs BY <1>1, <1>2, <2>1, MinElement
  <2>3. BelongsTo(e, person, e.orgs[Min(decided)]) BY <1>3, <2>1, <2>2
  <2> QED BY <2>2, <2>3 DEF Entries
<1>6. ASSUME activeOrganization(Load(e), answer) = "unauthorized",
             NEW org \in Entries(e.orgs), BelongsTo(e, person, org)
      PROVE  FALSE
  <2>1. PICK i \in DOMAIN e.orgs : org = e.orgs[i] BY DEF Entries
  <2>2. answer[orgs[i].text] \in {"active", "error"} BY <1>3, <1>6, <2>1
  <2>3. i \in decided BY <1>1, <2>2
  <2> QED BY <1>4, <1>6, <2>3
<1> QED BY <1>4, <1>5, <1>6

\* The domain found through Google.
LEMMA GoogleOrganization ==
    ASSUME NEW e \in Environments, Load(e) # None, e.provider = "google",
           NEW person \in Persons, person.email # None
    PROVE  googleOrganization(Load(e), person) =
              IF \E org \in Entries(e.orgs) : BelongsTo(e, person, org)
              THEN "org" ELSE "unauthorized"
<1>1. /\ person.domain \in Names /\ person.domain # None
      /\ person.hosted \in Names \cup {None}
      BY AccessAssumption
<1>2. \A i \in DOMAIN e.orgs : e.orgs[i] \in Names /\ Load(e).orgs[i] = lower(e.orgs[i])
      BY LoadedOrgs
<1>3. DOMAIN Load(e).orgs = DOMAIN e.orgs BY LoadedOrgs
<1>4. ASSUME NEW i \in DOMAIN e.orgs
      PROVE  (/\ person.hosted # None /\ lower(person.hosted) = Load(e).orgs[i]
              /\ lower(person.domain) = Load(e).orgs[i])
             <=> BelongsTo(e, person, e.orgs[i])
  <2>1. CASE person.hosted = None BY <2>1 DEF BelongsTo
  <2>2. CASE person.hosted # None
    <3>1. /\ lower(person.hosted) = lower(e.orgs[i]) <=> person.hosted.text = e.orgs[i].text
          /\ lower(person.domain) = lower(e.orgs[i]) <=> person.domain.text = e.orgs[i].text
          BY <1>1, <1>2, <2>2, LowerName
    <3> QED BY <1>1, <1>2, <2>2, <3>1 DEF BelongsTo
  <2> QED BY <2>1, <2>2
<1> QED BY <1>3, <1>4 DEF googleOrganization, Entries

\* The group found through Authentik and Beyond.
LEMMA AllowedGroup ==
    ASSUME NEW e \in Environments, Load(e) # None, e.provider \in {"authentik", "beyond"},
           NEW person \in Persons
    PROVE  allowedGroup(Load(e), person) =
              IF \E org \in Entries(e.orgs) : BelongsTo(e, person, org)
              THEN "org" ELSE "unauthorized"
<1>1. Entries(Load(e).orgs) = Entries(e.orgs)
      BY LoadedOrgs DEF Entries
<1>2. \A org : BelongsTo(e, person, org) <=> org \in person.groups BY DEF BelongsTo
<1> QED BY <1>1, <1>2 DEF allowedGroup

\* What an organization found, or not, says of the policy.
LEMMA DecideAsWritten ==
    ASSUME NEW e \in Environments, Load(e) # None, NEW person, Identified(e, person),
           NEW id, id = IF e.provider = "beyond" THEN lower(person.email) ELSE person.subject,
           NEW viaOrg \in {"org", "unauthorized", "unavailable"},
           viaOrg = "org" => \E org \in Entries(e.orgs) : BelongsTo(e, person, org),
           viaOrg = "unauthorized" => ~\E org \in Entries(e.orgs) : BelongsTo(e, person, org)
    PROVE  LET decision == decide(Load(e), id, viaOrg)
           IN  /\ admitted(decision) => Permitted(e, person)
               /\ decision = "unauthorized" => ~Permitted(e, person)
<1>1. Load(e).allowAny = e.allowAny BY LoadedSettings
<1>2. subjectAllowed(Load(e), id) <=> \E s \in e.subjects : s.id = id BY SubjectAsWritten
<1>3. Permitted(e, person) <=>
         \/ e.allowAny
         \/ \E s \in e.subjects : s.id = id
         \/ \E org \in Entries(e.orgs) : BelongsTo(e, person, org)
      BY DEF Permitted
<1> QED BY <1>1, <1>2, <1>3 DEF decide, admitted

\* Beyond's decision needs no answers of a provider.
LEMMA BeyondAsWritten ==
    ASSUME NEW e \in Environments, Load(e) # None, e.provider = "beyond",
           NEW person \in Persons
    PROVE  LET decision == AuthenticateRequest(Load(e), person)
           IN  /\ admitted(decision) => Permitted(e, person)
               /\ decision = "unauthorized" => ~Permitted(e, person)
<1>1. CASE person.email # None
  <2>1. PICK found : found = allowedGroup(Load(e), person) OBVIOUS
  <2>2. PICK id : id = lower(person.email) OBVIOUS
  <2>3. AuthenticateRequest(Load(e), person) = decide(Load(e), id, found)
        BY <1>1, <2>1, <2>2 DEF AuthenticateRequest
  <2>4. found = IF \E org \in Entries(e.orgs) : BelongsTo(e, person, org)
                THEN "org" ELSE "unauthorized"
        BY <2>1, AllowedGroup
  <2>5. Identified(e, person) BY <1>1 DEF Identified
  <2> QED BY <2>2, <2>3, <2>4, <2>5, DecideAsWritten
<1>2. CASE person.email = None
  <2>1. AuthenticateRequest(Load(e), person) = "unauthorized"
        BY <1>2 DEF AuthenticateRequest
  <2> QED BY <1>2, <2>1 DEF Permitted, Identified, admitted
<1> QED BY <1>1, <1>2

\* Every provider decides as the operator wrote; a provider that fails neither
\* admits nor refuses.
LEMMA PolicyAsWritten ==
    ASSUME NEW e \in Environments, Load(e) # None,
           NEW person \in Persons, NEW answer \in Answers(person),
           NEW reply \in {"ok", "failed", "unavailable"}
    PROVE  LET decision == Authenticate(Load(e), person, reply, answer)
           IN  /\ admitted(decision) => Permitted(e, person)
               /\ decision = "unauthorized" => ~Permitted(e, person)
<1> DEFINE cf == Load(e)
<1>1. cf.provider = e.provider BY LoadedSettings
<1>2. e.provider \in {"github", "google", "authentik", "beyond"}
      BY LoadedSettings DEF accepted, validateHumanAuth
<1> HIDE DEF cf
<1>3. CASE e.provider = "github"
  <2>1. Authenticate(cf, person, reply, answer) = GitHub(cf, person, reply, answer)
        BY <1>1, <1>3 DEF Authenticate
  <2>2. CASE reply = "ok" /\ person.subject # None
    <3>1. PICK found : found = activeOrganization(cf, answer) OBVIOUS
    <3>2. Authenticate(cf, person, reply, answer) = decide(cf, person.subject, found)
          BY <2>1, <2>2, <3>1 DEF GitHub
    <3>3. Identified(e, person) BY <1>3, <2>2 DEF Identified
    <3>4. /\ found \in {"org", "unauthorized", "unavailable"}
          /\ found = "org" => \E org \in Entries(e.orgs) : BelongsTo(e, person, org)
          /\ found = "unauthorized" => ~\E org \in Entries(e.orgs) : BelongsTo(e, person, org)
          BY <1>3, <3>1, ActiveOrganization DEF cf
    <3> QED BY <1>3, <3>2, <3>3, <3>4, DecideAsWritten DEF cf
  <2>3. CASE ~(reply = "ok" /\ person.subject # None)
    <3>1. Authenticate(cf, person, reply, answer) \in {"failed", "unavailable"}
          BY <2>1, <2>3 DEF GitHub
    <3> QED BY <3>1 DEF admitted, cf
  <2> QED BY <2>2, <2>3
<1>4. CASE e.provider = "google"
  <2>1. Authenticate(cf, person, reply, answer) = Google(cf, person, reply)
        BY <1>1, <1>4 DEF Authenticate
  <2>2. CASE reply # "ok"
        BY <2>1, <2>2 DEF Google, admitted, cf
  <2>3. CASE reply = "ok" /\ Identified(e, person)
    <3>1. person.email # None /\ person.subject # None /\ person.verified
          BY <1>4, <2>3 DEF Identified
    <3>2. PICK found : found = googleOrganization(cf, person) OBVIOUS
    <3>3. Authenticate(cf, person, reply, answer) = decide(cf, person.subject, found)
          BY <2>1, <2>3, <3>1, <3>2 DEF Google
    <3>4. found = IF \E org \in Entries(e.orgs) : BelongsTo(e, person, org)
                  THEN "org" ELSE "unauthorized"
          BY <1>4, <3>1, <3>2, GoogleOrganization DEF cf
    <3> QED BY <1>4, <2>3, <3>3, <3>4, DecideAsWritten DEF cf
  <2>4. CASE reply = "ok" /\ ~Identified(e, person)
    <3>1. Authenticate(cf, person, reply, answer) = "unauthorized"
          BY <1>4, <2>1, <2>4 DEF Google, Identified
    <3> QED BY <2>4, <3>1 DEF Permitted, admitted, cf
  <2> QED BY <2>2, <2>3, <2>4
<1>5. CASE e.provider = "authentik"
  <2>1. Authenticate(cf, person, reply, answer) = Authentik(cf, person, reply)
        BY <1>1, <1>5 DEF Authenticate
  <2>2. CASE reply # "ok"
        BY <2>1, <2>2 DEF Authentik, admitted, cf
  <2>3. CASE reply = "ok" /\ Identified(e, person)
    <3>1. PICK found : found = allowedGroup(cf, person) OBVIOUS
    <3>2. Authenticate(cf, person, reply, answer) = decide(cf, person.subject, found)
          BY <1>5, <2>1, <2>3, <3>1 DEF Authentik, Identified
    <3>3. found = IF \E org \in Entries(e.orgs) : BelongsTo(e, person, org)
                  THEN "org" ELSE "unauthorized"
          BY <1>5, <3>1, AllowedGroup DEF cf
    <3> QED BY <1>5, <2>3, <3>2, <3>3, DecideAsWritten DEF cf
  <2>4. CASE reply = "ok" /\ ~Identified(e, person)
    <3>1. Authenticate(cf, person, reply, answer) = "unauthorized"
          BY <1>5, <2>1, <2>4 DEF Authentik, Identified
    <3> QED BY <2>4, <3>1 DEF Permitted, admitted, cf
  <2> QED BY <2>2, <2>3, <2>4
<1>6. CASE e.provider = "beyond"
  <2>1. Authenticate(cf, person, reply, answer) = AuthenticateRequest(cf, person)
        BY <1>1, <1>6 DEF Authenticate
  <2> QED BY <1>6, <2>1, BeyondAsWritten DEF cf
<1> QED BY <1>2, <1>3, <1>4, <1>5, <1>6

-----------------------------------------------------------------------------
(* The invocations *)

\* The request of command c as it leaves the client, and as Beyond forwards it.
Sent(e, c) ==
    [at |-> IF e.provider = "beyond" THEN "proxy" ELSE "server",
     credential |-> effectiveCredential(c.settings), person |-> None, query |-> query(c)]
Forwarded(c) ==
    [at |-> "server", credential |-> None,
     person |-> Holder[effectiveCredential(c.settings)], query |-> query(c)]

\* What a request shows the server, either way.
Shows(e, c, r) ==
    \/ e.provider # "beyond" /\ r = Sent(e, c)
    \/ /\ e.provider = "beyond"
       /\ Holder[effectiveCredential(c.settings)] # None
       /\ r = Forwarded(c)

\* A creation with settings s is let through API authentication.
Authorized(e, s) ==
    /\ Load(e) # None
    /\ IF e.provider = "beyond"
       THEN LET person == Holder[effectiveCredential(s)]
            IN  /\ person # None
                /\ \/ admitted(AuthenticateRequest(Load(e), person))
                   \/ None \in Load(e).tokens
       ELSE effectiveCredential(s) \in Load(e).tokens

\* Invocation i has recorded nothing and nothing of it is under way.
Fresh(i) == request[i] = None /\ \A e \in db : e.by # i

Shape ==
    /\ env \in Environments
    /\ pc \in [Invocations -> {"idle", "waiting", "writing", "done"}]
    /\ DOMAIN command = Invocations
    /\ DOMAIN request = Invocations
    /\ DOMAIN response = Invocations
    /\ DOMAIN served = Invocations
    /\ DOMAIN exit = Invocations

\* An idle invocation has nothing, any other a command.
StartOK(i) ==
    /\ pc[i] = "idle" =>
          /\ command[i] = None
          /\ Fresh(i)
          /\ response[i] = None
          /\ served[i] = None
    /\ pc[i] # "idle" => command[i] \in Commands
    /\ pc[i] # "done" => exit[i] = None

RequestOK(i) ==
    request[i] # None =>
        /\ pc[i] # "idle"
        /\ validArguments(command[i])
        /\ resolves(command[i].settings)
        /\ \A e \in db : e.by # i
        /\ request[i] = Sent(env, command[i]) \/ Shows(env, command[i], request[i])

\* What the status of an answer to invocation i says.
StatusOK(i, status) ==
    /\ status \in Nat
    /\ command[i].kind = "create" =>
          /\ status \in {200, 201} => recorded(command[i].ext)
          /\ status \notin {200, 201} /\ status < 500 => Fresh(i)
          /\ status \in {401, 403} => ~Authorized(env, command[i].settings)
    /\ command[i].kind = "doctor" /\ status = 200 /\ env.requireAuthReads =>
          Authorized(env, command[i].settings)

ResponseOK(i) ==
    response[i] # None => pc[i] = "waiting" /\ StatusOK(i, response[i].status)

OutcomeOK(i) ==
    /\ pc[i] = "writing" \/ exit[i] = 0 =>
          /\ command[i].kind = "create" => recorded(command[i].ext)
          /\ command[i].kind = "doctor" /\ env.requireAuthReads =>
                Authorized(env, command[i].settings)
    /\ exit[i] \in {64, 66, 77, 78} /\ command[i].kind = "create" => Fresh(i)
    /\ exit[i] = 77 /\ command[i].kind = "create" => ~Authorized(env, command[i].settings)

ServedOK(i) ==
    served[i] # None =>
        /\ pc[i] # "idle"
        /\ validArguments(command[i])
        /\ served[i] = params(command[i], query(command[i]))

InvocationOK(i) ==
    StartOK(i) /\ RequestOK(i) /\ ResponseOK(i) /\ OutcomeOK(i) /\ ServedOK(i)

\* An event is attributed to the holder of the credential of its invocation.
EventOK(e) ==
    /\ e.by \in Invocations
    /\ pc[e.by] # "idle"
    /\ LET person == Holder[effectiveCredential(command[e.by].settings)]
       IN  /\ person # None
           /\ e.user = lower(person.email)
           /\ Permitted(env, person)

\* The inductive invariant.
ClientInv ==
    /\ Shape
    /\ \A i \in Invocations : InvocationOK(i)
    /\ \A e \in db : EventOK(e)

\* What API authentication makes of a request that has reached the server.
LEMMA Authentication ==
    ASSUME Shape, cfg # None, NEW c, NEW r, Shows(env, c, r)
    PROVE  LET a == AuthWithTrustedIdentity(c, r)
               person == Holder[effectiveCredential(c.settings)]
           IN  /\ a = "principal" =>
                     /\ env.provider = "beyond"
                     /\ person # None
                     /\ r.person = person
                     /\ admitted(AuthenticateRequest(Load(env), person))
               /\ (c.kind = "create" \/ env.requireAuthReads) =>
                     (a = "refused" <=> ~Authorized(env, c.settings))
<1>1. /\ cfg.provider = env.provider
      /\ cfg.tokens = Load(env).tokens
      /\ cfg.requireAuthReads = env.requireAuthReads
      BY LoadedSettings DEF Shape, cfg
<1>2. r.person # None => env.provider = "beyond"
      BY DEF Shows, Sent, Forwarded
<1>3. AuthWithTrustedIdentity(c, r) = "principal" =>
         /\ env.provider = "beyond"
         /\ r.person # None
         /\ admitted(AuthenticateRequest(Load(env), r.person))
      BY <1>1 DEF AuthWithTrustedIdentity, cfg
<1>4. env.provider = "beyond" =>
         /\ r.person = Holder[effectiveCredential(c.settings)]
         /\ r.person # None
         /\ r.credential = None
      BY DEF Shows, Forwarded
<1>5. env.provider # "beyond" =>
         r.credential = effectiveCredential(c.settings) /\ r.person = None
      BY DEF Shows, Sent
<1>6. ASSUME c.kind = "create" \/ env.requireAuthReads
      PROVE  AuthWithTrustedIdentity(c, r) = "refused" <=> ~Authorized(env, c.settings)
  <2>1. ~(~cfg.requireAuthReads /\ reads(c)) BY <1>1, <1>6 DEF reads
  <2>2. AuthWithTrustedIdentity(c, r) = "refused" <=>
           /\ ~(/\ env.provider = "beyond"
                /\ r.person # None
                /\ admitted(AuthenticateRequest(Load(env), r.person)))
           /\ r.credential \notin Load(env).tokens
        BY <1>1, <2>1 DEF AuthWithTrustedIdentity, cfg
  <2>3. CASE env.provider = "beyond" BY <1>4, <2>2, <2>3 DEF Authorized, cfg
  <2>4. CASE env.provider # "beyond" BY <1>5, <2>2, <2>4 DEF Authorized, cfg
  <2> QED BY <2>3, <2>4
<1> QED BY <1>3, <1>4, <1>6

\* What invocation i's step leaves alone: every other invocation, what is
\* recorded, and the events of others.
Frame(i) ==
    /\ env' = env
    /\ \A j \in Invocations \ {i} :
          /\ pc'[j] = pc[j]
          /\ command'[j] = command[j]
          /\ request'[j] = request[j]
          /\ response'[j] = response[j]
          /\ served'[j] = served[j]
          /\ exit'[j] = exit[j]
    /\ db \subseteq db'
    /\ \A e \in db' \ db : e.by = i

LEMMA OthersOK ==
    ASSUME NEW i \in Invocations, NEW j \in Invocations, j # i, Frame(i), InvocationOK(j)
    PROVE  InvocationOK(j)'
<1>1. Fresh(j) => Fresh(j)' BY DEF Frame, Fresh
<1>2. \A e \in db' : e.by = j => e \in db BY DEF Frame
<1>3. /\ pc'[j] = pc[j]
      /\ command'[j] = command[j]
      /\ request'[j] = request[j]
      /\ response'[j] = response[j]
      /\ served'[j] = served[j]
      /\ exit'[j] = exit[j]
      /\ env' = env
      BY DEF Frame
<1>4. \A ext : recorded(ext) => recorded(ext)' BY DEF recorded, Frame
<1>5. StartOK(j)' BY <1>1, <1>3 DEF StartOK, InvocationOK
<1>6. RequestOK(j)' BY <1>2, <1>3 DEF RequestOK, InvocationOK
<1>7. ResponseOK(j)'
  <2>1. \A status : StatusOK(j, status) => StatusOK(j, status)'
        BY <1>1, <1>3, <1>4 DEF StatusOK
  <2> QED BY <1>3, <2>1 DEF ResponseOK, InvocationOK
<1>8. OutcomeOK(j)' BY <1>1, <1>3, <1>4 DEF OutcomeOK, InvocationOK
<1>9. ServedOK(j)' BY <1>3 DEF ServedOK, InvocationOK
<1> QED BY <1>5, <1>6, <1>7, <1>8, <1>9 DEF InvocationOK

\* An invocation keeps its command, so that events stay well attributed.
LEMMA EventsKept ==
    ASSUME NEW i \in Invocations, Frame(i), NEW e, EventOK(e),
           pc[i] # "idle" => pc'[i] # "idle" /\ command'[i] = command[i]
    PROVE  EventOK(e)'
<1>1. pc'[e.by] # "idle" /\ command'[e.by] = command[e.by] BY DEF EventOK, Frame
<1> QED BY <1>1 DEF EventOK, Frame

\* What is shown of every step of invocation i.
StepOK(i) ==
    /\ Shape'
    /\ Frame(i)
    /\ InvocationOK(i)'
    /\ pc[i] # "idle" => pc'[i] # "idle" /\ command'[i] = command[i]
    /\ \A e \in db' \ db : EventOK(e)'

LEMMA StepsKeepInv ==
    ASSUME ClientInv, NEW i \in Invocations, StepOK(i)
    PROVE  ClientInv'
<1>1. \A j \in Invocations : InvocationOK(j)'
      BY OthersOK DEF ClientInv, StepOK
<1>2. ASSUME NEW e \in db' PROVE EventOK(e)'
      BY <1>2, EventsKept DEF ClientInv, StepOK
<1> QED BY <1>1, <1>2 DEF ClientInv, StepOK

\* Steps that begin an invocation.
LEMMA BeginOK ==
    ASSUME ClientInv, NEW i \in Invocations, NEW c \in Commands,
           RefuseUsage(i, c) \/ RefuseConfiguration(i, c) \/ Send(i, c)
    PROVE  StepOK(i)
<1> USE DEF RefuseUsage, RefuseConfiguration, Send, begins, ends
<1>1. Shape /\ InvocationOK(i) BY DEF ClientInv
<1>2. Shape' BY <1>1 DEF Shape
<1>3. Frame(i) BY <1>1 DEF Frame, Shape
<1>4. /\ pc[i] = "idle"
      /\ command'[i] = c
      /\ db' = db /\ env' = env /\ response' = response /\ served' = served
      BY <1>1 DEF Shape
<1>5. Fresh(i) /\ response[i] = None /\ served[i] = None /\ exit[i] = None
      BY <1>1, <1>4 DEF InvocationOK, StartOK
<1>6. CASE RefuseUsage(i, c) \/ RefuseConfiguration(i, c)
  <2>1. pc'[i] = "done" /\ exit'[i] \in {64, 78} /\ request' = request
        BY <1>1, <1>6 DEF Shape
  <2>2. Fresh(i)' BY <1>4, <1>5, <2>1 DEF Fresh
  <2> HIDE DEF RefuseUsage, RefuseConfiguration, Send, begins, ends
  <2>3. InvocationOK(i)'
        BY <1>4, <1>5, <2>1, <2>2
        DEF InvocationOK, StartOK, RequestOK, ResponseOK, OutcomeOK, ServedOK, Fresh
  <2> QED BY <1>2, <1>3, <1>4, <2>3 DEF StepOK
<1>7. CASE Send(i, c)
  <2>1. /\ pc'[i] = "waiting" /\ exit' = exit
        /\ request'[i] = Sent(env, c)
        /\ validArguments(c) /\ resolves(c.settings)
        BY <1>1, <1>7 DEF Shape, Sent
  <2> HIDE DEF RefuseUsage, RefuseConfiguration, Send, begins, ends
  <2>2. InvocationOK(i)'
    <3>1. \A e \in db' : e.by # i BY <1>4, <1>5 DEF Fresh
    <3>2. None # 0 /\ None \notin {64, 66, 77, 78} BY ClientAssumption
    <3> QED BY <1>4, <1>5, <2>1, <3>1, <3>2
            DEF InvocationOK, StartOK, RequestOK, ResponseOK, OutcomeOK, ServedOK
  <2> QED BY <1>2, <1>3, <1>4, <2>2 DEF StepOK
<1> QED BY <1>6, <1>7

\* The invocation's own later steps.
LEMMA EndOK ==
    ASSUME ClientInv, NEW i \in Invocations,
           Receive(i) \/ WriteResult(i) \/ TimeOut(i) \/ Disconnect(i)
    PROVE  StepOK(i)
<1>1. Shape /\ InvocationOK(i) BY DEF ClientInv
<1>2. /\ db' = db /\ env' = env /\ command' = command /\ request' = request /\ served' = served
      /\ pc[i] \in {"waiting", "writing"}
      BY DEF Receive, WriteResult, TimeOut, Disconnect, givesUp
<1>3. /\ response' = response \/ response' = [response EXCEPT ![i] = None]
      /\ \/ /\ pc' = [pc EXCEPT ![i] = "done"]
            /\ \E status : exit' = [exit EXCEPT ![i] = status]
         \/ pc' = [pc EXCEPT ![i] = "writing"] /\ exit' = exit
      BY DEF Receive, WriteResult, TimeOut, Disconnect, givesUp, ends
<1>4. Shape' BY <1>1, <1>2, <1>3 DEF Shape
<1>5. Frame(i) BY <1>1, <1>2, <1>3 DEF Frame, Shape
<1>6. command[i] \in Commands /\ exit[i] = None
      BY <1>1, <1>2 DEF InvocationOK, StartOK
<1>7. pc'[i] \in {"writing", "done"} BY <1>1, <1>3 DEF Shape
<1>8. response'[i] = None
  <2>1. CASE WriteResult(i)
        BY <1>1, <2>1 DEF WriteResult, InvocationOK, ResponseOK
  <2>2. CASE Receive(i) \/ TimeOut(i) \/ Disconnect(i)
        BY <1>1, <2>2 DEF Receive, TimeOut, Disconnect, givesUp, Shape
  <2> QED BY <2>1, <2>2
<1>9. OutcomeOK(i)'
  <2>1. None # 0 /\ None \notin {64, 66, 77, 78} BY ClientAssumption
  <2>2. /\ Fresh(i) => Fresh(i)'
        /\ \A ext : recorded(ext) => recorded(ext)'
        BY <1>2 DEF Fresh, recorded
  <2>3. CASE TimeOut(i) \/ Disconnect(i)
    <3>1. pc'[i] = "done" /\ exit'[i] = 69
          BY <1>1, <2>3 DEF TimeOut, Disconnect, givesUp, ends, Shape
    <3> QED BY <3>1 DEF OutcomeOK
  <2>4. CASE WriteResult(i)
    <3>1. pc[i] = "writing" /\ pc'[i] = "done" /\ exit'[i] \in {0, 1}
          BY <1>1, <2>4 DEF WriteResult, ends, Shape
    <3> QED BY <1>1, <1>2, <2>2, <3>1 DEF OutcomeOK, InvocationOK
  <2>5. CASE Receive(i)
    <3> DEFINE status == response[i].status
    <3>1. StatusOK(i, status) BY <1>1, <2>5 DEF Receive, InvocationOK, ResponseOK
    <3>2. CASE status \notin success(command[i])
      <4>1. pc'[i] = "done" /\ exit'[i] = exitCodeFor(status)
            BY <1>1, <2>5, <3>2 DEF Receive, ends, Shape
      <4>2. /\ exitCodeFor(status) # 0
            /\ exitCodeFor(status) \in {64, 66, 77, 78} => status < 500
            /\ exitCodeFor(status) = 77 => status \in {401, 403}
            BY <3>1 DEF exitCodeFor, StatusOK
      <4>3. command[i].kind = "create" => status \notin {200, 201}
            BY <3>2 DEF success
      <4> HIDE DEF status
      <4> QED BY <1>2, <2>2, <3>1, <4>1, <4>2, <4>3 DEF OutcomeOK, StatusOK
    <3>3. CASE status \in success(command[i]) /\ ~response[i].whole
      <4>1. pc'[i] = "done" /\ exit'[i] = 69
            BY <1>1, <2>5, <3>3 DEF Receive, ends, Shape
      <4> QED BY <4>1 DEF OutcomeOK
    <3>4. CASE status \in success(command[i]) /\ response[i].whole
      <4>1. pc'[i] = "writing" /\ exit' = exit
            BY <1>1, <2>5, <3>4 DEF Receive, Shape
      <4> HIDE DEF status
      <4>2. /\ command[i].kind = "create" => status \in {200, 201}
            /\ command[i].kind # "create" => status = 200
            BY <3>4 DEF success
      <4> QED BY <1>2, <1>6, <2>1, <2>2, <3>1, <4>1, <4>2 DEF OutcomeOK, StatusOK
    <3> QED BY <3>2, <3>3, <3>4
  <2> QED BY <2>3, <2>4, <2>5
<1>10. StartOK(i)' BY <1>1, <1>2, <1>3, <1>6, <1>7 DEF StartOK, InvocationOK, Shape
<1>11. RequestOK(i)' /\ ServedOK(i)'
       BY <1>1, <1>2, <1>7 DEF RequestOK, ServedOK, InvocationOK
<1>12. ResponseOK(i)' BY <1>8 DEF ResponseOK
<1>13. InvocationOK(i)' BY <1>9, <1>10, <1>11, <1>12 DEF InvocationOK
<1> QED BY <1>2, <1>4, <1>5, <1>7, <1>13 DEF StepOK

\* A step of the other side about a request under way: it leaves the process
\* alone and may put an answer under way.
Remote(i) ==
    /\ request[i] # None
    /\ env' = env /\ pc' = pc /\ command' = command /\ exit' = exit
    /\ \E r : request' = [request EXCEPT ![i] = r]
    /\ served' = served \/ \E s : served' = [served EXCEPT ![i] = s]
    /\ \/ response' = response
       \/ \E status, whole : answers(i, status, whole) /\ StatusOK(i, status)'
    /\ db \subseteq db'
    /\ \A e \in db' \ db : e.by = i /\ EventOK(e)'

LEMMA RemoteOK ==
    ASSUME ClientInv, NEW i \in Invocations, Remote(i), RequestOK(i)', ServedOK(i)'
    PROVE  StepOK(i)
<1>1. Shape /\ InvocationOK(i) BY DEF ClientInv
<1>2. /\ request[i] # None
      /\ env' = env /\ pc' = pc /\ command' = command /\ exit' = exit
      /\ pc[i] # "idle"
      BY <1>1 DEF Remote, InvocationOK, RequestOK
<1>3. DOMAIN response' = Invocations /\ \A j \in Invocations \ {i} : response'[j] = response[j]
      BY <1>1 DEF Remote, answers, Shape
<1>4. Shape' BY <1>1, <1>2, <1>3 DEF Shape, Remote
<1>5. Frame(i) BY <1>1, <1>2, <1>3 DEF Frame, Shape, Remote
<1>6. \A ext : recorded(ext) => recorded(ext)' BY DEF recorded, Remote
<1>7. ~Fresh(i) BY <1>2 DEF Fresh
<1>8. \A status : StatusOK(i, status) => StatusOK(i, status)'
      BY <1>2, <1>6, <1>7 DEF StatusOK
<1>9. ResponseOK(i)'
  <2>1. CASE response' = response BY <1>1, <1>2, <1>8, <2>1 DEF InvocationOK, ResponseOK
  <2>2. ASSUME NEW status, NEW whole, answers(i, status, whole), StatusOK(i, status)'
        PROVE  ResponseOK(i)'
    <3>1. CASE pc[i] = "waiting" /\ response[i] = None
      <4>1. response'[i] = [status |-> status, whole |-> whole]
            BY <1>1, <2>2, <3>1 DEF answers, Shape
      <4>2. response'[i].status = status BY <4>1
      <4> HIDE DEF answers
      <4> QED BY <1>2, <2>2, <3>1, <4>2 DEF ResponseOK
    <3>2. CASE ~(pc[i] = "waiting" /\ response[i] = None)
          BY <2>1, <2>2, <3>2 DEF answers
    <3> QED BY <3>1, <3>2
  <2> QED BY <2>1, <2>2 DEF Remote
<1>10. StartOK(i)' BY <1>1, <1>2 DEF StartOK, InvocationOK
<1>11. OutcomeOK(i)' BY <1>1, <1>2, <1>6, <1>7 DEF OutcomeOK, InvocationOK
<1>12. InvocationOK(i)' BY <1>9, <1>10, <1>11 DEF InvocationOK
<1> QED BY <1>2, <1>4, <1>5, <1>12 DEF StepOK, Remote

\* The proxy and the network.
LEMMA ProxyOK ==
    ASSUME ClientInv, NEW i \in Invocations,
           ProxyForwards(i) \/ ProxyRefuses(i) \/ ProxyFails(i) \/ Lose(i)
    PROVE  StepOK(i)
<1>1. Shape /\ InvocationOK(i) BY DEF ClientInv
<1>2. /\ request[i] # None
      /\ env' = env /\ pc' = pc /\ command' = command /\ exit' = exit
      /\ served' = served /\ db' = db
      BY DEF ProxyForwards, ProxyRefuses, ProxyFails, Lose, process
<1>3. RequestOK(i) /\ ServedOK(i)' BY <1>1, <1>2 DEF InvocationOK, ServedOK
<1>4. CASE ProxyForwards(i)
  <2>1. request[i].at = "proxy" BY <1>4 DEF ProxyForwards
  <2>2. request[i] = Sent(env, command[i]) /\ env.provider = "beyond"
        BY <1>2, <1>3, <2>1 DEF RequestOK, Shows, Sent, Forwarded
  <2>3. /\ Holder[effectiveCredential(command[i].settings)] # None
        /\ request'[i] = Forwarded(command[i])
        /\ \E r : request' = [request EXCEPT ![i] = r]
    <3>1. /\ request[i].credential = effectiveCredential(command[i].settings)
          /\ request[i].query = query(command[i])
          BY <2>2 DEF Sent
    <3>2. request' = [request EXCEPT ![i] = Forwarded(command[i])]
          BY <1>4, <3>1 DEF ProxyForwards, Forwarded
    <3> QED BY <1>1, <1>4, <3>1, <3>2 DEF ProxyForwards, Shape
  <2>4. RequestOK(i)' BY <1>2, <1>3, <2>2, <2>3 DEF RequestOK, Shows
  <2>5. Remote(i) BY <1>2, <1>4, <2>3 DEF Remote, ProxyForwards
  <2> QED BY <1>3, <2>4, <2>5, RemoteOK
<1>5. CASE ProxyRefuses(i)
  <2>1. request[i].at = "proxy" /\ Holder[request[i].credential] = None
        BY <1>5 DEF ProxyRefuses
  <2>2. request[i] = Sent(env, command[i]) /\ env.provider = "beyond"
        BY <1>2, <1>3, <2>1 DEF RequestOK, Shows, Sent, Forwarded
  <2>3. Holder[effectiveCredential(command[i].settings)] = None
        BY <2>1, <2>2 DEF Sent
  <2>4. ~Authorized(env, command[i].settings)' BY <1>2, <2>2, <2>3 DEF Authorized
  <2>5. request'[i] = None BY <1>1, <1>5 DEF ProxyRefuses, Shape
  <2>6. Fresh(i)' BY <1>2, <1>3, <2>5 DEF Fresh, RequestOK
  <2>7. \A status \in {302, 401, 403} : StatusOK(i, status)'
        BY <1>2, <2>4, <2>6 DEF StatusOK
  <2>8. Remote(i)
    <3>1. \E status, whole : answers(i, status, whole) /\ StatusOK(i, status)'
      <4>1. PICK status \in {302, 401, 403} : answers(i, status, TRUE)
            BY <1>5 DEF ProxyRefuses
      <4>2. StatusOK(i, status)' BY <2>7, <4>1
      <4> QED BY <4>1, <4>2
    <3>2. request' = [request EXCEPT ![i] = None] BY <1>5 DEF ProxyRefuses
    <3> QED BY <1>2, <3>1, <3>2 DEF Remote
  <2> QED BY <1>3, <2>5, <2>8, RemoteOK DEF RequestOK
<1>6. CASE ProxyFails(i)
  <2>1. StatusOK(i, 502)' BY DEF StatusOK
  <2>2. Remote(i) BY <1>2, <1>6, <2>1 DEF Remote, ProxyFails
  <2>3. request'[i] \in {None, request[i]} BY <1>1, <1>6 DEF ProxyFails, Shape
  <2>4. RequestOK(i)' BY <1>2, <1>3, <2>3 DEF RequestOK
  <2> QED BY <1>3, <2>2, <2>4, RemoteOK
<1>7. CASE Lose(i)
  <2>1. Remote(i) BY <1>2, <1>7 DEF Remote, Lose
  <2>2. request'[i] = None BY <1>1, <1>7 DEF Lose, Shape
  <2> QED BY <1>3, <2>1, <2>2, RemoteOK DEF RequestOK
<1> QED BY <1>4, <1>5, <1>6, <1>7

\* What the server answers to a request, and what it records.
LEMMA StatusOfRequest ==
    ASSUME ClientInv, NEW i \in Invocations, handling(i)
    PROVE  LET c == command[i]
               status == statusOf(c, request[i])
               person == Holder[effectiveCredential(c.settings)]
           IN  /\ c \in Commands
               /\ Shows(env, c, request[i])
               /\ status \in {200, 201, 400, 401, 404}
               /\ (c.kind = "create" \/ env.requireAuthReads) =>
                     (status = 401 <=> ~Authorized(env, c.settings))
               /\ c.kind = "create" /\ status = 200 => recorded(c.ext)
               /\ status = 201 =>
                     /\ c.kind = "create"
                     /\ person # None
                     /\ recordedUser(c, request[i]) = lower(person.email)
                     /\ Permitted(env, person)
<1> DEFINE c == command[i]
           r == request[i]
           a == AuthWithTrustedIdentity(c, r)
           person == Holder[effectiveCredential(c.settings)]
<1>1. Shape /\ StartOK(i) /\ RequestOK(i) BY DEF ClientInv, InvocationOK
<1>2. /\ c \in Commands
      /\ resolves(c.settings)
      /\ Shows(env, c, r)
      /\ cfg # None
      BY <1>1 DEF handling, StartOK, RequestOK, Shows, Sent
<1>3. /\ a = "principal" =>
            /\ env.provider = "beyond"
            /\ person # None
            /\ r.person = person
            /\ admitted(AuthenticateRequest(Load(env), person))
      /\ (c.kind = "create" \/ env.requireAuthReads) =>
            (a = "refused" <=> ~Authorized(env, c.settings))
      BY <1>1, <1>2, Authentication
<1>4. person \in Persons \cup {None}
      BY <1>2, ClientAssumption DEF resolves, ValidateCredential
<1>5. c.kind \in Kinds BY <1>2, CommandsAssumption
<1> HIDE DEF c, r, a, person
<1>6. recordedUser(c, r) # None =>
         /\ person # None
         /\ recordedUser(c, r) = lower(person.email)
         /\ Permitted(env, person)
  <2>1. ASSUME recordedUser(c, r) # None PROVE a = "principal"
        BY <2>1 DEF recordedUser, a
  <2>2. a = "principal" => recordedUser(c, r) = lower(r.person.email)
        BY DEF recordedUser, a
  <2>3. a = "principal" => Permitted(env, person)
        BY <1>1, <1>2, <1>3, <1>4, BeyondAsWritten DEF Shape, cfg
  <2> QED BY <1>3, <2>1, <2>2, <2>3
<1>7. createStatus(c, r) \in {200, 201, 400}
      BY DEF createStatus
<1>8. /\ statusOf(c, r) \in {200, 201, 400, 401, 404}
      /\ statusOf(c, r) = 401 <=> a = "refused"
      /\ statusOf(c, r) = 201 => c.kind = "create" /\ createStatus(c, r) = 201
      /\ statusOf(c, r) = 200 /\ c.kind = "create" => createStatus(c, r) = 200
      BY <1>5, <1>7 DEF statusOf, a, Kinds
<1>9. createStatus(c, r) = 201 => recordedUser(c, r) # None BY DEF createStatus
<1>10. createStatus(c, r) = 200 => recorded(c.ext) BY DEF createStatus
<1>11. /\ (c.kind = "create" \/ env.requireAuthReads) =>
             (statusOf(c, r) = 401 <=> ~Authorized(env, c.settings))
       /\ c.kind = "create" /\ statusOf(c, r) = 200 => recorded(c.ext)
       BY <1>3, <1>8, <1>10
<1>12. statusOf(c, r) = 201 =>
          /\ c.kind = "create"
          /\ person # None
          /\ recordedUser(c, r) = lower(person.email)
          /\ Permitted(env, person)
       BY <1>6, <1>8, <1>9
<1> QED BY <1>2, <1>8, <1>11, <1>12 DEF c, r, person

\* The handlers.
LEMMA ServeOK ==
    ASSUME ClientInv, NEW i \in Invocations, Serve(i) \/ ServeFails(i)
    PROVE  StepOK(i)
<1>a. PICK c, status, person :
         /\ c = command[i]
         /\ status = statusOf(command[i], request[i])
         /\ person = Holder[effectiveCredential(c.settings)]
      OBVIOUS
<1>1. Shape /\ InvocationOK(i) BY DEF ClientInv
<1>2. /\ handling(i)
      /\ request' = [request EXCEPT ![i] = None]
      /\ env' = env /\ pc' = pc /\ command' = command /\ exit' = exit
      BY DEF Serve, ServeFails, process
<1>3. request[i] # None /\ request[i].at = "server" BY <1>2 DEF handling
<1>4. /\ c \in Commands
      /\ Shows(env, c, request[i])
      /\ status \in {200, 201, 400, 401, 404}
      /\ (c.kind = "create" \/ env.requireAuthReads) =>
            (status = 401 <=> ~Authorized(env, c.settings))
      /\ c.kind = "create" /\ status = 200 => recorded(c.ext)
      /\ status = 201 =>
            /\ c.kind = "create"
            /\ person # None
            /\ recordedUser(c, request[i]) = lower(person.email)
            /\ Permitted(env, person)
      BY <1>a, <1>2, StatusOfRequest
<1>5. RequestOK(i) BY <1>1 DEF InvocationOK
<1>6. request'[i] = None /\ pc[i] # "idle" BY <1>1, <1>2, <1>3, <1>5 DEF RequestOK, Shape
<1>7. RequestOK(i)' BY <1>6 DEF RequestOK
<1>8. \/ db' = db
      \/ status = 201 /\ db' = db \cup insertion(i)
      BY <1>a DEF Serve, ServeFails
<1>9. status = 201 => \A e \in insertion(i) : e.by = i /\ e.ext = c.ext /\ EventOK(e)'
  <2>1. SUFFICES ASSUME status = 201, NEW e \in insertion(i)
                 PROVE  e.by = i /\ e.ext = c.ext /\ EventOK(e)'
        OBVIOUS
  <2>2. e.by = i /\ e.ext = c.ext /\ e.user = recordedUser(c, request[i])
        BY <1>a, <2>1 DEF insertion
  <2>3. e.user = lower(person.email) /\ person # None /\ Permitted(env, person)
        BY <1>4, <2>1, <2>2
  <2> QED BY <1>a, <1>2, <1>6, <2>2, <2>3 DEF EventOK
<1>10. /\ db \subseteq db'
       /\ \A e \in db' \ db : e.by = i /\ EventOK(e)'
       BY <1>8, <1>9
<1>11. CASE Serve(i)
  <2>1. PICK whole \in BOOLEAN : answers(i, status, whole) BY <1>a, <1>11 DEF Serve
  <2>2. status # 201 => Fresh(i)'
        BY <1>3, <1>5, <1>6, <1>8 DEF Fresh, RequestOK
  <2>3. c.kind = "create" /\ status \in {200, 201} => recorded(c.ext)'
    <3>1. CASE status = 200 BY <1>4, <1>10, <3>1 DEF recorded
    <3>2. CASE status = 201
      <4>1. db' = db \cup insertion(i) BY <1>a, <1>11, <3>2 DEF Serve
      <4>2. insertion(i) # {} BY DEF insertion
      <4> QED BY <1>9, <3>2, <4>1, <4>2 DEF recorded
    <3> QED BY <3>1, <3>2
  <2>4. StatusOK(i, status)'
    <3>1. recorded(c.ext)' => recorded(command[i].ext)' BY <1>a, <1>2 DEF recorded
    <3>2. status \in Nat BY <1>4
    <3> QED BY <1>a, <1>2, <1>4, <2>2, <2>3, <3>1, <3>2 DEF StatusOK
  <2>5. served' = [served EXCEPT ![i] = IF status = 200 THEN params(c, request[i].query) ELSE @]
        BY <1>a, <1>11 DEF Serve
  <2>6. Remote(i)
    <3>1. \E s : served' = [served EXCEPT ![i] = s] BY <2>5
    <3>2. \E st, w : answers(i, st, w) /\ StatusOK(i, st)' BY <2>1, <2>4
    <3> QED BY <1>2, <1>3, <1>10, <3>1, <3>2 DEF Remote
  <2>7. ServedOK(i)'
    <3>1. request[i].query = query(c) BY <1>4 DEF Shows, Sent, Forwarded
    <3>2. served'[i] = IF status = 200 THEN params(c, query(c)) ELSE served[i]
          BY <1>a, <1>1, <2>5, <3>1 DEF Shape
    <3>3. validArguments(c) BY <1>a, <1>3, <1>5 DEF RequestOK
    <3>4. ServedOK(i) BY <1>1 DEF InvocationOK
    <3> QED BY <1>a, <1>2, <1>6, <3>2, <3>3, <3>4 DEF ServedOK
  <2> QED BY <1>7, <2>6, <2>7, RemoteOK
<1>12. CASE ServeFails(i)
  <2>1. answers(i, 500, TRUE) /\ served' = served BY <1>12 DEF ServeFails
  <2>2. StatusOK(i, 500)' BY DEF StatusOK
  <2>3. ServedOK(i)' BY <1>1, <1>2, <2>1 DEF ServedOK, InvocationOK
  <2>4. Remote(i)
    <3>1. \E st, whole : answers(i, st, whole) /\ StatusOK(i, st)' BY <2>1, <2>2
    <3> QED BY <1>2, <1>3, <1>10, <2>1, <3>1 DEF Remote
  <2> QED BY <1>7, <2>3, <2>4, RemoteOK
<1> QED BY <1>11, <1>12

LEMMA InitOK == Init => ClientInv
<1> SUFFICES ASSUME Init PROVE ClientInv OBVIOUS
<1>1. Shape BY DEF Init, Shape
<1>2. ASSUME NEW i \in Invocations PROVE InvocationOK(i)
  <2>1. None # 0 /\ None \notin {64, 66, 77, 78} BY ClientAssumption
  <2> QED BY <1>2, <2>1
          DEF Init, InvocationOK, StartOK, RequestOK, ResponseOK, OutcomeOK, ServedOK, Fresh
<1> QED BY <1>1, <1>2 DEF Init, ClientInv

LEMMA NextOK == ClientInv /\ [Next]_vars => ClientInv'
<1> SUFFICES ASSUME ClientInv, [Next]_vars PROVE ClientInv' OBVIOUS
<1>1. CASE Next
  <2>1. PICK i \in Invocations :
           \/ \E c \in Commands : RefuseUsage(i, c) \/ RefuseConfiguration(i, c) \/ Send(i, c)
           \/ Receive(i) \/ WriteResult(i) \/ TimeOut(i) \/ Disconnect(i)
           \/ ProxyForwards(i) \/ ProxyRefuses(i) \/ ProxyFails(i) \/ Lose(i)
           \/ Serve(i) \/ ServeFails(i)
        BY <1>1 DEF Next
  <2>2. StepOK(i) BY <2>1, BeginOK, EndOK, ProxyOK, ServeOK
  <2> QED BY <2>2, StepsKeepInv
<1>2. CASE UNCHANGED vars
  <2>1. ASSUME NEW i \in Invocations PROVE InvocationOK(i)'
    <3>1. /\ Fresh(i) => Fresh(i)'
          /\ \A ext : recorded(ext) => recorded(ext)'
          BY <1>2 DEF Fresh, recorded, vars
    <3>2. \A status : StatusOK(i, status) => StatusOK(i, status)'
          BY <1>2, <3>1 DEF StatusOK, vars
    <3> QED BY <1>2, <3>1, <3>2
            DEF ClientInv, InvocationOK, StartOK, RequestOK, ResponseOK, OutcomeOK, ServedOK, vars
  <2> QED BY <1>2, <2>1 DEF ClientInv, Shape, EventOK, vars
<1> QED BY <1>1, <1>2

LEMMA Invariance == Spec => []ClientInv
BY InitOK, NextOK, PTL DEF Spec

-----------------------------------------------------------------------------
(* What a listing is served with *)

\* A time and the multiple of Second below it.
LEMMA Quotient ==
    ASSUME NEW t \in Int
    PROVE  /\ t \div Second \in Int
           /\ t % Second \in 0..(Second - 1)
           /\ t = Second * (t \div Second) + (t % Second)
           /\ canonicalTime(t) = Second * (t \div Second)
           /\ canonicalTime(t) \in Int
BY ClientAssumption DEF canonicalTime

LEMMA Canonical ==
    ASSUME NEW q \in Int, NEW r \in 0..(Second - 1)
    PROVE  canonicalTime(Second * q + r) = Second * q
<1>1. (Second * q + r) % Second = r BY ClientAssumption
<1> QED BY <1>1, ClientAssumption DEF canonicalTime

\* Cutting a time first moves a bound computed from it back by at most one
\* second, and not at all when the distance is of whole seconds.
LEMMA CutFirst ==
    ASSUME NEW t \in Int, NEW d \in Int
    PROVE  /\ canonicalTime(canonicalTime(t) + d)
                 \in {canonicalTime(t + d), canonicalTime(t + d) - Second}
           /\ d % Second = 0 => canonicalTime(canonicalTime(t) + d) = canonicalTime(t + d)
<1>1. PICK q \in Int, r \in 0..(Second - 1) :
         t = Second * q + r /\ canonicalTime(t) = Second * q
      BY Quotient
<1>2. PICK p \in Int, u \in 0..(Second - 1) : d = Second * p + u /\ u = d % Second
      BY Quotient
<1>3. Second \in Nat /\ Second * q \in Int /\ Second * p \in Int BY ClientAssumption
<1>4. /\ Second * (q + p) = Second * q + Second * p
      /\ Second * (q + p + 1) = Second * q + Second * p + Second
      BY ClientAssumption
<1>5. canonicalTime(t) + d = Second * (q + p) + u BY <1>1, <1>2, <1>3, <1>4
<1>6. canonicalTime(canonicalTime(t) + d) = Second * (q + p) BY <1>5, Canonical
<1>7. CASE r + u < Second
  <2>1. t + d = Second * (q + p) + (r + u) BY <1>1, <1>2, <1>3, <1>4
  <2>2. r + u \in 0..(Second - 1) BY <1>3, <1>7
  <2>3. canonicalTime(t + d) = Second * (q + p) BY <2>1, <2>2, Canonical
  <2> QED BY <1>6, <2>3
<1>8. CASE r + u >= Second
  <2>1. t + d = Second * (q + p + 1) + (r + u - Second) BY <1>1, <1>2, <1>3, <1>4
  <2>2. r + u - Second \in 0..(Second - 1) BY <1>3, <1>8
  <2>3. canonicalTime(t + d) = Second * (q + p + 1) BY <2>1, <2>2, Canonical
  <2>4. canonicalTime(t + d) - Second = Second * (q + p) BY <1>3, <1>4, <2>3
  <2>5. u # 0 BY <1>3, <1>8
  <2> QED BY <1>2, <1>6, <2>4, <2>5
<1> QED BY <1>3, <1>7, <1>8

LEMMA CutTwice ==
    ASSUME NEW t \in Int
    PROVE  canonicalTime(canonicalTime(t)) = canonicalTime(t)
<1>1. PICK q \in Int : canonicalTime(t) = Second * q BY Quotient
<1>2. canonicalTime(Second * q + 0) = Second * q BY Canonical, ClientAssumption
<1> QED BY <1>1, <1>2, ClientAssumption

\* The negative of a number of whole seconds is one.
LEMMA WholeBack ==
    ASSUME NEW d \in Int, d % Second = 0
    PROVE  (0 - d) % Second = 0
<1>1. PICK p \in Int : d = Second * p
  <2>1. PICK p \in Int : d = Second * p + 0 BY Quotient
  <2>2. PICK x \in Int : x = Second * p BY ClientAssumption
  <2>3. d = x BY <2>1, <2>2
  <2> QED BY <2>2, <2>3
<1>2. 0 - d = Second * (0 - p) + 0
  <2>1. Second * (0 - p) = 0 - Second * p BY ClientAssumption
  <2> QED BY <1>1, <2>1, ClientAssumption
<1>3. (Second * (0 - p) + 0) % Second = 0 BY ClientAssumption
<1> QED BY <1>2, <1>3

\* The bounds of a listing.
LEMMA BoundsAsAsked ==
    ASSUME NEW c \in Commands, c.kind = "list", validArguments(c),
           NEW s, s = parseListParams(List(c))
    PROVE  LET asked == bounds(c.after, c.before, c.around,
                               IF c.window = None THEN DefaultWindow ELSE c.window)
               given == bounds(s.after, s.before, s.around, s.window)
           IN  IF c.window = None \/ c.window % Second = 0
               THEN given = asked
               ELSE \A b \in 1..2 : given[b] \in {asked[b], asked[b] - Second}
<1>1. /\ {c.after, c.before, c.around, c.window} \subseteq Int \cup {None}
      /\ c.window # None => c.around # None
      BY CommandsAssumption DEF validArguments, OptionalTime
<1>2. /\ s.after = setTime(c.after)
      /\ s.before = setTime(c.before)
      /\ s.around = setTime(c.around)
      /\ s.window = IF setTime(c.around) = None THEN None
                    ELSE IF (IF c.around # None THEN c.window ELSE None) = None
                    THEN DefaultWindow ELSE c.window
      BY DEF parseListParams, List
<1>3. \A t \in Int \cup {None} :
         setTime(t) = IF t = None THEN None ELSE canonicalTime(t)
      BY DEF setTime, canonicalTime
<1>4. \A t \in Int : canonicalTime(t) \in Int /\ canonicalTime(t) # None
      BY Quotient, ClientAssumption
<1>5. CASE c.around = None
  <2>1. c.window = None BY <1>1, <1>5
  <2>2. s.around = None BY <1>1, <1>2, <1>3, <1>5
  <2>3. \A t \in Int \cup {None} :
           (IF setTime(t) = None THEN None ELSE canonicalTime(setTime(t)))
              = IF t = None THEN None ELSE canonicalTime(t)
        BY <1>3, <1>4, CutTwice
  <2> QED BY <1>1, <1>2, <1>5, <2>1, <2>2, <2>3 DEF bounds
<1>6. CASE c.around # None
  <2>1. c.around \in Int BY <1>1, <1>6
  <2>2. s.around = canonicalTime(c.around) /\ s.around # None
    <3>1. setTime(c.around) = canonicalTime(c.around) BY <1>3, <1>6, <2>1
    <3> QED BY <1>2, <1>4, <2>1, <3>1
  <2>3. PICK w : w = IF c.window = None THEN DefaultWindow ELSE c.window OBVIOUS
  <2>4. s.window = w BY <1>2, <1>6, <2>2, <2>3
  <2>5. w \in Int BY <1>1, <2>3, ClientAssumption
  <2>6. w % Second = 0 <=> (c.window = None \/ c.window % Second = 0)
        BY <2>3, ClientAssumption
  <2>7. /\ canonicalTime(s.around + w) \in {canonicalTime(c.around + w),
                                             canonicalTime(c.around + w) - Second}
        /\ w % Second = 0 => canonicalTime(s.around + w) = canonicalTime(c.around + w)
    <3>1. PICK t : t = c.around OBVIOUS
    <3>2. /\ canonicalTime(canonicalTime(t) + w)
                \in {canonicalTime(t + w), canonicalTime(t + w) - Second}
          /\ w % Second = 0 => canonicalTime(canonicalTime(t) + w) = canonicalTime(t + w)
          BY <2>1, <2>5, <3>1, CutFirst
    <3> QED BY <2>2, <3>1, <3>2
  <2>8. /\ canonicalTime(s.around - w) \in {canonicalTime(c.around - w),
                                             canonicalTime(c.around - w) - Second}
        /\ w % Second = 0 => canonicalTime(s.around - w) = canonicalTime(c.around - w)
    <3>1. PICK d : d = 0 - w OBVIOUS
    <3>2. d \in Int /\ (w % Second = 0 => d % Second = 0) BY <2>5, <3>1, WholeBack
    <3>3. /\ canonicalTime(s.around + d) \in {canonicalTime(c.around + d),
                                               canonicalTime(c.around + d) - Second}
          /\ d % Second = 0 => canonicalTime(s.around + d) = canonicalTime(c.around + d)
          BY <2>1, <2>2, <3>2, CutFirst
    <3>4. s.around \in Int BY <1>4, <2>1, <2>2
    <3>5. s.around + d = s.around - w /\ c.around + d = c.around - w
          BY <2>1, <2>5, <3>1, <3>4
    <3> QED BY <3>2, <3>3, <3>5
  <2>9. /\ bounds(s.after, s.before, s.around, s.window) =
              <<canonicalTime(s.around - w), canonicalTime(s.around + w)>>
        /\ bounds(c.after, c.before, c.around, w) =
              <<canonicalTime(c.around - w), canonicalTime(c.around + w)>>
        BY <1>6, <2>2, <2>4 DEF bounds
  <2>10. CASE w % Second = 0 BY <2>3, <2>6, <2>7, <2>8, <2>9, <2>10
  <2>11. CASE w % Second # 0 BY <2>3, <2>6, <2>7, <2>8, <2>9, <2>11
  <2> QED BY <2>10, <2>11
<1> QED BY <1>5, <1>6

\* Max of a set of places is in the set.
LEMMA MaxElement ==
    ASSUME NEW n \in Nat, NEW S \in SUBSET (1..n), S # {}
    PROVE  Max(S) \in S /\ \A y \in S : y <= Max(S)
<1>1. PICK D : D = {n - y : y \in S} OBVIOUS
<1>2. D \subseteq Nat /\ D # {}
  <2>1. \A y \in S : n - y \in Nat OBVIOUS
  <2>2. PICK z : z \in S OBVIOUS
  <2>3. n - z \in D BY <1>1, <2>2
  <2> QED BY <1>1, <2>1, <2>3
<1>3. Min(D) \in D /\ \A d \in D : Min(D) <= d BY <1>2, MinElement
<1>4. PICK x \in S : Min(D) = n - x BY <1>1, <1>3
<1>5. ASSUME NEW y \in S PROVE x >= y
  <2>1. n - y \in D BY <1>1, <1>5
  <2>2. n - x <= n - y BY <1>3, <1>4, <2>1
  <2> QED BY <2>2
<1>6. PICK m : m = Max(S) OBVIOUS
<1>7. m \in S /\ \A y \in S : m >= y BY <1>5, <1>6 DEF Max
<1> QED BY <1>6, <1>7

\* A key in front of its value: what is before the first colon, and after it.
LEMMA Prepended ==
    ASSUME NEW k \in Parts, NEW v \in Parts
    PROVE  Head(k \o v) = Head(k) /\ Tail(k \o v) = Tail(k) \o v
<1>1. k \in Seq(STRING) /\ v \in Seq(STRING) /\ k # << >> BY DEF Parts
<1>2. Len(k) \in Nat /\ Len(k) >= 1 /\ Len(v) \in Nat BY <1>1
<1>3. k \o v \in Seq(STRING) /\ Len(k \o v) = Len(k) + Len(v) /\ k \o v # << >> BY <1>1, <1>2
<1>4. Head(k \o v) = Head(k) BY <1>1, <1>2, <1>3
<1>5. Tail(k) \in Seq(STRING) /\ Len(Tail(k)) = Len(k) - 1 BY <1>1, <1>2
<1>6. Tail(k \o v) \in Seq(STRING) /\ Len(Tail(k \o v)) = Len(k) + Len(v) - 1
      BY <1>2, <1>3
<1>7. Tail(k) \o v \in Seq(STRING) /\ Len(Tail(k) \o v) = Len(k) + Len(v) - 1
      BY <1>1, <1>2, <1>5
<1>8. ASSUME NEW i \in 1..(Len(k) + Len(v) - 1) PROVE Tail(k \o v)[i] = (Tail(k) \o v)[i]
  <2>1. Tail(k \o v)[i] = (k \o v)[i + 1] BY <1>2, <1>3
  <2>2. CASE i <= Len(k) - 1
    <3>1. (k \o v)[i + 1] = k[i + 1] BY <1>1, <1>2, <2>2
    <3>2. (Tail(k) \o v)[i] = Tail(k)[i] BY <1>1, <1>2, <1>5, <2>2
    <3>3. Tail(k)[i] = k[i + 1] BY <1>1, <1>2, <2>2
    <3> QED BY <2>1, <3>1, <3>2, <3>3
  <2>3. CASE i > Len(k) - 1
    <3>1. (k \o v)[i + 1] = v[i + 1 - Len(k)] BY <1>1, <1>2, <2>3
    <3>2. (Tail(k) \o v)[i] = v[i - (Len(k) - 1)] BY <1>1, <1>2, <1>5, <2>3
    <3>3. i - (Len(k) - 1) = i + 1 - Len(k) BY <1>2
    <3> QED BY <2>1, <3>1, <3>2, <3>3
  <2> QED BY <1>2, <2>2, <2>3
<1>9. Tail(k \o v) = Tail(k) \o v
  <2>1. PICK a : a = Tail(k \o v) OBVIOUS
  <2>2. PICK b : b = Tail(k) \o v OBVIOUS
  <2>3. a \in Seq(STRING) /\ b \in Seq(STRING) /\ Len(a) = Len(b) BY <1>6, <1>7, <2>1, <2>2
  <2>4. \A i \in 1..Len(a) : a[i] = b[i] BY <1>6, <1>8, <2>1, <2>2
  <2>5. a = b BY <2>3, <2>4
  <2> QED BY <2>1, <2>2, <2>5
<1> QED BY <1>4, <1>9

\* The tags of a listing.
TagsCut(c, s) ==
    /\ DOMAIN s.tags = {Head(c.tag[t].key) : t \in DOMAIN c.tag}
    /\ \A k \in DOMAIN s.tags : \E t \in DOMAIN c.tag :
          /\ Head(c.tag[t].key) = k
          /\ \A u \in DOMAIN c.tag : u > t => c.tag[u].key # c.tag[t].key
          /\ s.tags[k] = Tail(c.tag[t].key) \o c.tag[t].value

LEMMA TagsAsAsked ==
    ASSUME NEW c \in Commands, c.kind = "list", validArguments(c),
           NEW s, s = parseListParams(List(c))
    PROVE  TagsCut(c, s)
<1> DEFINE keys == {c.tag[t].key : t \in DOMAIN c.tag}
           last(k) == Max({t \in DOMAIN c.tag : c.tag[t].key = k})
<1>1. /\ DOMAIN c.tag \subseteq Nat
      /\ \A t \in DOMAIN c.tag : c.tag[t].key \in Parts /\ c.tag[t].value \in Parts
  <2>1. c.tag \in Seq(TagArgument) BY CommandsAssumption
  <2>2. \A t \in DOMAIN c.tag : c.tag[t] \in TagArgument /\ c.tag[t] # Malformed
        BY <2>1 DEF validArguments, validTags
  <2> QED BY <2>1, <2>2 DEF TagArgument
<1>2. parseTags(c.tag) = [k \in keys |-> c.tag[last(k)].value] BY DEF parseTags
<1>3. ASSUME NEW k \in keys
      PROVE  /\ last(k) \in DOMAIN c.tag
             /\ c.tag[last(k)].key = k
             /\ \A u \in DOMAIN c.tag : c.tag[u].key = k => u <= last(k)
  <2>1. PICK same : same = {t \in DOMAIN c.tag : c.tag[t].key = k} OBVIOUS
  <2>2. same # {} BY <2>1
  <2>3. PICK n \in Nat : DOMAIN c.tag = 1..n
        BY CommandsAssumption
  <2>4. Max(same) \in same /\ \A u \in same : u <= Max(same)
        BY <2>1, <2>2, <2>3, MaxElement
  <2> QED BY <2>1, <2>4
<1> HIDE DEF last
<1> DEFINE value(k) == c.tag[last(k)].value
<1>4. DOMAIN parseTags(c.tag) = keys /\ \A k \in keys : parseTags(c.tag)[k] = value(k)
      BY <1>2
<1>5. ASSUME NEW k \in keys
      PROVE  /\ Head(k \o value(k)) = Head(k)
             /\ Tail(k \o value(k)) = Tail(k) \o value(k)
  <2>1. PICK v : v = value(k) OBVIOUS
  <2>2. k \in Parts /\ v \in Parts BY <1>1, <1>3, <2>1
  <2>3. Head(k \o v) = Head(k) /\ Tail(k \o v) = Tail(k) \o v BY <2>2, Prepended
  <2> QED BY <2>1, <2>3
<1>6. PICK order : order = SortStrings[keys] OBVIOUS
<1>7. order \in Seq(keys) /\ \A k \in keys : \E n \in DOMAIN order : order[n] = k
  <2>1. validTags(c.tag) BY DEF validArguments
  <2>2. /\ SortStrings[DOMAIN parseTags(c.tag)] \in Seq(DOMAIN parseTags(c.tag))
        /\ \A k \in DOMAIN parseTags(c.tag) :
              \E n \in DOMAIN SortStrings[DOMAIN parseTags(c.tag)] :
                 SortStrings[DOMAIN parseTags(c.tag)][n] = k
        BY <2>1, SortAssumption
  <2> QED BY <1>4, <1>6, <2>2
<1>8. PICK sent : sent = tagParams(parseTags(c.tag)) OBVIOUS
<1>9. /\ DOMAIN sent = DOMAIN order
      /\ \A n \in DOMAIN order : sent[n] = order[n] \o value(order[n])
  <2>1. sent = [n \in DOMAIN order |-> order[n] \o parseTags(c.tag)[order[n]]]
        BY <1>4, <1>6, <1>8 DEF tagParams
  <2>2. \A n \in DOMAIN order : order[n] \in keys BY <1>7
  <2> HIDE DEF keys, value
  <2> QED BY <1>4, <2>1, <2>2
<1>10. s.tags = parseTagParams(sent) BY <1>8 DEF parseListParams, List
<1>11. ASSUME NEW n \in DOMAIN sent
       PROVE  /\ order[n] \in keys
              /\ Head(sent[n]) = Head(order[n])
              /\ Tail(sent[n]) = Tail(order[n]) \o value(order[n])
  <2>1. order[n] \in keys BY <1>7, <1>9
  <2> HIDE DEF keys, value
  <2> QED BY <1>5, <1>9, <2>1
<1>12. {Head(sent[n]) : n \in DOMAIN sent} = {Head(c.tag[t].key) : t \in DOMAIN c.tag}
  <2>1. {Head(sent[n]) : n \in DOMAIN sent} = {Head(k) : k \in keys}
    <3> HIDE DEF keys, value
    <3>1. \A n \in DOMAIN sent : order[n] \in keys /\ Head(sent[n]) = Head(order[n]) BY <1>11
    <3>2. \A k \in keys : \E n \in DOMAIN sent : order[n] = k BY <1>7, <1>9
    <3>3. \A k \in keys : Head(k) \in {Head(sent[n]) : n \in DOMAIN sent}
      <4> SUFFICES ASSUME NEW k \in keys PROVE Head(k) \in {Head(sent[n]) : n \in DOMAIN sent}
          OBVIOUS
      <4>1. PICK n \in DOMAIN sent : order[n] = k BY <3>2
      <4> QED BY <3>1, <4>1
    <3>4. \A n \in DOMAIN sent : Head(sent[n]) \in {Head(k) : k \in keys} BY <3>1
    <3> QED BY <3>3, <3>4
  <2>2. {Head(k) : k \in keys} = {Head(c.tag[t].key) : t \in DOMAIN c.tag} OBVIOUS
  <2> QED BY <2>1, <2>2
<1>13. ASSUME NEW k \in {Head(sent[n]) : n \in DOMAIN sent}
       PROVE  lastTag(sent, k) \in DOMAIN sent /\ Head(sent[lastTag(sent, k)]) = k
  <2>1. PICK m \in Nat : DOMAIN order = 1..m BY <1>7
  <2>2. PICK same : same = {n \in DOMAIN sent : Head(sent[n]) = k} OBVIOUS
  <2>3. same # {} /\ same \in SUBSET (1..m) BY <1>9, <2>1, <2>2
  <2>4. Max(same) \in same BY <2>1, <2>3, MaxElement
  <2> QED BY <2>2, <2>4 DEF lastTag
<1>14. s.tags = [k \in {Head(sent[n]) : n \in DOMAIN sent} |-> Tail(sent[lastTag(sent, k)])]
       BY <1>10 DEF parseTagParams
<1>15. ASSUME NEW k \in DOMAIN s.tags
       PROVE  \E t \in DOMAIN c.tag :
                 /\ Head(c.tag[t].key) = k
                 /\ \A u \in DOMAIN c.tag : u > t => c.tag[u].key # c.tag[t].key
                 /\ s.tags[k] = Tail(c.tag[t].key) \o c.tag[t].value
  <2>1. PICK n : n = lastTag(sent, k) OBVIOUS
  <2>2. n \in DOMAIN sent /\ Head(sent[n]) = k /\ s.tags[k] = Tail(sent[n])
        BY <1>13, <1>14, <1>15, <2>1
  <2>3. PICK key : key = order[n] OBVIOUS
  <2>4. key \in keys /\ Head(key) = k /\ s.tags[k] = Tail(key) \o value(key)
    <3> HIDE DEF keys, value
    <3> QED BY <1>11, <2>2, <2>3
  <2>5. PICK t : t = last(key) OBVIOUS
  <2>6. /\ t \in DOMAIN c.tag
        /\ c.tag[t].key = key
        /\ \A u \in DOMAIN c.tag : c.tag[u].key = key => u <= t
        BY <1>3, <2>4, <2>5
  <2>7. \A u \in DOMAIN c.tag : u > t => c.tag[u].key # c.tag[t].key BY <1>1, <2>6
  <2>8. s.tags[k] = Tail(c.tag[t].key) \o c.tag[t].value BY <2>4, <2>5, <2>6
  <2> QED BY <2>4, <2>6, <2>7, <2>8
<1> QED BY <1>12, <1>14, <1>15 DEF TagsCut

\* The teams and scopes of a listing of current operations.
LEMMA ScopesAsAsked ==
    ASSUME NEW c \in Commands, c.kind = "current",
           NEW s, s = parseCurrentParams(Current(c))
    PROVE  /\ s.forTeam = c.team
           /\ {scope.text : scope \in s.scopes} = {scope.text : scope \in c.scope \ {None}}
           /\ \A scope \in s.scopes : ~scope.upper
<1>1. \A name \in c.scope \ {None} :
         name \in Names /\ lower(name).text = name.text /\ lower(name).upper = FALSE
      BY LowerName, CommandsAssumption
<1>2. s.forTeam = c.team /\ s.scopes = {lower(name) : name \in c.scope \ {None}}
      BY DEF parseCurrentParams, Current
<1>3. {scope.text : scope \in s.scopes} = {scope.text : scope \in c.scope \ {None}}
      BY <1>1, <1>2
<1>4. \A scope \in s.scopes : ~scope.upper BY <1>1, <1>2
<1> QED BY <1>2, <1>3, <1>4

-----------------------------------------------------------------------------
(* Theorems *)

\* The exit status of a creation tells what became of it: Run returns 0 only
\* after the server has answered that the event is recorded, and 64, 66, 77 or
\* 78 only when nothing of the invocation is recorded or on its way.
THEOREM ExitIsTruthful == Spec => []ExitTellsOutcome
<1>1. ClientInv => ExitTellsOutcome
      BY DEF ClientInv, InvocationOK, OutcomeOK, Fresh, ExitTellsOutcome, creates
<1> QED BY <1>1, Invariance, PTL

\* Whatever proxy and network do, AuthWithTrustedIdentity and CreateEvent
\* record the holder of the invocation's credential, whom the policy permits.
THEOREM EventsNameHolder == Spec => []AttributedToHolder
<1>1. ClientInv => AttributedToHolder BY DEF ClientInv, EventOK, AttributedToHolder
<1> QED BY <1>1, Invariance, PTL

\* Settings that doctor has approved by an authenticated read are never
\* refused by the same authentication of a creation.
THEOREM DoctorIsRight == Spec => []DoctorPredicts
<1>1. ClientInv => DoctorPredicts
  <2> SUFFICES ASSUME ClientInv, NEW i \in Invocations, NEW j \in Invocations,
                      env.requireAuthReads, exit[i] = 0, command[i].kind = "doctor",
                      creates(j), command[j].settings = command[i].settings
               PROVE  exit[j] # 77
      BY DEF DoctorPredicts
  <2>1. OutcomeOK(i) /\ OutcomeOK(j) BY DEF ClientInv, InvocationOK
  <2>2. Authorized(env, command[j].settings) BY <2>1 DEF OutcomeOK
  <2> QED BY <2>1, <2>2 DEF OutcomeOK, creates
<1> QED BY <1>1, Invariance, PTL

\* Client.List and parseListParams, Client.Current and normalizeCurrentValues
\* undo each other, up to a second where the window is not of whole seconds,
\* and up to the cut at the first colon: a tag key that has a colon is filtered
\* on by what is before it, with the rest of the key in front of the value.
\* Keys without one, <<k>>, are filtered on as written.
THEOREM ListingsAsAsked == Spec => []ListedAsAsked
<1>1. ClientInv => ListedAsAsked
  <2> SUFFICES ASSUME ClientInv, NEW i \in Invocations, served[i] # None,
                      NEW c, c = command[i], NEW s, s = served[i]
               PROVE
        /\ c.kind = "list" =>
              /\ LET asked == bounds(c.after, c.before, c.around,
                                     IF c.window = None THEN DefaultWindow ELSE c.window)
                     given == bounds(s.after, s.before, s.around, s.window)
                 IN  IF c.window = None \/ c.window % Second = 0
                     THEN given = asked
                     ELSE \A b \in 1..2 : given[b] \in {asked[b], asked[b] - Second}
              /\ DOMAIN s.tags = {Head(c.tag[t].key) : t \in DOMAIN c.tag}
              /\ \A k \in DOMAIN s.tags : \E t \in DOMAIN c.tag :
                    /\ Head(c.tag[t].key) = k
                    /\ \A u \in DOMAIN c.tag : u > t => c.tag[u].key # c.tag[t].key
                    /\ s.tags[k] = Tail(c.tag[t].key) \o c.tag[t].value
              /\ s.limit = c.limit
        /\ c.kind = "current" =>
              /\ s.forTeam = c.team
              /\ {scope.text : scope \in s.scopes} = {scope.text : scope \in c.scope \ {None}}
              /\ \A scope \in s.scopes : ~scope.upper
      BY DEF ListedAsAsked
  <2>1. c \in Commands /\ validArguments(c) /\ s = params(c, query(c))
        BY DEF ClientInv, InvocationOK, StartOK, ServedOK
  <2>2. c.kind = "list" => s = parseListParams(List(c)) BY <2>1 DEF params, query
  <2>3. c.kind = "current" => s = parseCurrentParams(Current(c)) BY <2>1 DEF params, query
  <2>4. c.kind = "list" => s.limit = c.limit
    <3>1. c.kind = "list" => c.limit \in Nat /\ c.limit # None
          BY <2>1, CommandsAssumption, ClientAssumption
    <3> QED BY <2>2, <3>1 DEF parseListParams, List
  <2>5. CASE c.kind = "list"
    <3>1. TagsCut(c, s) BY <2>1, <2>2, <2>5, TagsAsAsked
    <3>2. LET asked == bounds(c.after, c.before, c.around,
                              IF c.window = None THEN DefaultWindow ELSE c.window)
              given == bounds(s.after, s.before, s.around, s.window)
          IN  IF c.window = None \/ c.window % Second = 0
              THEN given = asked
              ELSE \A b \in 1..2 : given[b] \in {asked[b], asked[b] - Second}
          BY <2>1, <2>2, <2>5, BoundsAsAsked
    <3> QED BY <2>4, <2>5, <3>1, <3>2 DEF TagsCut
  <2>6. CASE c.kind = "current" BY <2>1, <2>3, <2>6, ScopesAsAsked
  <2> QED BY <2>5, <2>6
<1> QED BY <1>1, Invariance, PTL

\* The decisions of internal/humanauth under the settings internal/config
\* accepted are the policy as the operator wrote it, for any people, any
\* settings and any answers or failures of the providers.
THEOREM PolicyIsKept == Spec => []AdmittedAsWritten
<1>1. ClientInv => AdmittedAsWritten
      BY PolicyAsWritten DEF ClientInv, Shape, AdmittedAsWritten, cfg
<1> QED BY <1>1, Invariance, PTL
=============================================================================
