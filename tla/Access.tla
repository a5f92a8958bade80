------------------------------- MODULE Access -------------------------------
(***************************************************************************)
(* Who may use the registry: the settings internal/config accepts, and the *)
(* decision each identity provider of internal/humanauth takes about a     *)
(* person.  Neither keeps state; Client uses both.                         *)
(*                                                                         *)
(* A name (organization, group, domain, e-mail address, subject) is its    *)
(* lower-case text and whether it is written with upper-case letters.      *)
(***************************************************************************)
EXTENDS Naturals, Sequences, FiniteSetsExt

CONSTANTS
    Persons,             \* what the providers and the proxy say about people
    MaxSessionDuration,  \* maxHumanSessionDuration
    None

Names == [text : STRING, upper : BOOLEAN]
Name(text, upper) == [text |-> text, upper |-> upper]
lower(name) == [name EXCEPT !.upper = FALSE]

Entries(seq) == {seq[i] : i \in DOMAIN seq}

-----------------------------------------------------------------------------
(* The server's configuration                                              *)

\* Fields of an environment: provider, tokens, oauth (client id and secret
\* are set), issuer, duration, orgs, subjects, allowAny, requireAuthReads,
\* and others, whether every other setting parses and is in its range.

\* Outside Beyond at least one API token is needed.
loadAPITokens(env) == env.provider = "beyond" \/ env.tokens # {}

\* The namespace of the subjects; Authentik's includes the issuer.
IdentityProvider(env) ==
    IF env.provider = "authentik" THEN <<env.provider, env.issuer>> ELSE <<env.provider>>

normalizeOrg(provider, org) == IF provider \in {"github", "google"} THEN lower(org) ELSE org

validateAllowedSubjects(env) ==
    \A s \in env.subjects : s.namespace = IdentityProvider(env) /\ s.id # None

\* Anyone, or some organizations or subjects, and never both or neither.
validateHumanAuthPolicy(env) == env.allowAny <=> (env.orgs = <<>> /\ env.subjects = {})

validateHumanAuth(env) ==
    /\ env.provider \in {"github", "google", "authentik", "beyond"}
    /\ env.provider # "beyond" => env.oauth
    /\ env.provider = "authentik" => env.issuer # None
    /\ env.duration > 0 /\ env.duration <= MaxSessionDuration
    /\ validateAllowedSubjects(env)
    /\ validateHumanAuthPolicy(env)

accepted(env) == loadAPITokens(env) /\ env.others /\ validateHumanAuth(env)

\* The configuration, or None when the server refuses to start.
Load(env) ==
    IF ~accepted(env) THEN None
    ELSE [env EXCEPT !.orgs = [i \in DOMAIN @ |-> normalizeOrg(env.provider, @[i])]]

-----------------------------------------------------------------------------
(* The providers' decisions                                                *)

\* Fields of a person: subject, email, domain (of the e-mail address),
\* verified, hosted (Google's hd claim), preferred (a user name), member
\* (GitHub's membership state per organization) and groups.

ASSUME AccessAssumption ==
    /\ None \notin Persons
    /\ \A person \in Persons :
          /\ {person.email, person.domain, person.hosted} \subseteq Names \cup {None}
          /\ person.email # None => person.domain # None
          /\ person.groups \subseteq Names

subjectAllowed(cfg, id) == [namespace |-> IdentityProvider(cfg), id |-> id] \in cfg.subjects

\* allowAny, then the subject, then what the provider's organizations say.
decide(cfg, id, viaOrg) ==
    IF cfg.allowAny THEN "any" ELSE IF subjectAllowed(cfg, id) THEN "subject" ELSE viaOrg

\* Mutant: an organization that cannot be verified is skipped.
activeOrganization_Skips(cfg, answer) ==
    LET decided == {i \in DOMAIN cfg.orgs : answer[cfg.orgs[i].text] = "active"}
    IN  IF decided = {} THEN "unauthorized" ELSE "org"

\* The organizations are asked in order.  404 and an inactive membership go on
\* to the next, any other failure ends the search.
activeOrganization(cfg, answer) ==
    LET decided == {i \in DOMAIN cfg.orgs :
                       answer[cfg.orgs[i].text] \notin {"absent", "pending"}}
    IN  IF decided = {} THEN "unauthorized"
        ELSE IF answer[cfg.orgs[Min(decided)].text] = "active" THEN "org" ELSE "unavailable"

\* reply is "ok", or what went wrong before the profile was known.
GitHub(cfg, person, reply, answer) ==
    IF reply # "ok" THEN reply
    ELSE IF person.subject = None THEN "failed"
    ELSE decide(cfg, person.subject, activeOrganization(cfg, answer))

\* The hosted domain and the e-mail address must both be the organization's.
googleOrganization(cfg, person) ==
    IF \E org \in Entries(cfg.orgs) :
          /\ person.hosted # None /\ lower(person.hosted) = org
          /\ lower(person.domain) = org
    THEN "org" ELSE "unauthorized"

Google(cfg, person, reply) ==
    IF reply # "ok" THEN reply
    ELSE IF person.subject = None \/ person.email = None \/ ~person.verified
    THEN "unauthorized"
    ELSE decide(cfg, person.subject, googleOrganization(cfg, person))

\* allowedGroup of Authentik and of Beyond: exact names.
allowedGroup(cfg, person) ==
    IF person.groups \cap Entries(cfg.orgs) # {} THEN "org" ELSE "unauthorized"

\* The user name is the preferred one or else a verified e-mail address.
Authentik(cfg, person, reply) ==
    IF reply # "ok" THEN reply
    ELSE IF person.subject = None
            \/ (person.preferred = None /\ ~(person.email # None /\ person.verified))
    THEN "unauthorized"
    ELSE decide(cfg, person.subject, allowedGroup(cfg, person))

\* Beyond.AuthenticateRequest: the proxy's headers name person.
AuthenticateRequest(cfg, person) ==
    IF person.email = None THEN "unauthorized"
    ELSE decide(cfg, lower(person.email), allowedGroup(cfg, person))

Authenticate(cfg, person, reply, answer) ==
    CASE cfg.provider = "github" -> GitHub(cfg, person, reply, answer)
      [] cfg.provider = "google" -> Google(cfg, person, reply)
      [] cfg.provider = "authentik" -> Authentik(cfg, person, reply)
      [] cfg.provider = "beyond" -> AuthenticateRequest(cfg, person)

admitted(decision) == decision \in {"any", "subject", "org"}

-----------------------------------------------------------------------------
(* The policy as the operator wrote it (README, Configuration), which the  *)
(* decisions are compared with.                                            *)

\* The provider vouches for a durable identity and a name to record.
Identified(env, person) ==
    IF env.provider = "beyond" THEN person.email # None
    ELSE /\ person.subject # None
         /\ env.provider = "google" => person.email # None /\ person.verified
         /\ env.provider = "authentik" =>
               person.preferred # None \/ (person.email # None /\ person.verified)

\* person belongs to the organization, domain or group written as org.
BelongsTo(env, person, org) ==
    CASE env.provider = "github" -> person.member[org.text] = "active"
      [] env.provider = "google" ->
            \A d \in {person.hosted, person.domain} : d # None /\ d.text = org.text
      [] OTHER -> org \in person.groups

Permitted(env, person) ==
    /\ Identified(env, person)
    /\ \/ env.allowAny
       \/ \E s \in env.subjects :
             s.id = IF env.provider = "beyond" THEN lower(person.email) ELSE person.subject
       \/ \E org \in Entries(env.orgs) : BelongsTo(env, person, org)

\* What membership queries may answer about a person: the truth or a failure.
Answers(person) ==
    {a \in [DOMAIN person.member -> {"active", "pending", "absent", "error"}] :
        \A org \in DOMAIN person.member : a[org] \in {person.member[org], "error"}}
=============================================================================
