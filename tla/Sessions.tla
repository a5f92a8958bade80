------------------------------ MODULE Sessions ------------------------------
(***************************************************************************)
(* Human login and dashboard actions: one browser whose tabs share the     *)
(* session and flow cookies, the stateless PCR server, and the identity    *)
(* provider (OAuth) or the trusted proxy (Beyond).                         *)
(*                                                                         *)
(* A request carries the cookies of the moment it was sent; its answer's   *)
(* Set-Cookie takes effect when the answer arrives, in any order among the *)
(* tabs.  Signed cookies and CSRF tokens are the values they protect: a    *)
(* CSRF token is the nonce of the session it was derived from.             *)
(***************************************************************************)
EXTENDS Naturals

CONSTANTS
    Users,            \* provider subjects
    Tabs,             \* tabs of the browser
    Paths,            \* dashboard pages
    Root,             \* the page "/"
    FlowLifetime,
    SessionDuration,
    RequestTimeout,   \* what the router gives a request
    Deployments,      \* the deployments looked at, each with its bounds
    None

\* beyond: behind the trusted proxy, or else with an OAuth provider.  Bounds:
\* the last instant looked at and the number of random values drawn.
Deployment == [beyond : BOOLEAN, maxClock : Nat, maxTokens : Nat]

\* Signed cookies; a token is a random value, numbered as it is drawn.
Session == [subject : Users, nonce : Nat, expires : Nat]
Flow == [state : Nat, returnTo : Paths, expires : Nat]

\* A page shows the user's name and holds the CSRF token of its forms; wanted
\* is the page this tab was asked to open.
Page == [at : {"blank", "login", "provider", "page", "redirect", "error"},
         path : Paths, wanted : Paths, shown : Users \cup {None},
         token : Nat \cup {None}, cause : {"none", "login"}]

\* A request carries the cookies of its moment; an answer, those it sets.  A
\* callback becomes "code" while Authenticate asks the provider and "admitted"
\* once the provider has answered for a user that policy allows; from its first
\* step on it has a deadline.
Request == [kind : {"get", "start", "callback", "code", "admitted", "action",
                    "create", "logout"},
            path : Paths, token : Nat \cup {None}, code : Users \cup {None},
            session : Session \cup {None}, flow : Flow \cup {None},
            deadline : Nat \cup {None}]
Cookies == [session : Session \cup {None}] \cup [flow : Flow \cup {None}]
              \cup [session : Session \cup {None}, flow : Flow \cup {None}]
Response == [page : Page, cookies : Cookies]

ASSUME SessionsAssumption ==
    /\ Root \in Paths
    /\ Deployments \subseteq Deployment
    /\ FlowLifetime \in Nat \ {0}
    /\ SessionDuration \in Nat \ {0}
    /\ RequestTimeout \in Nat
    /\ None \notin Users \cup Paths \cup Nat
    /\ None \notin Session \cup Flow \cup Request \cup Response

VARIABLES
    deployment, \* the deployment; never changes
    clock,
    who,        \* the identity signed in at the provider or at the proxy
    revoked,    \* per user: when policy ceased to allow it, or None
    session,    \* the session cookie, or None
    flow,       \* the OAuth flow cookie, or None
    tokens,     \* random values drawn so far
    tab,        \* what each tab shows
    request,    \* per tab: the request under way, or None
    response,   \* per tab: the answer under way, or None
    write       \* history: the event this step recorded through the
                \* dashboard, or None

vars == <<deployment, clock, who, revoked, session, flow, tokens, tab,
          request, response, write>>
browser == <<session, flow, tab>>
world == <<deployment, clock, who, revoked>>

Beyond == deployment.beyond
MaxClock == deployment.maxClock
MaxTokens == deployment.maxTokens

Blank == [at |-> "blank", path |-> Root, wanted |-> Root, shown |-> None,
          token |-> None, cause |-> "none"]

Init ==
    /\ deployment \in Deployments
    /\ clock = 0
    /\ who \in Users
    /\ revoked = [u \in Users |-> None]
    /\ session = None
    /\ flow = None
    /\ tokens = 0
    /\ tab = [t \in Tabs |-> Blank]
    /\ request = [t \in Tabs |-> None]
    /\ response = [t \in Tabs |-> None]
    /\ write = None

-----------------------------------------------------------------------------
(* The browser *)

quiet(t) == request[t] = None /\ response[t] = None

\* A request leaves tab t with the cookies as they are now.
send(t, kind, path, token, code) ==
    /\ quiet(t)
    /\ request' = [request EXCEPT ![t] =
          [kind |-> kind, path |-> path, token |-> token, code |-> code,
           session |-> session, flow |-> flow, deadline |-> None]]

\* The user opens a dashboard page.
Open(t, p) ==
    /\ tab[t].at # "redirect"
    /\ send(t, "get", p, None, None)
    /\ tab' = [tab EXCEPT ![t].wanted = p]
    /\ UNCHANGED <<world, session, flow, tokens, response>>
    /\ write' = None

\* The browser follows a redirect to a dashboard page.
Follow(t) ==
    /\ tab[t].at = "redirect"
    /\ send(t, "get", tab[t].path, None, None)
    /\ tab' = [tab EXCEPT ![t].wanted = tab[t].path]
    /\ UNCHANGED <<world, session, flow, tokens, response>>
    /\ write' = None

\* The login page's button: GET /auth/start?return_to=...
PressSignIn(t) ==
    /\ tab[t].at = "login"
    /\ send(t, "start", tab[t].path, None, None)
    /\ UNCHANGED <<world, browser, tokens, response>>
    /\ write' = None

\* The provider sends the browser back with a code for the user signed in
\* there, or with an error.
ProviderReturns(t) ==
    /\ tab[t].at = "provider"
    /\ \E code \in {who, None} : send(t, "callback", Root, tab[t].token, code)
    /\ UNCHANGED <<world, browser, tokens, response>>
    /\ write' = None

\* A form of the page: star, alert, links or close.
SubmitAction(t) ==
    /\ tab[t].at = "page"
    /\ send(t, "action", tab[t].path, tab[t].token, None)
    /\ UNCHANGED <<world, browser, tokens, response>>
    /\ write' = None

\* The form that records a change.
SubmitCreate(t) ==
    /\ tab[t].at = "page"
    /\ send(t, "create", tab[t].path, tab[t].token, None)
    /\ UNCHANGED <<world, browser, tokens, response>>
    /\ write' = None

\* The logout form.
SubmitLogout(t) ==
    /\ tab[t].at = "page"
    /\ send(t, "logout", Root, tab[t].token, None)
    /\ tab' = [tab EXCEPT ![t].wanted = Root]
    /\ UNCHANGED <<world, session, flow, tokens, response>>
    /\ write' = None

\* An answer arrives: its cookies are stored and the tab shows it.
Receive(t) ==
    /\ response[t] # None
    /\ response' = [response EXCEPT ![t] = None]
    /\ LET set == response[t].cookies IN
          /\ session' = IF "session" \in DOMAIN set THEN set.session ELSE session
          /\ flow' = IF "flow" \in DOMAIN set THEN set.flow ELSE flow
    /\ tab' = [tab EXCEPT ![t] = [response[t].page EXCEPT !.wanted = tab[t].wanted]]
    /\ UNCHANGED <<world, tokens, request>>
    /\ write' = None

-----------------------------------------------------------------------------
(* The server; one action answers one request *)

allowed(u) == revoked[u] = None

\* The answer to tab t's request sets no cookie: until it arrives the tab does
\* nothing and nobody else can see it, so it arrives at once.
show(t, page) ==
    /\ request' = [request EXCEPT ![t] = None]
    /\ tab' = [tab EXCEPT ![t] = [page EXCEPT !.wanted = tab[t].wanted]]
    /\ UNCHANGED <<world, session, flow, response>>

\* The answer to tab t's request sets the cookies that are fields of cookies;
\* None clears one.
respond(t, page, cookies) ==
    /\ request' = [request EXCEPT ![t] = None]
    /\ response' = [response EXCEPT ![t] =
          [page |-> page, cookies |-> cookies]]
    /\ UNCHANGED <<world, browser>>

error == [Blank EXCEPT !.at = "error"]
loginPage(p) == [Blank EXCEPT !.at = "login", !.path = p]
redirect(p, cause) == [Blank EXCEPT !.at = "redirect", !.path = p, !.cause = cause]

\* Mutant: the lifetime is left to the browser's cookie store.
ReadHumanSession_NoExpiry(c) == c # None

\* ReadHumanSession.
ReadHumanSession(c) == c # None /\ clock < c.expires

\* Beyond.AuthenticateRequest: the verified header and the current policy.
AuthenticateRequest == allowed(who)

\* Mutant: the identity is compared and the policy is not applied again.
requireHumanAuth_LoginPolicy(c) ==
    /\ ReadHumanSession(c)
    /\ Beyond => who = c.subject

\* Mutant: any identity the policy allows passes.
requireHumanAuth_Unbound(c) ==
    /\ ReadHumanSession(c)
    /\ Beyond => AuthenticateRequest

\* RequireHumanAuth, or RequireBoundHumanAuth behind Beyond.
requireHumanAuth(c) ==
    /\ ReadHumanSession(c)
    /\ Beyond => AuthenticateRequest /\ who = c.subject

\* The payload of SetHumanSessionCookie: a new nonce and an absolute lifetime.
newSession(u) == [subject |-> u, nonce |-> tokens + 1, expires |-> clock + SessionDuration]

draw == tokens < MaxTokens /\ tokens' = tokens + 1

\* A page rendered for session c.
rendered(p, c) ==
    [Blank EXCEPT !.at = "page", !.path = p, !.shown = c.subject, !.token = c.nonce]

\* GET of a dashboard page: the page or an error from the registry, or the
\* login page that leads back to it.
GetPage(t) ==
    LET r == request[t] IN
    /\ r # None /\ r.kind = "get"
    /\ IF requireHumanAuth(r.session)
       THEN show(t, rendered(r.path, r.session)) \/ show(t, error)
       ELSE show(t, loginPage(r.path))
    /\ UNCHANGED tokens
    /\ write' = None

\* Start: the flow is kept in a cookie and the browser goes to the provider.
StartOAuth(t) ==
    LET r == request[t] IN
    /\ ~Beyond
    /\ r # None /\ r.kind = "start"
    /\ draw
    /\ respond(t, [Blank EXCEPT !.at = "provider", !.token = tokens + 1],
          [flow |-> [state |-> tokens + 1, returnTo |-> r.path,
                     expires |-> clock + FlowLifetime]])
    /\ write' = None

\* startBeyond: the proxy's identity becomes the session.
StartBeyond(t) ==
    LET r == request[t] IN
    /\ Beyond
    /\ r # None /\ r.kind = "start"
    /\ IF AuthenticateRequest
       THEN draw /\ respond(t, redirect(r.path, "login"), [session |-> newSession(who)])
       ELSE UNCHANGED tokens /\ show(t, error)
    /\ write' = None

\* Mutant: the state is not compared.
readOAuthFlow_AnyState(c, state) == c # None /\ clock < c.expires

\* readOAuthFlow and the comparison of the state.
readOAuthFlow(c, state) == c # None /\ clock < c.expires /\ c.state = state

\* The login fails; the flow cookie is cleared in any case.
failLogin(t) == UNCHANGED tokens /\ respond(t, error, [flow |-> None])

\* Callback up to its call of Authenticate, under the router's timeout.
Callback(t) ==
    LET r == request[t] IN
    /\ r # None /\ r.kind = "callback"
    /\ IF readOAuthFlow(r.flow, r.token) /\ r.code # None
       THEN /\ request' = [request EXCEPT ![t] =
                  [r EXCEPT !.kind = "code", !.deadline = clock + RequestTimeout]]
            /\ UNCHANGED <<world, browser, tokens, response>>
       ELSE failLogin(t)
    /\ write' = None

\* Authenticate: the provider answers for the user that approved, to whom
\* policy is applied as it is now; or the call fails, at the latest when the
\* request's context ends.
Authenticate(t) ==
    LET r == request[t] IN
    /\ r # None /\ r.kind = "code"
    /\ \/ /\ allowed(r.code)
          /\ clock <= r.deadline
          /\ request' = [request EXCEPT ![t] = [r EXCEPT !.kind = "admitted"]]
          /\ UNCHANGED <<world, browser, tokens, response>>
       \/ failLogin(t)
    /\ write' = None

\* Mutant: the calls to the provider do not carry the request's context.
SetHumanSessionCookie_NoContext(t) ==
    LET r == request[t] IN
    /\ r # None /\ r.kind = "admitted"
    /\ \/ /\ draw
          /\ respond(t, redirect(r.flow.returnTo, "login"),
                     [session |-> newSession(r.code), flow |-> None])
       \/ failLogin(t)
    /\ write' = None

\* The provider's answer arrives, before the context of the calls ends, and
\* SetHumanSessionCookie stamps the session with the time of now: it waits for
\* nothing in between.
SetHumanSessionCookie(t) ==
    LET r == request[t] IN
    /\ r # None /\ r.kind = "admitted"
    /\ \/ /\ clock <= r.deadline
          /\ draw
          /\ respond(t, redirect(r.flow.returnTo, "login"),
                     [session |-> newSession(r.code), flow |-> None])
       \/ failLogin(t)
    /\ write' = None

\* Mutant: any token will do.
ValidateCSRFToken_Skipped(c, token) == token # None

\* validateActionForm's CSRF check.
ValidateCSRFToken(c, token) == token = c.nonce

\* localRedirectTarget(Referer): SecurityHeaders sends Referrer-Policy
\* no-referrer with every page, so the browser names none.
redirectAfterAction(p) == redirect(Root, "none")

\* A form passes the session and CSRF checks.
accepted(r) == requireHumanAuth(r.session) /\ ValidateCSRFToken(r.session, r.token)

\* The event is attributed to the session's identity.
record(t) == write' = [by |-> request[t].session.subject, shown |-> tab[t].shown]

\* The form is refused, or the service refuses the event: an error, or the
\* form's page again, rendered for the session of the request.
refuse(t) ==
    LET r == request[t] IN
    /\ \/ show(t, error)
       \/ accepted(r) /\ show(t, rendered(r.path, r.session))
    /\ write' = None

\* ToggleStar, ToggleAlert, AddLinks and CloseOperation.
Action(t) ==
    LET r == request[t] IN
    /\ r # None /\ r.kind = "action"
    /\ \/ accepted(r) /\ record(t) /\ show(t, redirectAfterAction(r.path))
       \/ refuse(t)
    /\ UNCHANGED tokens

\* CreateEvent: the browser is sent to the page of the new event.
CreateEvent(t) ==
    LET r == request[t] IN
    /\ r # None /\ r.kind = "create"
    /\ \/ accepted(r) /\ record(t) /\ \E p \in Paths : show(t, redirect(p, "none"))
       \/ refuse(t)
    /\ UNCHANGED tokens

\* Logout: RequireHumanAuth only, so that a revoked user can log out too.
Logout(t) ==
    LET r == request[t] IN
    /\ r # None /\ r.kind = "logout"
    /\ IF ReadHumanSession(r.session) /\ ValidateCSRFToken(r.session, r.token)
       THEN respond(t, loginPage(Root), [session |-> None])
       ELSE show(t, error)
    /\ UNCHANGED tokens
    /\ write' = None

-----------------------------------------------------------------------------
(* The environment *)

Tick ==
    /\ clock < MaxClock
    /\ clock' = clock + 1
    /\ UNCHANGED <<deployment, who, revoked, browser, tokens, request, response>>
    /\ write' = None

\* Another user signs in at the provider or at the proxy.
SwitchUser ==
    /\ who' \in Users \ {who}
    /\ UNCHANGED <<deployment, clock, revoked, browser, tokens, request, response>>
    /\ write' = None

\* A user leaves every allowed group.
Revoke(u) ==
    /\ allowed(u)
    /\ revoked' = [revoked EXCEPT ![u] = clock]
    /\ UNCHANGED <<deployment, clock, who, browser, tokens, request, response>>
    /\ write' = None

Next ==
    \/ \E t \in Tabs :
          \/ \E p \in Paths : Open(t, p)
          \/ Follow(t) \/ PressSignIn(t) \/ ProviderReturns(t)
          \/ SubmitAction(t) \/ SubmitCreate(t) \/ SubmitLogout(t) \/ Receive(t)
          \/ GetPage(t) \/ StartOAuth(t) \/ StartBeyond(t) \/ Callback(t)
          \/ Authenticate(t) \/ SetHumanSessionCookie(t)
          \/ Action(t) \/ CreateEvent(t) \/ Logout(t)
    \/ Tick
    \/ SwitchUser
    \/ \E u \in Users : Revoke(u)

Spec == Init /\ [][Next]_vars

-----------------------------------------------------------------------------
(* Properties *)

\* Type invariant.
TypeOK ==
    /\ deployment \in Deployments
    /\ clock \in Nat
    /\ who \in Users
    /\ revoked \in [Users -> Nat \cup {None}]
    /\ session \in Session \cup {None}
    /\ flow \in Flow \cup {None}
    /\ tokens \in Nat
    /\ tab \in [Tabs -> Page]
    /\ request \in [Tabs -> Request \cup {None}]
    /\ response \in [Tabs -> Response \cup {None}]

\* Every event recorded through the dashboard is attributed to the user whose
\* name the submitting page showed, whatever logins, logouts and changes of
\* user happened in other tabs since the page was loaded.
WriteByShownUser == write # None => write.by = write.shown

\* README: behind Beyond "a changed edge identity cannot reuse a stale PCR
\* session": the recorded user is the one the proxy vouched for on that request.
WriteByEdgeUser == write # None /\ Beyond => write.by = who

\* Revocation takes effect: behind Beyond no request that arrives later records
\* anything, and with an OAuth provider none that arrives SessionDuration plus
\* one request's timeout later.  The timeout is the login under way when the
\* user is revoked: the provider has answered for the user, and the session's
\* lifetime starts when that answer has reached SetHumanSessionCookie.
RevocationBounded ==
    write # None =>
       \/ allowed(write.by)
       \/ /\ ~Beyond
          /\ clock < revoked[write.by] + SessionDuration + RequestTimeout

\* A login leads to the page its tab was asked to open, although the tabs
\* share one flow cookie.
LandsWhereAsked ==
    \A t \in Tabs : tab[t].cause = "login" => tab[t].path = tab[t].wanted
=============================================================================
