--------------------------- MODULE SessionsProofs ---------------------------
(***************************************************************************)
(* Theorems about Sessions, for any users, tabs, pages, lifetimes and      *)
(* deployments.                                                            *)
(***************************************************************************)
EXTENDS Sessions, TLAPS

\* c is the session cookie of the browser, of a request under way, or of an
\* answer that has not arrived; likewise f and the flow cookie.
Carried(c) ==
    \/ c = session
    \/ \E t \in Tabs : request[t] # None /\ c = request[t].session
    \/ \E t \in Tabs :
          /\ response[t] # None
          /\ "session" \in DOMAIN response[t].cookies
          /\ c = response[t].cookies.session

FlowCarried(f) ==
    \/ f = flow
    \/ \E t \in Tabs : request[t] # None /\ f = request[t].flow
    \/ \E t \in Tabs :
          /\ response[t] # None
          /\ "flow" \in DOMAIN response[t].cookies
          /\ f = response[t].cookies.flow

\* A nonce belongs to one session, and no session outlives its lifetime from
\* now, or from one request's timeout after the revocation of its user.
SessionInv ==
    /\ \A c \in Session : Carried(c) =>
          /\ c.nonce <= tokens
          /\ c.expires <= clock + SessionDuration
          /\ revoked[c.subject] # None =>
                c.expires <= revoked[c.subject] + SessionDuration + RequestTimeout
    /\ \A c, d \in Session : Carried(c) /\ Carried(d) /\ c.nonce = d.nonce => c = d
    /\ \A u \in Users : revoked[u] # None => revoked[u] <= clock
    /\ \A f \in Flow : FlowCarried(f) => f.state <= tokens

\* Every session with nonce n is user u's.
Proves(n, u) ==
    /\ n \in Nat /\ n <= tokens
    /\ \A c \in Session : Carried(c) /\ c.nonce = n => c.subject = u

\* Every login begun with state n leads back to p.
Leads(n, p) ==
    /\ n \in Nat /\ n <= tokens
    /\ \A f \in Flow : FlowCarried(f) /\ f.state = n => f.returnTo = p

\* The answer's page g is consistent with the page its tab was asked to open.
PageFits(g, wanted) ==
    /\ g.cause = "login" => g.at = "redirect" /\ g.path = wanted
    /\ g.at = "login" => g.path = wanted
    /\ g.at = "provider" => Leads(g.token, wanted)

\* A login under way belongs to its own flow and ends by its deadline, which
\* is at most a timeout from now, and from the revocation of a user whom the
\* provider had admitted before.
LoginFits(r) ==
    r.kind \in {"code", "admitted"} =>
       /\ r.flow \in Flow /\ r.flow.state = r.token
       /\ r.code \in Users
       /\ r.deadline \in Nat /\ r.deadline <= clock + RequestTimeout
       /\ r.kind = "admitted" /\ revoked[r.code] # None =>
             r.deadline <= revoked[r.code] + RequestTimeout

\* The request under way came from what the tab shows.
RequestFits(r, g) ==
    /\ r.kind \in {"get", "start"} => r.path = g.wanted
    /\ r.kind \in {"callback", "code", "admitted"} => Leads(r.token, g.wanted)
    /\ LoginFits(r)
    /\ r.kind \in {"action", "create"} => g.at = "page" /\ r.token = g.token
    /\ r.kind = "logout" => g.wanted = Root

\* One tab: what it shows, its request and its answer.
TabOK(t) ==
    /\ tab[t].at = "page" => Proves(tab[t].token, tab[t].shown)
    /\ tab[t].cause = "login" => tab[t].at = "redirect" /\ tab[t].path = tab[t].wanted
    /\ request[t] # None => response[t] = None /\ RequestFits(request[t], tab[t])
    /\ response[t] # None =>
          response[t].page.at # "page" /\ PageFits(response[t].page, tab[t].wanted)
    /\ quiet(t) => PageFits(tab[t], tab[t].wanted)

Inv == TypeOK /\ SessionInv /\ \A t \in Tabs : TabOK(t)

-----------------------------------------------------------------------------
(* Pages and cookies *)

\* The pages the server answers with are pages.
LEMMA PageTypes ==
    /\ Blank \in Page
    /\ error \in Page
    /\ \A p \in Paths : loginPage(p) \in Page
    /\ \A p \in Paths, c \in {"none", "login"} : redirect(p, c) \in Page
    /\ \A p \in Paths, c \in Session : rendered(p, c) \in Page
    /\ \A n \in Nat : [Blank EXCEPT !.at = "provider", !.token = n] \in Page
BY SessionsAssumption DEF Blank, error, loginPage, redirect, rendered, Page, Session

\* What those pages say.
LEMMA PageFields ==
    /\ Blank.at = "blank" /\ Blank.cause = "none" /\ Blank.path = Root
    /\ error.at = "error" /\ error.cause = "none"
    /\ \A p \in Paths :
          loginPage(p).at = "login" /\ loginPage(p).cause = "none" /\ loginPage(p).path = p
    /\ \A p \in Paths, c \in {"none", "login"} :
          redirect(p, c).at = "redirect" /\ redirect(p, c).path = p
             /\ redirect(p, c).cause = c
    /\ \A p \in Paths, c \in Session :
          /\ rendered(p, c).at = "page" /\ rendered(p, c).cause = "none"
          /\ rendered(p, c).shown = c.subject /\ rendered(p, c).token = c.nonce
    /\ \A n \in Nat :
          LET g == [Blank EXCEPT !.at = "provider", !.token = n]
          IN  g.at = "provider" /\ g.cause = "none" /\ g.token = n
BY SessionsAssumption DEF Blank, error, loginPage, redirect, rendered, Session

\* A page with another wanted says the same otherwise.
LEMMA WithWanted ==
    ASSUME NEW g \in Page, NEW p \in Paths
    PROVE  LET h == [g EXCEPT !.wanted = p] IN
              /\ h \in Page /\ h.wanted = p
              /\ h.at = g.at /\ h.path = g.path /\ h.shown = g.shown
              /\ h.token = g.token /\ h.cause = g.cause
BY DEF Page

\* What a request leaves alone and what it adds.
LEMMA SendEffect ==
    ASSUME TypeOK, NEW t \in Tabs, NEW kind, NEW path, NEW token, NEW code,
           send(t, kind, path, token, code),
           [kind |-> kind, path |-> path, token |-> token, code |-> code,
            session |-> session, flow |-> flow, deadline |-> None] \in Request,
           UNCHANGED <<session, flow, response>>
    PROVE  /\ request' \in [Tabs -> Request \cup {None}]
           /\ quiet(t)
           /\ request'[t] # None
           /\ request'[t].kind = kind /\ request'[t].path = path
           /\ request'[t].token = token
           /\ \A u \in Tabs : u # t => request'[u] = request[u]
           /\ \A c : Carried(c)' => Carried(c)
           /\ \A f : FlowCarried(f)' => FlowCarried(f)
<1> DEFINE r == [kind |-> kind, path |-> path, token |-> token, code |-> code,
                 session |-> session, flow |-> flow, deadline |-> None]
<1>1. request' = [request EXCEPT ![t] = r] /\ quiet(t) BY DEF send
<1>2. request'[t] = r BY <1>1 DEF TypeOK
<1>3. \A u \in Tabs : u # t => request'[u] = request[u] BY <1>1 DEF TypeOK
<1>4. r # None BY SessionsAssumption
<1>5. r.kind = kind /\ r.path = path /\ r.token = token /\ r.session = session
        /\ r.flow = flow
      OBVIOUS
<1>6. \A c : Carried(c)' => Carried(c) BY <1>2, <1>3, <1>5 DEF Carried
<1>7. \A f : FlowCarried(f)' => FlowCarried(f) BY <1>2, <1>3, <1>5 DEF FlowCarried
<1>8. request' \in [Tabs -> Request \cup {None}] BY <1>1 DEF TypeOK
<1> QED BY <1>1, <1>2, <1>3, <1>4, <1>5, <1>6, <1>7, <1>8

\* An answer that sets no cookie.
LEMMA ShowEffect ==
    ASSUME TypeOK, NEW t \in Tabs, NEW g \in Page, show(t, g)
    PROVE  /\ request' \in [Tabs -> Request \cup {None}]
           /\ tab' \in [Tabs -> Page]
           /\ request'[t] = None
           /\ tab'[t].wanted = tab[t].wanted
           /\ tab'[t].at = g.at /\ tab'[t].path = g.path /\ tab'[t].shown = g.shown
           /\ tab'[t].token = g.token /\ tab'[t].cause = g.cause
           /\ \A u \in Tabs : u # t => request'[u] = request[u] /\ tab'[u] = tab[u]
           /\ UNCHANGED <<deployment, clock, who, revoked, session, flow, response>>
           /\ \A c : Carried(c)' => Carried(c)
           /\ \A f : FlowCarried(f)' => FlowCarried(f)
<1> DEFINE h == [g EXCEPT !.wanted = tab[t].wanted]
<1>1. /\ request' = [request EXCEPT ![t] = None]
      /\ tab' = [tab EXCEPT ![t] = h]
      /\ UNCHANGED <<deployment, clock, who, revoked, session, flow, response>>
      BY DEF show, world
<1>2. tab[t].wanted \in Paths BY DEF TypeOK, Page
<1>3. /\ h \in Page /\ h.wanted = tab[t].wanted
      /\ h.at = g.at /\ h.path = g.path /\ h.shown = g.shown
      /\ h.token = g.token /\ h.cause = g.cause
      BY <1>2, WithWanted
<1> HIDE DEF h
<1>4. tab'[t] = h /\ request'[t] = None BY <1>1 DEF TypeOK
<1>5. \A u \in Tabs : u # t => request'[u] = request[u] /\ tab'[u] = tab[u]
      BY <1>1 DEF TypeOK
<1>6. request' \in [Tabs -> Request \cup {None}] /\ tab' \in [Tabs -> Page]
      BY <1>1, <1>3 DEF TypeOK
<1>7. \A c : Carried(c)' => Carried(c) BY <1>1, <1>4, <1>5 DEF Carried
<1>8. \A f : FlowCarried(f)' => FlowCarried(f) BY <1>1, <1>4, <1>5 DEF FlowCarried
<1> QED BY <1>1, <1>3, <1>4, <1>5, <1>6, <1>7, <1>8

\* An answer that sets cookies.
LEMMA RespondEffect ==
    ASSUME TypeOK, NEW t \in Tabs, NEW g \in Page, NEW set \in Cookies,
           respond(t, g, set)
    PROVE  /\ request' \in [Tabs -> Request \cup {None}]
           /\ response' \in [Tabs -> Response \cup {None}]
           /\ request'[t] = None
           /\ response'[t] # None /\ response'[t].page = g
           /\ \A u \in Tabs : u # t => request'[u] = request[u] /\ response'[u] = response[u]
           /\ UNCHANGED <<deployment, clock, who, revoked, session, flow, tab>>
           /\ \A c : Carried(c)' => Carried(c) \/ ("session" \in DOMAIN set /\ c = set.session)
           /\ \A f : FlowCarried(f)' => FlowCarried(f) \/ ("flow" \in DOMAIN set /\ f = set.flow)
<1> DEFINE a == [page |-> g, cookies |-> set]
<1>1. /\ request' = [request EXCEPT ![t] = None]
      /\ response' = [response EXCEPT ![t] = a]
      /\ UNCHANGED <<deployment, clock, who, revoked, session, flow, tab>>
      BY DEF respond, world, browser
<1>2. a \in Response /\ a.page = g /\ a.cookies = set BY DEF Response
<1>3. a # None BY <1>2, SessionsAssumption
<1> HIDE DEF a
<1>4. response'[t] = a /\ request'[t] = None BY <1>1 DEF TypeOK
<1>5. \A u \in Tabs : u # t => request'[u] = request[u] /\ response'[u] = response[u]
      BY <1>1 DEF TypeOK
<1>6. request' \in [Tabs -> Request \cup {None}] /\ response' \in [Tabs -> Response \cup {None}]
      BY <1>1, <1>2 DEF TypeOK
<1>7. \A c : Carried(c)' => Carried(c) \/ ("session" \in DOMAIN set /\ c = set.session)
      BY <1>1, <1>2, <1>4, <1>5 DEF Carried
<1>8. \A f : FlowCarried(f)' => FlowCarried(f) \/ ("flow" \in DOMAIN set /\ f = set.flow)
      BY <1>1, <1>2, <1>4, <1>5 DEF FlowCarried
<1> QED BY <1>1, <1>2, <1>3, <1>4, <1>5, <1>6, <1>7, <1>8

-----------------------------------------------------------------------------
(* What a step may do to the cookies, and what that leaves true *)

\* s is a session issued in this step.
IsNew(s) ==
    /\ tokens' = tokens + 1 /\ s.nonce = tokens + 1
    /\ s.expires = clock + SessionDuration
    /\ revoked[s.subject] # None =>
          s.expires <= revoked[s.subject] + SessionDuration + RequestTimeout
    /\ UNCHANGED <<clock, revoked>>

\* At most one session, with a fresh nonce, comes into being, and at most one
\* flow, with a fresh state; time and revocation only advance.
Frame ==
    /\ tokens' \in {tokens, tokens + 1}
    /\ clock' \in {clock, clock + 1}
    /\ \A u \in Users :
          revoked'[u] = revoked[u] \/ (revoked[u] = None /\ revoked'[u] = clock)
    /\ \/ \A c \in Session : Carried(c)' => Carried(c)
       \/ \E s \in Session :
             IsNew(s) /\ \A c \in Session : Carried(c)' => Carried(c) \/ c = s
    /\ \/ \A f \in Flow : FlowCarried(f)' => FlowCarried(f)
       \/ \E g \in Flow :
             /\ tokens' = tokens + 1 /\ g.state = tokens + 1
             /\ \A f \in Flow : FlowCarried(f)' => FlowCarried(f) \/ f = g

\* Only tab t takes part in the step.
OnlyTab(t) ==
    \A u \in Tabs : u # t =>
       tab'[u] = tab[u] /\ request'[u] = request[u] /\ response'[u] = response[u]

\* A step within the frame preserves what is known of the cookies.
LEMMA FrameSessions == ASSUME TypeOK, SessionInv, Frame PROVE SessionInv'
<1>1. /\ clock \in Nat /\ tokens \in Nat /\ SessionDuration \in Nat
      /\ RequestTimeout \in Nat
      BY SessionsAssumption DEF TypeOK
<1>2. \A c \in Session : c.nonce \in Nat /\ c.expires \in Nat /\ c.subject \in Users
      BY DEF Session
<1>3. \A f \in Flow : f.state \in Nat BY DEF Flow
<1>4. \A u \in Users : revoked[u] \in Nat \cup {None} BY DEF TypeOK
<1>5. None \notin Nat BY SessionsAssumption
<1>6. ASSUME NEW u \in Users, revoked'[u] # None PROVE revoked'[u] <= clock'
      BY <1>1, <1>4, <1>5, <1>6 DEF Frame, SessionInv
<1>7. ASSUME NEW f \in Flow, FlowCarried(f)' PROVE f.state <= tokens'
      BY <1>1, <1>3, <1>7 DEF Frame, SessionInv
<1>8. ASSUME NEW c \in Session, Carried(c)'
      PROVE  /\ c.nonce <= tokens'
             /\ c.expires <= clock' + SessionDuration
             /\ revoked'[c.subject] # None =>
                   c.expires <= revoked'[c.subject] + SessionDuration + RequestTimeout
  <2>1. CASE Carried(c)
        BY <1>1, <1>2, <1>4, <1>5, <2>1 DEF Frame, SessionInv
  <2>2. CASE ~Carried(c)
    <3>1. IsNew(c) BY <1>8, <2>2 DEF Frame
    <3> QED BY <1>1, <1>2, <3>1 DEF IsNew
  <2> QED BY <2>1, <2>2
<1>9. ASSUME NEW c \in Session, NEW d \in Session, Carried(c)', Carried(d)', c.nonce = d.nonce
      PROVE  c = d
  <2>1. CASE \A e \in Session : Carried(e)' => Carried(e)
        BY <1>9, <2>1 DEF SessionInv
  <2>2. ASSUME NEW s \in Session, IsNew(s),
               \A e \in Session : Carried(e)' => Carried(e) \/ e = s
        PROVE  c = d
    <3>1. \A e \in Session : Carried(e) => e.nonce < s.nonce
          BY <1>1, <1>2, <2>2 DEF SessionInv, IsNew
    <3> QED BY <1>2, <1>9, <2>2, <3>1 DEF SessionInv
  <2> QED BY <2>1, <2>2 DEF Frame
<1> QED BY <1>6, <1>7, <1>8, <1>9 DEF SessionInv

\* A nonce that proves a user, and a state that leads to a page, go on to.
LEMMA FrameKeeps ==
    ASSUME TypeOK, Frame
    PROVE  /\ \A n, u : Proves(n, u) => Proves(n, u)'
           /\ \A n, p : Leads(n, p) => Leads(n, p)'
<1>1. tokens \in Nat BY DEF TypeOK
<1>2. ASSUME NEW n, NEW u, Proves(n, u) PROVE Proves(n, u)'
  <2>1. n \in Nat /\ n <= tokens /\ n <= tokens' /\ n # tokens + 1
        BY <1>1, <1>2 DEF Frame, Proves
  <2>2. ASSUME NEW c \in Session, Carried(c)', c.nonce = n PROVE Carried(c)
        BY <2>1, <2>2 DEF Frame, IsNew
  <2> QED BY <1>2, <2>1, <2>2 DEF Proves
<1>3. ASSUME NEW n, NEW p, Leads(n, p) PROVE Leads(n, p)'
  <2>1. n \in Nat /\ n <= tokens /\ n <= tokens' /\ n # tokens + 1
        BY <1>1, <1>3 DEF Frame, Leads
  <2>2. ASSUME NEW f \in Flow, FlowCarried(f)', f.state = n PROVE FlowCarried(f)
        BY <2>1, <2>2 DEF Frame
  <2> QED BY <1>3, <2>1, <2>2 DEF Leads
<1> QED BY <1>2, <1>3

\* A login under way goes on to end by its deadline.
LEMMA FrameLogin ==
    ASSUME TypeOK, Frame, NEW r, LoginFits(r) PROVE LoginFits(r)'
<1>1. clock \in Nat /\ RequestTimeout \in Nat BY SessionsAssumption DEF TypeOK
<1>2. clock' \in {clock, clock + 1} BY DEF Frame
<1> SUFFICES ASSUME r.kind \in {"code", "admitted"} PROVE LoginFits(r)'
    BY DEF LoginFits
<1>3. /\ r.flow \in Flow /\ r.flow.state = r.token
      /\ r.code \in Users
      /\ r.deadline \in Nat /\ r.deadline <= clock + RequestTimeout
      /\ r.kind = "admitted" /\ revoked[r.code] # None =>
            r.deadline <= revoked[r.code] + RequestTimeout
      BY DEF LoginFits
<1>4. \/ revoked'[r.code] = revoked[r.code]
      \/ revoked[r.code] = None /\ revoked'[r.code] = clock
      BY <1>3 DEF Frame
<1>5. r.deadline <= clock' + RequestTimeout BY <1>1, <1>2, <1>3
<1>6. r.kind = "admitted" /\ revoked'[r.code] # None =>
            r.deadline <= revoked'[r.code] + RequestTimeout
      BY <1>3, <1>4
<1> QED BY <1>3, <1>5, <1>6 DEF LoginFits

\* A tab that takes no part in the step stays consistent.
LEMMA OtherTab ==
    ASSUME TypeOK, Frame, NEW u \in Tabs, TabOK(u),
           tab'[u] = tab[u], request'[u] = request[u], response'[u] = response[u]
    PROVE  TabOK(u)'
<1>1. /\ \A n, v : Proves(n, v) => Proves(n, v)'
      /\ \A n, p : Leads(n, p) => Leads(n, p)'
      BY FrameKeeps
<1>2. (tab[u].at = "page" => Proves(tab[u].token, tab[u].shown))'
      BY <1>1 DEF TabOK, Proves
<1>3. (request[u] # None => response[u] = None /\ RequestFits(request[u], tab[u]))'
  <2>1. \A r : LoginFits(r) => LoginFits(r)' BY FrameLogin
  <2>2. request[u] # None => LoginFits(request[u]) BY DEF TabOK, RequestFits
  <2>3. request[u] # None => LoginFits(request[u])' BY <2>1, <2>2 DEF LoginFits
  <2> QED BY <1>1, <2>3 DEF TabOK, RequestFits, Leads
<1>4. (response[u] # None =>
          response[u].page.at # "page" /\ PageFits(response[u].page, tab[u].wanted))'
      BY <1>1 DEF TabOK, PageFits, Leads
<1>5. (quiet(u) => PageFits(tab[u], tab[u].wanted))'
      BY <1>1 DEF TabOK, PageFits, Leads, quiet
<1>6. (tab[u].cause = "login" => tab[u].at = "redirect" /\ tab[u].path = tab[u].wanted)'
      BY DEF TabOK
<1> QED BY <1>2, <1>3, <1>4, <1>5, <1>6 DEF TabOK

\* It is enough to look at the tab that takes part in the step.
LEMMA OneTab ==
    ASSUME Inv, NEW t \in Tabs, TypeOK', Frame, OnlyTab(t), TabOK(t)'
    PROVE  Inv'
<1>1. SessionInv' BY FrameSessions DEF Inv
<1>2. ASSUME NEW u \in Tabs, u # t PROVE TabOK(u)'
      BY <1>2, OtherTab DEF Inv, OnlyTab
<1> QED BY <1>1, <1>2 DEF Inv

-----------------------------------------------------------------------------
(* The browser's steps *)

\* The cookies of the moment make a request.
LEMMA RequestType ==
    ASSUME TypeOK, NEW path \in Paths, NEW token \in Nat \cup {None},
           NEW code \in Users \cup {None},
           NEW kind \in {"get", "start", "callback", "action", "create", "logout"}
    PROVE  [kind |-> kind, path |-> path, token |-> token, code |-> code,
            session |-> session, flow |-> flow, deadline |-> None] \in Request
BY DEF TypeOK, Request

\* A step that draws no random value and adds no cookie, at an unchanged time,
\* is within the frame.
LEMMA QuietFrame ==
    ASSUME UNCHANGED <<clock, revoked, tokens>>,
           \A c : Carried(c)' => Carried(c),
           \A f : FlowCarried(f)' => FlowCarried(f)
    PROVE  Frame
BY DEF Frame

\* A request that leaves what the tab shows as it is.
LEMMA SendFromPage ==
    ASSUME Inv, NEW t \in Tabs,
           NEW path \in Paths, NEW token \in Nat \cup {None},
           NEW code \in Users \cup {None},
           NEW kind \in {"get", "start", "callback", "action", "create", "logout"},
           send(t, kind, path, token, code),
           tab' \in [Tabs -> Page],
           \A u \in Tabs : u # t => tab'[u] = tab[u],
           tab'[t].at = tab[t].at, tab'[t].path = tab[t].path,
           tab'[t].token = tab[t].token, tab'[t].shown = tab[t].shown,
           tab'[t].cause = tab[t].cause,
           tab[t].cause = "login" => tab'[t].wanted = tab[t].path,
           kind \in {"get", "start"} => path = tab'[t].wanted,
           kind = "callback" => Leads(token, tab'[t].wanted),
           kind \in {"action", "create"} => tab[t].at = "page" /\ token = tab[t].token,
           kind = "logout" => tab'[t].wanted = Root,
           UNCHANGED <<deployment, clock, who, revoked, session, flow, tokens, response>>
    PROVE  Inv'
<1>1. TypeOK /\ TabOK(t) BY DEF Inv
<1>2. /\ request' \in [Tabs -> Request \cup {None}]
      /\ quiet(t)
      /\ request'[t] # None
      /\ request'[t].kind = kind /\ request'[t].path = path
      /\ request'[t].token = token
      /\ \A u \in Tabs : u # t => request'[u] = request[u]
      /\ \A c : Carried(c)' => Carried(c)
      /\ \A f : FlowCarried(f)' => FlowCarried(f)
  <2>1. [kind |-> kind, path |-> path, token |-> token, code |-> code,
         session |-> session, flow |-> flow, deadline |-> None] \in Request
        BY <1>1, RequestType
  <2> QED BY <1>1, <2>1, SendEffect
<1>3. Frame BY <1>2, QuietFrame
<1>4. TypeOK' BY <1>1, <1>2 DEF TypeOK
<1>5. OnlyTab(t) BY <1>2 DEF OnlyTab
<1>6. /\ \A n, v : Proves(n, v) => Proves(n, v)'
      /\ \A n, p : Leads(n, p) => Leads(n, p)'
      BY <1>1, <1>3, FrameKeeps
<1>7. TabOK(t)'
  <2>1. (tab[t].at = "page" => Proves(tab[t].token, tab[t].shown))'
    <3>1. PICK n, v : n = tab[t].token /\ v = tab[t].shown OBVIOUS
    <3>2. tab[t].at = "page" => Proves(n, v)' BY <1>1, <1>6, <3>1 DEF TabOK
    <3>3. tab'[t].token = n /\ tab'[t].shown = v BY <3>1
    <3> QED BY <3>2, <3>3 DEF Proves
  <2>2. (tab[t].cause = "login" => tab[t].at = "redirect" /\ tab[t].path = tab[t].wanted)'
        BY <1>1 DEF TabOK
  <2>3. response'[t] = None BY <1>2 DEF quiet
  <2>4. RequestFits(request[t], tab[t])'
        BY <1>2, <1>6 DEF RequestFits, LoginFits, Leads
  <2> QED BY <1>2, <2>1, <2>2, <2>3, <2>4 DEF TabOK, quiet
<1> QED BY <1>3, <1>4, <1>5, <1>7, OneTab

\* Every request the browser can send.
LEMMA BrowserSends ==
    ASSUME Inv, NEW t \in Tabs,
           \/ \E p \in Paths : Open(t, p)
           \/ Follow(t) \/ PressSignIn(t) \/ ProviderReturns(t)
           \/ SubmitAction(t) \/ SubmitCreate(t) \/ SubmitLogout(t)
    PROVE  Inv'
<1> USE DEF world, browser
<1>1. /\ TypeOK /\ TabOK(t) /\ tab \in [Tabs -> Page] /\ who \in Users
      /\ tab[t] \in Page /\ tab[t].path \in Paths /\ tab[t].wanted \in Paths
      /\ tab[t].token \in Nat \cup {None}
      BY DEF Inv, TypeOK, Page
<1>2. Root \in Paths BY SessionsAssumption
<1>3. ASSUME NEW p \in Paths, tab' = [tab EXCEPT ![t].wanted = p]
      PROVE  /\ tab' \in [Tabs -> Page]
             /\ \A u \in Tabs : u # t => tab'[u] = tab[u]
             /\ tab'[t].at = tab[t].at /\ tab'[t].path = tab[t].path
             /\ tab'[t].token = tab[t].token /\ tab'[t].shown = tab[t].shown
             /\ tab'[t].cause = tab[t].cause /\ tab'[t].wanted = p
  <2>1. tab' = [tab EXCEPT ![t] = [tab[t] EXCEPT !.wanted = p]] BY <1>3
  <2>2. tab'[t] = [tab[t] EXCEPT !.wanted = p] BY <1>1, <2>1
  <2>3. /\ tab'[t] \in Page
        /\ tab'[t].at = tab[t].at /\ tab'[t].path = tab[t].path
        /\ tab'[t].token = tab[t].token /\ tab'[t].shown = tab[t].shown
        /\ tab'[t].cause = tab[t].cause /\ tab'[t].wanted = p
        BY <1>1, <2>2, WithWanted
  <2> QED BY <1>1, <2>1, <2>2, <2>3
<1>4. ASSUME tab' = tab
      PROVE  /\ tab' \in [Tabs -> Page]
             /\ \A u \in Tabs : u # t => tab'[u] = tab[u]
             /\ tab'[t] = tab[t]
      BY <1>1, <1>4
<1>5. ASSUME NEW p \in Paths, Open(t, p) PROVE Inv'
  <2>1. tab[t].cause # "login" BY <1>1, <1>5 DEF Open, TabOK
  <2> QED BY <1>1, <1>3, <1>5, <2>1, SendFromPage DEF Open
<1>6. CASE Follow(t) BY <1>1, <1>3, <1>6, SendFromPage DEF Follow
<1>7. CASE PressSignIn(t)
  <2>1. tab[t].path = tab[t].wanted /\ tab[t].cause # "login"
        BY <1>1, <1>7 DEF PressSignIn, send, TabOK, PageFits
  <2> QED BY <1>1, <1>4, <1>7, <2>1, SendFromPage DEF PressSignIn
<1>8. CASE ProviderReturns(t)
  <2>1. Leads(tab[t].token, tab[t].wanted) /\ tab[t].cause # "login"
        BY <1>1, <1>8 DEF ProviderReturns, send, TabOK, PageFits
  <2>2. PICK code \in {who, None} : send(t, "callback", Root, tab[t].token, code)
        BY <1>8 DEF ProviderReturns
  <2>3. code \in Users \cup {None} BY <1>1
  <2>4. /\ tab' = tab
        /\ UNCHANGED <<deployment, clock, who, revoked, session, flow, tokens, response>>
        BY <1>8 DEF ProviderReturns
  <2>5. Leads(tab[t].token, tab'[t].wanted) BY <2>1, <2>4
  <2>6. tab[t].token \in Nat BY <2>1 DEF Leads
  <2> QED BY <1>1, <1>2, <1>4, <2>1, <2>2, <2>3, <2>4, <2>5, <2>6, SendFromPage
<1>9. CASE SubmitAction(t)
  <2>1. tab[t].cause # "login" BY <1>1, <1>9 DEF SubmitAction, TabOK
  <2> QED BY <1>1, <1>4, <1>9, <2>1, SendFromPage DEF SubmitAction
<1>10. CASE SubmitCreate(t)
  <2>1. tab[t].cause # "login" BY <1>1, <1>10 DEF SubmitCreate, TabOK
  <2> QED BY <1>1, <1>4, <1>10, <2>1, SendFromPage DEF SubmitCreate
<1>11. CASE SubmitLogout(t)
  <2>1. tab[t].cause # "login" BY <1>1, <1>11 DEF SubmitLogout, TabOK
  <2> QED BY <1>1, <1>2, <1>3, <1>11, <2>1, SendFromPage DEF SubmitLogout
<1> QED BY <1>5, <1>6, <1>7, <1>8, <1>9, <1>10, <1>11

\* An answer arrives.
LEMMA ReceivesAnswer == ASSUME Inv, NEW t \in Tabs, Receive(t) PROVE Inv'
<1> DEFINE set == response[t].cookies
           g == response[t].page
<1>1. /\ TypeOK /\ TabOK(t) /\ response[t] # None /\ response[t] \in Response
      BY DEF Inv, Receive, TypeOK
<1>2. g \in Page /\ set \in Cookies BY <1>1 DEF Response
<1>3. /\ "session" \in DOMAIN set => set.session \in Session \cup {None}
      /\ "flow" \in DOMAIN set => set.flow \in Flow \cup {None}
      BY <1>2 DEF Cookies
<1>4. request[t] = None BY <1>1 DEF TabOK
<1>5. /\ response' = [response EXCEPT ![t] = None]
      /\ session' = (IF "session" \in DOMAIN set THEN set.session ELSE session)
      /\ flow' = (IF "flow" \in DOMAIN set THEN set.flow ELSE flow)
      /\ tab' = [tab EXCEPT ![t] = [g EXCEPT !.wanted = tab[t].wanted]]
      /\ UNCHANGED <<deployment, clock, who, revoked, tokens, request>>
      BY DEF Receive, world
<1>6. /\ tab'[t] = [g EXCEPT !.wanted = tab[t].wanted]
      /\ response'[t] = None
      /\ OnlyTab(t)
      BY <1>1, <1>5 DEF TypeOK, OnlyTab
<1>7. /\ tab'[t] \in Page /\ tab'[t].wanted = tab[t].wanted
      /\ tab'[t].at = g.at /\ tab'[t].path = g.path /\ tab'[t].shown = g.shown
      /\ tab'[t].token = g.token /\ tab'[t].cause = g.cause
  <2>1. tab[t].wanted \in Paths BY <1>1 DEF TypeOK, Page
  <2> QED BY <1>2, <1>6, <2>1, WithWanted
<1>8. TypeOK' BY <1>1, <1>3, <1>5, <1>7 DEF TypeOK
<1>9. \A c : Carried(c)' => Carried(c) BY <1>1, <1>5, <1>6 DEF Carried, OnlyTab
<1>10. \A f : FlowCarried(f)' => FlowCarried(f)
       BY <1>1, <1>5, <1>6 DEF FlowCarried, OnlyTab
<1>11. Frame BY <1>5, <1>9, <1>10, QuietFrame
<1>12. \A n, p : Leads(n, p) => Leads(n, p)' BY <1>1, <1>11, FrameKeeps
<1>13. TabOK(t)'
  <2>1. g.at # "page" /\ PageFits(g, tab[t].wanted) BY <1>1 DEF TabOK
  <2>2. PageFits(tab[t], tab[t].wanted)' BY <1>7, <1>12, <2>1 DEF PageFits, Leads
  <2>3. request'[t] = None BY <1>4, <1>5
  <2>4. tab'[t].at # "page" BY <1>7, <2>1
  <2> QED BY <1>6, <2>2, <2>3, <2>4 DEF TabOK, PageFits
<1> QED BY <1>6, <1>8, <1>11, <1>13, OneTab

-----------------------------------------------------------------------------
(* The server's steps *)

\* The cookies of a request are carried, and a session's nonce proves its user.
LEMMA RequestCookies ==
    ASSUME Inv, NEW t \in Tabs, request[t] # None
    PROVE  /\ request[t] \in Request /\ request[t].path \in Paths
           /\ request[t].code \in Users \cup {None}
           /\ request[t].session \in Session \cup {None}
           /\ request[t].flow \in Flow \cup {None}
           /\ request[t].session \in Session =>
                 /\ Carried(request[t].session)
                 /\ request[t].session.subject \in Users
                 /\ Proves(request[t].session.nonce, request[t].session.subject)
           /\ FlowCarried(request[t].flow)
           /\ response[t] = None
           /\ RequestFits(request[t], tab[t])
<1>1. request[t] \in Request BY DEF Inv, TypeOK
<1>2. /\ request[t].session \in Session \cup {None}
      /\ request[t].flow \in Flow \cup {None}
      /\ request[t].path \in Paths /\ request[t].code \in Users \cup {None}
      BY <1>1 DEF Request
<1>3. Carried(request[t].session) /\ FlowCarried(request[t].flow)
      BY DEF Carried, FlowCarried
<1>4. ASSUME NEW c \in Session, Carried(c)
      PROVE  Proves(c.nonce, c.subject) /\ c.subject \in Users
      BY <1>4 DEF Inv, SessionInv, Proves, Session
<1>5. response[t] = None /\ RequestFits(request[t], tab[t]) BY DEF Inv, TabOK
<1> QED BY <1>1, <1>2, <1>3, <1>4, <1>5

\* An answer without cookies keeps the invariant when its page is true.
LEMMA ShowsPage ==
    ASSUME Inv, NEW t \in Tabs, request[t] # None, NEW g \in Page, show(t, g),
           UNCHANGED tokens,
           g.at # "provider", g.cause = "none",
           g.at = "login" => g.path = tab[t].wanted,
           g.at = "page" => Proves(g.token, g.shown)
    PROVE  Inv'
<1>1. TypeOK /\ TabOK(t) BY DEF Inv
<1>2. /\ request' \in [Tabs -> Request \cup {None}]
      /\ tab' \in [Tabs -> Page]
      /\ request'[t] = None
      /\ tab'[t].wanted = tab[t].wanted
      /\ tab'[t].at = g.at /\ tab'[t].path = g.path /\ tab'[t].shown = g.shown
      /\ tab'[t].token = g.token /\ tab'[t].cause = g.cause
      /\ \A u \in Tabs : u # t => request'[u] = request[u] /\ tab'[u] = tab[u]
      /\ UNCHANGED <<deployment, clock, who, revoked, session, flow, response>>
      /\ \A c : Carried(c)' => Carried(c)
      /\ \A f : FlowCarried(f)' => FlowCarried(f)
      BY <1>1, ShowEffect
<1>3. TypeOK' BY <1>1, <1>2 DEF TypeOK
<1>4. Frame BY <1>2, QuietFrame
<1>5. OnlyTab(t) BY <1>2 DEF OnlyTab
<1>6. \A n, v : Proves(n, v) => Proves(n, v)' BY <1>1, <1>4, FrameKeeps
<1>7. TabOK(t)'
  <2>1. (tab[t].at = "page" => Proves(tab[t].token, tab[t].shown))'
    <3>1. PICK n, v : n = g.token /\ v = g.shown OBVIOUS
    <3>2. g.at = "page" => Proves(n, v)' BY <1>6, <3>1
    <3> QED BY <1>2, <3>1, <3>2 DEF Proves
  <2>2. tab'[t].cause # "login" BY <1>2
  <2>3. response'[t] = None BY <1>1, <1>2 DEF TabOK
  <2>4. PageFits(tab[t], tab[t].wanted)' BY <1>2, <2>2 DEF PageFits
  <2> QED BY <1>2, <2>1, <2>2, <2>3, <2>4 DEF TabOK
<1> QED BY <1>3, <1>4, <1>5, <1>7, OneTab

\* An answer with cookies keeps the invariant when the cookies are within the
\* frame and the page leads where the tab wants.
LEMMA AnswersPage ==
    ASSUME Inv, NEW t \in Tabs, NEW g \in Page, NEW set \in Cookies,
           respond(t, g, set), Frame, tokens' \in Nat,
           g.at # "page",
           PageFits(g, tab[t].wanted)'
    PROVE  Inv'
<1>1. TypeOK /\ TabOK(t) BY DEF Inv
<1>2. /\ request' \in [Tabs -> Request \cup {None}]
      /\ response' \in [Tabs -> Response \cup {None}]
      /\ request'[t] = None
      /\ response'[t] # None /\ response'[t].page = g
      /\ \A u \in Tabs : u # t => request'[u] = request[u] /\ response'[u] = response[u]
      /\ UNCHANGED <<deployment, clock, who, revoked, session, flow, tab>>
      BY <1>1, RespondEffect
<1>3. TypeOK' BY <1>1, <1>2 DEF TypeOK
<1>4. OnlyTab(t) BY <1>2 DEF OnlyTab
<1>5. \A n, v : Proves(n, v) => Proves(n, v)' BY <1>1, FrameKeeps
<1>6. TabOK(t)'
  <2>1. (tab[t].at = "page" => Proves(tab[t].token, tab[t].shown))'
    <3>1. PICK n, v : n = tab[t].token /\ v = tab[t].shown OBVIOUS
    <3>2. tab[t].at = "page" => Proves(n, v)' BY <1>1, <1>5, <3>1 DEF TabOK
    <3> QED BY <1>2, <3>1, <3>2 DEF Proves
  <2>2. (tab[t].cause = "login" => tab[t].at = "redirect" /\ tab[t].path = tab[t].wanted)'
        BY <1>1, <1>2 DEF TabOK
  <2>3. PageFits(response[t].page, tab[t].wanted)' BY <1>2 DEF PageFits, Leads
  <2> QED BY <1>2, <2>1, <2>2, <2>3 DEF TabOK, quiet
<1> QED BY <1>3, <1>4, <1>6, OneTab

\* A page rendered for the session of a request shows that session's user.
LEMMA RendersPage ==
    ASSUME Inv, NEW t \in Tabs, request[t] # None, request[t].session # None,
           show(t, rendered(request[t].path, request[t].session)), UNCHANGED tokens
    PROVE  Inv'
<1>1. request[t].path \in Paths /\ request[t].session \in Session
      BY RequestCookies
<1>2. PICK p \in Paths, c \in Session : p = request[t].path /\ c = request[t].session
      BY <1>1
<1>3. Proves(c.nonce, c.subject) BY <1>2, RequestCookies
<1>4. /\ rendered(p, c) \in Page /\ rendered(p, c).at = "page"
      /\ rendered(p, c).cause = "none"
      /\ rendered(p, c).shown = c.subject /\ rendered(p, c).token = c.nonce
      BY PageTypes, PageFields
<1>5. show(t, rendered(p, c)) BY <1>2
<1> HIDE DEF rendered
<1> QED BY <1>3, <1>4, <1>5, ShowsPage

LEMMA ShowsError ==
    ASSUME Inv, NEW t \in Tabs, request[t] # None, show(t, error), UNCHANGED tokens
    PROVE  Inv'
BY ShowsPage, PageTypes, PageFields

\* The server's answers that set no cookie.
LEMMA ServerShows ==
    ASSUME Inv, NEW t \in Tabs, GetPage(t) \/ Action(t) \/ CreateEvent(t)
    PROVE  Inv'
<1>1. request[t] # None /\ UNCHANGED tokens BY DEF GetPage, Action, CreateEvent
<1>2. request[t].path \in Paths /\ RequestFits(request[t], tab[t])
      BY <1>1, RequestCookies
<1>3. ASSUME requireHumanAuth(request[t].session) PROVE request[t].session # None
      BY <1>3 DEF requireHumanAuth, ReadHumanSession
<1>4. ASSUME NEW p \in Paths, show(t, redirect(p, "none")) PROVE Inv'
  <2>1. /\ redirect(p, "none") \in Page /\ redirect(p, "none").at = "redirect"
        /\ redirect(p, "none").cause = "none"
        BY PageTypes, PageFields
  <2> QED BY <1>1, <1>4, <2>1, ShowsPage
<1>5. ASSUME refuse(t) PROVE Inv'
      BY <1>1, <1>3, <1>5, ShowsError, RendersPage DEF refuse, accepted
<1>6. CASE GetPage(t)
  <2>1. CASE requireHumanAuth(request[t].session)
        BY <1>1, <1>3, <1>6, <2>1, ShowsError, RendersPage DEF GetPage
  <2>2. CASE ~requireHumanAuth(request[t].session)
    <3>1. PICK p \in Paths : p = request[t].path BY <1>2
    <3>2. show(t, loginPage(p)) BY <1>6, <2>2, <3>1 DEF GetPage
    <3>3. p = tab[t].wanted BY <1>2, <1>6, <3>1 DEF GetPage, RequestFits
    <3>4. /\ loginPage(p) \in Page /\ loginPage(p).at = "login"
          /\ loginPage(p).cause = "none" /\ loginPage(p).path = p
          BY PageTypes, PageFields
    <3> QED BY <1>1, <3>2, <3>3, <3>4, ShowsPage
  <2> QED BY <2>1, <2>2
<1>7. CASE Action(t)
      BY <1>4, <1>5, <1>7, SessionsAssumption DEF Action, redirectAfterAction
<1>8. CASE CreateEvent(t) BY <1>4, <1>5, <1>8 DEF CreateEvent
<1> QED BY <1>6, <1>7, <1>8

\* A new session, for a user the policy allows or allowed at most a request's
\* timeout ago, is within the frame.
LEMMA LoginFrame ==
    ASSUME TypeOK, NEW t \in Tabs, NEW g \in Page, NEW u \in Users,
           revoked[u] # None => clock <= revoked[u] + RequestTimeout,
           NEW set \in Cookies, respond(t, g, set), tokens' = tokens + 1,
           DOMAIN set \subseteq {"session", "flow"},
           "session" \in DOMAIN set, set.session = newSession(u),
           "flow" \in DOMAIN set => set.flow = None
    PROVE  Frame
<1>1. /\ UNCHANGED <<deployment, clock, who, revoked, session, flow, tab>>
      /\ \A c : Carried(c)' => Carried(c) \/ c = newSession(u)
      /\ \A f : FlowCarried(f)' => FlowCarried(f) \/ f = None
      BY RespondEffect
<1>2. newSession(u) \in Session
      BY SessionsAssumption DEF newSession, Session, TypeOK
<1>3. IsNew(newSession(u))
  <2>1. /\ clock \in Nat /\ SessionDuration \in Nat /\ RequestTimeout \in Nat
        /\ revoked[u] \in Nat \cup {None}
        BY SessionsAssumption DEF TypeOK
  <2>2. /\ newSession(u).nonce = tokens + 1 /\ newSession(u).subject = u
        /\ newSession(u).expires = clock + SessionDuration
        BY DEF newSession
  <2>3. revoked[u] # None =>
           clock + SessionDuration <= revoked[u] + SessionDuration + RequestTimeout
        BY <2>1
  <2> QED BY <1>1, <2>2, <2>3 DEF IsNew
<1>4. None \notin Flow BY SessionsAssumption
<1> QED BY <1>1, <1>2, <1>3, <1>4 DEF Frame

\* A login goes on: the request stays under way, with the cookies it came with.
LEMMA LoginGoesOn ==
    ASSUME Inv, NEW t \in Tabs, request[t] # None, NEW q \in Request,
           request' = [request EXCEPT ![t] = q],
           q.session = request[t].session, q.flow = request[t].flow,
           q.kind \in {"code", "admitted"},
           LoginFits(q)', Leads(q.token, tab[t].wanted),
           UNCHANGED <<deployment, clock, who, revoked, session, flow, tab, tokens, response>>
    PROVE  Inv'
<1>1. TypeOK /\ TabOK(t) BY DEF Inv
<1>2. q # None BY SessionsAssumption
<1>3. request'[t] = q /\ OnlyTab(t) BY <1>1 DEF TypeOK, OnlyTab
<1>4. \A c : Carried(c)' => Carried(c) BY <1>3 DEF Carried, OnlyTab
<1>5. \A f : FlowCarried(f)' => FlowCarried(f) BY <1>3 DEF FlowCarried, OnlyTab
<1>6. Frame BY <1>4, <1>5, QuietFrame
<1>7. TypeOK' BY <1>1 DEF TypeOK
<1>8. /\ \A n, v : Proves(n, v) => Proves(n, v)'
      /\ \A n, p : Leads(n, p) => Leads(n, p)'
      BY <1>1, <1>6, FrameKeeps
<1>9. TabOK(t)'
  <2>1. (tab[t].at = "page" => Proves(tab[t].token, tab[t].shown))'
        BY <1>1, <1>8 DEF TabOK, Proves
  <2>2. (tab[t].cause = "login" => tab[t].at = "redirect" /\ tab[t].path = tab[t].wanted)'
        BY <1>1 DEF TabOK
  <2>3. RequestFits(request[t], tab[t])'
    <3>1. Leads(q.token, tab[t].wanted)' BY <1>8 DEF Leads
    <3> QED BY <1>3, <3>1 DEF RequestFits, LoginFits, Leads
  <2>4. response'[t] = None BY <1>1 DEF TabOK
  <2> QED BY <1>2, <1>3, <2>1, <2>2, <2>3, <2>4 DEF TabOK, quiet
<1> QED BY <1>3, <1>6, <1>7, <1>9, OneTab

\* The answers that set cookies and the steps of a login: a login begun, ended or refused, and a logout.
LEMMA ServerAnswers ==
    ASSUME Inv, NEW t \in Tabs,
           \/ StartOAuth(t) \/ StartBeyond(t) \/ Logout(t)
           \/ Callback(t) \/ Authenticate(t) \/ SetHumanSessionCookie(t)
    PROVE  Inv'
<1> DEFINE r == request[t]
<1>1. /\ TypeOK /\ SessionInv /\ tokens \in Nat /\ tokens + 1 \in Nat /\ clock \in Nat
      /\ who \in Users /\ FlowLifetime \in Nat /\ Root \in Paths
      BY SessionsAssumption DEF Inv, TypeOK
<1>2. r # None
      BY DEF StartOAuth, StartBeyond, Callback, Authenticate, SetHumanSessionCookie, Logout
<1>3. /\ r \in Request /\ r.path \in Paths /\ r.code \in Users \cup {None}
      /\ r.flow \in Flow \cup {None} /\ FlowCarried(r.flow)
      /\ RequestFits(r, tab[t])
      BY <1>2, RequestCookies
<1>4. ASSUME NEW p \in Paths, p = tab[t].wanted, UNCHANGED tab
      PROVE  PageFits(redirect(p, "login"), tab[t].wanted)'
      BY <1>4, PageFields DEF PageFits
<1>5. ASSUME UNCHANGED tab PROVE PageFits(error, tab[t].wanted)'
      BY PageFields DEF PageFits
<1>6. \A p \in Paths : redirect(p, "login") \in Page /\ redirect(p, "login").at # "page"
      BY PageTypes, PageFields
<1>7. \A u \in Users : newSession(u) \in Session
      BY <1>1, SessionsAssumption DEF newSession, Session
<1>8. CASE StartOAuth(t)
  <2> DEFINE f == [state |-> tokens + 1, returnTo |-> r.path,
                   expires |-> clock + FlowLifetime]
             set == [flow |-> f]
  <2>1. PICK n \in Nat, g \in Page :
           /\ n = tokens + 1 /\ g = [Blank EXCEPT !.at = "provider", !.token = tokens + 1]
           /\ g.at = "provider" /\ g.cause = "none" /\ g.token = n
    <3> DEFINE h == [Blank EXCEPT !.at = "provider", !.token = tokens + 1]
    <3>1. h \in Page /\ h.at = "provider" /\ h.cause = "none" /\ h.token = tokens + 1
          BY <1>1 DEF Blank, Page
    <3> QED BY <1>1, <3>1, Zenon
  <2>2. respond(t, g, set) /\ tokens' = n /\ r.kind = "start"
        BY <1>8, <2>1 DEF StartOAuth, draw
  <2>3. /\ f \in Flow /\ f.state = n /\ f.returnTo = r.path
        BY <1>1, <1>3, <2>1 DEF Flow
  <2>4. /\ set \in Cookies /\ "session" \notin DOMAIN set /\ set.flow = f
        BY <2>3 DEF Cookies
  <2> HIDE DEF f, set
  <2>5. /\ UNCHANGED <<deployment, clock, who, revoked, session, flow, tab>>
        /\ \A c : Carried(c)' => Carried(c)
        /\ \A e : FlowCarried(e)' => FlowCarried(e) \/ e = f
        BY <1>1, <2>2, <2>4, RespondEffect
  <2>6. Frame BY <2>1, <2>2, <2>3, <2>5 DEF Frame
  <2>7. r.path = tab[t].wanted BY <1>3, <2>2 DEF RequestFits
  <2>8. \A e \in Flow : FlowCarried(e)' /\ e.state = n => e.returnTo = r.path
    <3>1. \A e \in Flow : FlowCarried(e) => e.state # n
          BY <1>1, <2>1 DEF SessionInv, Flow
    <3> QED BY <2>3, <2>5, <3>1
  <2>9. PageFits(g, tab[t].wanted)'
        BY <2>1, <2>2, <2>5, <2>7, <2>8 DEF PageFits, Leads
  <2> QED BY <2>1, <2>2, <2>4, <2>6, <2>9, AnswersPage
<1>9. CASE StartBeyond(t)
  <2>1. CASE AuthenticateRequest
    <3> DEFINE set == [session |-> newSession(who)]
    <3>1. /\ respond(t, redirect(r.path, "login"), set)
          /\ tokens' = tokens + 1 /\ r.kind = "start"
          BY <1>9, <2>1 DEF StartBeyond, draw
    <3>2. /\ set \in Cookies /\ DOMAIN set = {"session"}
          /\ set.session = newSession(who)
          BY <1>1, <1>7 DEF Cookies
    <3> HIDE DEF set
    <3>3. PICK p \in Paths : p = r.path BY <1>3
    <3>4. p = tab[t].wanted BY <1>3, <3>1, <3>3 DEF RequestFits
    <3>5. UNCHANGED tab BY <3>1 DEF respond, browser
    <3>6. revoked[who] = None BY <2>1 DEF AuthenticateRequest, allowed
    <3>7. Frame BY <1>1, <1>6, <3>1, <3>2, <3>3, <3>6, LoginFrame
    <3> QED BY <1>1, <1>4, <1>6, <3>1, <3>2, <3>3, <3>4, <3>5, <3>7, AnswersPage
  <2>2. CASE ~AuthenticateRequest
        BY <1>2, <1>9, <2>2, ShowsError DEF StartBeyond
  <2> QED BY <2>1, <2>2
<1>10. ASSUME failLogin(t) PROVE Inv'
  <2> DEFINE set == [flow |-> None]
  <2>1. /\ set \in Cookies /\ "session" \notin DOMAIN set /\ set.flow = None
        BY DEF Cookies
  <2>2. respond(t, error, set) /\ tokens' = tokens BY <1>10 DEF failLogin
  <2> HIDE DEF set
  <2>3. error \in Page /\ error.at # "page" BY PageTypes, PageFields
  <2>4. Frame
    <3>1. /\ UNCHANGED <<deployment, clock, who, revoked, session, flow, tab>>
          /\ \A c : Carried(c)' => Carried(c)
          /\ \A f : FlowCarried(f)' => FlowCarried(f) \/ f = None
          BY <1>1, <2>1, <2>2, <2>3, RespondEffect
    <3>2. None \notin Flow BY SessionsAssumption
    <3> QED BY <2>2, <3>1, <3>2 DEF Frame
  <2>5. UNCHANGED tab BY <2>2 DEF respond, browser
  <2> QED BY <1>1, <1>5, <2>1, <2>2, <2>3, <2>4, <2>5, AnswersPage
<1>11. CASE Callback(t)
  <2>1. r.kind = "callback" /\ Leads(r.token, tab[t].wanted)
        BY <1>3, <1>11 DEF Callback, RequestFits
  <2>2. CASE readOAuthFlow(r.flow, r.token) /\ r.code # None
    <3>0. PICK d, q : /\ d = clock + RequestTimeout
                      /\ q = [r EXCEPT !.kind = "code", !.deadline = d]
          OBVIOUS
    <3>1. /\ request' = [request EXCEPT ![t] = q]
          /\ UNCHANGED <<deployment, clock, who, revoked, session, flow, tab, tokens, response>>
          BY <1>11, <2>2, <3>0 DEF Callback, world, browser
    <3>2. d \in Nat BY <1>1, <3>0, SessionsAssumption
    <3>3. /\ q \in Request /\ q.kind = "code" /\ q.deadline = d
          /\ q.session = r.session /\ q.flow = r.flow /\ q.token = r.token /\ q.code = r.code
      <4>1. r \in Request BY <1>3
      <4> HIDE DEF r
      <4> QED BY <3>0, <3>2, <4>1 DEF Request
    <3>4. r.flow \in Flow /\ r.flow.state = r.token /\ r.code \in Users
          BY <1>3, <2>2 DEF readOAuthFlow
    <3>5. LoginFits(q)' BY <3>0, <3>1, <3>2, <3>3, <3>4 DEF LoginFits
    <3>6. Leads(q.token, tab[t].wanted) BY <2>1, <3>3
    <3> QED BY <1>2, <3>1, <3>3, <3>5, <3>6, LoginGoesOn
  <2>3. CASE ~(readOAuthFlow(r.flow, r.token) /\ r.code # None)
        BY <1>10, <1>11, <2>3 DEF Callback
  <2> QED BY <2>2, <2>3
<1>12. CASE Authenticate(t)
  <2>1. r.kind = "code" /\ Leads(r.token, tab[t].wanted) /\ LoginFits(r)
        BY <1>3, <1>12 DEF Authenticate, RequestFits
  <2>2. CASE /\ allowed(r.code)
             /\ request' = [request EXCEPT ![t] = [r EXCEPT !.kind = "admitted"]]
             /\ UNCHANGED <<world, browser, tokens, response>>
    <3>0. PICK q : q = [r EXCEPT !.kind = "admitted"] OBVIOUS
    <3>1. /\ request' = [request EXCEPT ![t] = q]
          /\ UNCHANGED <<deployment, clock, who, revoked, session, flow, tab, tokens, response>>
          BY <2>2, <3>0 DEF world, browser
    <3>2. /\ q \in Request /\ q.kind = "admitted" /\ q.deadline = r.deadline
          /\ q.session = r.session /\ q.flow = r.flow /\ q.token = r.token /\ q.code = r.code
      <4>1. r \in Request BY <1>3
      <4> HIDE DEF r
      <4> QED BY <3>0, <4>1 DEF Request
    <3>3. LoginFits(q)' BY <2>1, <2>2, <3>1, <3>2 DEF LoginFits, allowed
    <3>4. Leads(q.token, tab[t].wanted) BY <2>1, <3>2
    <3> QED BY <1>2, <3>1, <3>2, <3>3, <3>4, LoginGoesOn
  <2> QED BY <1>10, <1>12, <2>2 DEF Authenticate
<1>13. CASE SetHumanSessionCookie(t)
  <2>1. r.kind = "admitted" /\ Leads(r.token, tab[t].wanted) /\ LoginFits(r)
        BY <1>3, <1>13 DEF SetHumanSessionCookie, RequestFits
  <2>2. CASE /\ clock <= r.deadline
             /\ draw
             /\ respond(t, redirect(r.flow.returnTo, "login"),
                        [session |-> newSession(r.code), flow |-> None])
    <3> DEFINE set == [session |-> newSession(r.code), flow |-> None]
    <3>1. /\ r.flow \in Flow /\ r.flow.state = r.token /\ r.code \in Users
          /\ revoked[r.code] # None => clock <= revoked[r.code] + RequestTimeout
      <4>1. /\ r.flow \in Flow /\ r.flow.state = r.token /\ r.code \in Users
            /\ r.deadline \in Nat
            /\ revoked[r.code] # None => r.deadline <= revoked[r.code] + RequestTimeout
            BY <2>1 DEF LoginFits
      <4>2. revoked[r.code] \in Nat \cup {None} /\ RequestTimeout \in Nat
            BY <1>1, <4>1, SessionsAssumption DEF TypeOK
      <4> QED BY <1>1, <2>2, <4>1, <4>2
    <3>2. r.flow.returnTo = tab[t].wanted /\ r.flow.returnTo \in Paths
          BY <1>3, <2>1, <3>1 DEF Leads, Flow
    <3>3. /\ set \in Cookies /\ DOMAIN set = {"session", "flow"}
          /\ set.session = newSession(r.code) /\ set.flow = None
          BY <1>7, <3>1 DEF Cookies
    <3>4. PICK p \in Paths : p = r.flow.returnTo /\ p = tab[t].wanted BY <3>2
    <3>5. respond(t, redirect(p, "login"), set) /\ tokens' = tokens + 1
          BY <2>2, <3>4 DEF draw
    <3> HIDE DEF set
    <3>6. UNCHANGED tab BY <3>5 DEF respond, browser
    <3>7. Frame BY <1>1, <1>6, <3>1, <3>3, <3>5, LoginFrame
    <3> QED BY <1>1, <1>4, <1>6, <3>3, <3>4, <3>5, <3>6, <3>7, AnswersPage
  <2> QED BY <1>10, <1>13, <2>2 DEF SetHumanSessionCookie
<1>14. CASE Logout(t)
  <2>1. CASE ReadHumanSession(r.session) /\ ValidateCSRFToken(r.session, r.token)
    <3> DEFINE set == [session |-> None]
    <3>1. /\ set \in Cookies /\ "flow" \notin DOMAIN set /\ set.session = None
          BY DEF Cookies
    <3>2. respond(t, loginPage(Root), set) /\ tokens' = tokens
          BY <1>14, <2>1 DEF Logout
    <3> HIDE DEF set
    <3>3. /\ loginPage(Root) \in Page /\ loginPage(Root).at = "login"
          /\ loginPage(Root).cause = "none" /\ loginPage(Root).path = Root
          BY <1>1, PageTypes, PageFields
    <3>4. Frame
      <4>1. /\ UNCHANGED <<deployment, clock, who, revoked, session, flow, tab>>
            /\ \A c : Carried(c)' => Carried(c) \/ c = None
            /\ \A f : FlowCarried(f)' => FlowCarried(f)
            BY <1>1, <3>1, <3>2, <3>3, RespondEffect
      <4>2. None \notin Session BY SessionsAssumption
      <4> QED BY <3>2, <4>1, <4>2 DEF Frame
    <3>5. UNCHANGED tab BY <3>2 DEF respond, browser
    <3>6. tab[t].wanted = Root BY <1>3, <1>14 DEF Logout, RequestFits
    <3>7. PageFits(loginPage(Root), tab[t].wanted)' BY <3>3, <3>5, <3>6 DEF PageFits
    <3> QED BY <1>1, <3>1, <3>2, <3>3, <3>4, <3>7, AnswersPage
  <2>2. CASE ~(ReadHumanSession(r.session) /\ ValidateCSRFToken(r.session, r.token))
        BY <1>2, <1>14, <2>2, ShowsError DEF Logout
  <2> QED BY <2>1, <2>2
<1> QED BY <1>8, <1>9, <1>11, <1>12, <1>13, <1>14

-----------------------------------------------------------------------------
(* The theorems *)

\* Time, another user at the provider, and a revocation leave the tabs alone.
LEMMA WorldSteps ==
    ASSUME Inv, Tick \/ SwitchUser \/ (\E u \in Users : Revoke(u)) \/ UNCHANGED vars
    PROVE  Inv'
<1>1. TypeOK /\ SessionInv BY DEF Inv
<1>2. UNCHANGED <<deployment, session, flow, tokens, tab, request, response>>
      BY DEF Tick, SwitchUser, Revoke, vars, browser
<1>3. TypeOK' BY <1>1 DEF TypeOK, Tick, SwitchUser, Revoke, vars, browser
<1>4. /\ \A c : Carried(c)' => Carried(c)
      /\ \A f : FlowCarried(f)' => FlowCarried(f)
      BY <1>2 DEF Carried, FlowCarried
<1>5. Frame
  <2>1. clock' \in {clock, clock + 1} BY DEF Tick, SwitchUser, Revoke, vars
  <2>2. \A u \in Users :
           revoked'[u] = revoked[u] \/ (revoked[u] = None /\ revoked'[u] = clock)
        BY <1>1 DEF TypeOK, Tick, SwitchUser, Revoke, vars, allowed
  <2> QED BY <1>2, <1>4, <2>1, <2>2 DEF Frame
<1>6. SessionInv' BY <1>1, <1>5, FrameSessions
<1>7. \A u \in Tabs : TabOK(u)'
  <2>1. ASSUME NEW u \in Tabs PROVE TabOK(u)'
        BY <1>1, <1>2, <1>5, OtherTab DEF Inv
  <2> QED BY <2>1
<1> QED BY <1>3, <1>6, <1>7 DEF Inv

LEMMA InitInv == Init => Inv
<1> SUFFICES ASSUME Init PROVE Inv OBVIOUS
<1>1. TypeOK
      BY PageTypes, SessionsAssumption DEF Init, TypeOK
<1>2. /\ \A c : Carried(c) => c = None
      /\ \A f : FlowCarried(f) => f = None
      BY DEF Init, Carried, FlowCarried
<1>3. None \notin Session /\ None \notin Flow BY SessionsAssumption
<1>4. SessionInv BY <1>2, <1>3 DEF Init, SessionInv
<1>5. ASSUME NEW t \in Tabs PROVE TabOK(t)
  <2>1. tab[t] = Blank /\ request[t] = None /\ response[t] = None BY DEF Init
  <2> QED BY <2>1, PageFields DEF TabOK, PageFits
<1> QED BY <1>1, <1>4, <1>5 DEF Inv

LEMMA StepInv == Inv /\ [Next]_vars => Inv'
<1> SUFFICES ASSUME Inv, [Next]_vars PROVE Inv' OBVIOUS
<1> QED BY BrowserSends, ReceivesAnswer, ServerShows, ServerAnswers, WorldSteps DEF Next

\* The invariant of every reachable state.
LEMMA Invariant == Spec => []Inv
BY InitInv, StepInv, PTL DEF Spec

\* The types of every reachable state.
THEOREM TypeCorrect == Spec => []TypeOK
BY Invariant, PTL DEF Inv

\* What accepted's request says about its session.
LEMMA AcceptedSession ==
    ASSUME Inv, NEW t \in Tabs, request[t] # None,
           request[t].kind \in {"action", "create"}, accepted(request[t])
    PROVE  LET c == request[t].session IN
              /\ c \in Session /\ Carried(c) /\ c.subject \in Users
              /\ c.subject = tab[t].shown
              /\ clock < c.expires
              /\ Beyond => allowed(who) /\ who = c.subject
<1> DEFINE r == request[t]
           c == r.session
<1>1. /\ c # None /\ clock < c.expires
      /\ Beyond => allowed(who) /\ who = c.subject
      /\ r.token = c.nonce
      BY DEF accepted, requireHumanAuth, ReadHumanSession, ValidateCSRFToken,
             AuthenticateRequest
<1>2. c \in Session /\ Carried(c) /\ c.subject \in Users /\ RequestFits(r, tab[t])
      BY <1>1, RequestCookies
<1>3. tab[t].at = "page" /\ r.token = tab[t].token BY <1>2 DEF RequestFits
<1>4. Proves(tab[t].token, tab[t].shown) BY <1>3 DEF Inv, TabOK
<1>5. c.subject = tab[t].shown BY <1>1, <1>2, <1>3, <1>4 DEF Proves
<1> QED BY <1>1, <1>2, <1>5

\* What a step writes, it writes for such a session.
LEMMA Writes ==
    ASSUME Inv, Next, write' # None
    PROVE  /\ UNCHANGED <<deployment, clock, who, revoked>>
           /\ \E t \in Tabs :
                 /\ request[t] # None
                 /\ request[t].kind \in {"action", "create"}
                 /\ accepted(request[t])
                 /\ write' = [by |-> request[t].session.subject, shown |-> tab[t].shown]
<1>1. \E t \in Tabs : Action(t) \/ CreateEvent(t)
      BY Zenon DEF Next, Open, Follow, PressSignIn, ProviderReturns, SubmitAction,
         SubmitCreate, SubmitLogout, Receive, GetPage, StartOAuth, StartBeyond, Callback,
         Authenticate, SetHumanSessionCookie, failLogin, Logout, Tick, SwitchUser, Revoke
<1>2. PICK t \in Tabs : Action(t) \/ CreateEvent(t) BY <1>1
<1>3. /\ request[t] # None /\ request[t].kind \in {"action", "create"}
      /\ accepted(request[t]) /\ record(t)
      BY <1>2 DEF Action, CreateEvent, refuse
<1>4. UNCHANGED <<deployment, clock, who, revoked>>
      BY <1>2 DEF Action, CreateEvent, refuse, show, world
<1> QED BY <1>3, <1>4 DEF record

\* Every event recorded through the dashboard is attributed to the user whose
\* name the submitting page showed.  Inductive because a CSRF token names one
\* session, wherever its cookie travels, and the page was rendered for it.
THEOREM AttributedAsShown == Spec => []WriteByShownUser
<1>1. Init => WriteByShownUser BY DEF Init, WriteByShownUser
<1>2. Inv /\ WriteByShownUser /\ [Next]_vars => WriteByShownUser'
  <2> SUFFICES ASSUME Inv, WriteByShownUser, [Next]_vars, write' # None
               PROVE  write'.by = write'.shown
      BY DEF WriteByShownUser
  <2>1. CASE Next BY <2>1, Writes, AcceptedSession
  <2>2. CASE UNCHANGED vars BY <2>2 DEF vars, WriteByShownUser
  <2> QED BY <2>1, <2>2
<1> QED BY <1>1, <1>2, Invariant, PTL DEF Spec

\* Behind Beyond the recorded user is the one the proxy vouches for.
THEOREM AttributedToEdge == Spec => []WriteByEdgeUser
<1>1. Init => WriteByEdgeUser BY DEF Init, WriteByEdgeUser
<1>2. Inv /\ WriteByEdgeUser /\ [Next]_vars => WriteByEdgeUser'
  <2> SUFFICES ASSUME Inv, WriteByEdgeUser, [Next]_vars, write' # None, Beyond'
               PROVE  write'.by = who'
      BY DEF WriteByEdgeUser
  <2>1. CASE Next BY <2>1, Writes, AcceptedSession DEF Beyond
  <2>2. CASE UNCHANGED vars BY <2>2 DEF vars, WriteByEdgeUser, Beyond
  <2> QED BY <2>1, <2>2
<1> QED BY <1>1, <1>2, Invariant, PTL DEF Spec

\* A revoked user writes nothing more behind Beyond, and nothing from a request
\* that arrives SessionDuration and a request's timeout after the revocation
\* otherwise: no session carried anywhere, not even by an answer still under
\* way, expires later than that, and no login under way can still make one that
\* does, because the context of its calls ends at its deadline.
THEOREM RevocationTakesEffect == Spec => []RevocationBounded
<1>1. Init => RevocationBounded BY DEF Init, RevocationBounded
<1>2. Inv /\ RevocationBounded /\ [Next]_vars => RevocationBounded'
  <2> SUFFICES ASSUME Inv, RevocationBounded, [Next]_vars, write' # None
               PROVE  \/ revoked'[write'.by] = None
                      \/ /\ ~Beyond'
                         /\ clock' < revoked'[write'.by] + SessionDuration + RequestTimeout
      BY DEF RevocationBounded, allowed
  <2>1. CASE Next
    <3>1. PICK t \in Tabs :
             /\ request[t] # None
             /\ request[t].kind \in {"action", "create"}
             /\ accepted(request[t])
             /\ write' = [by |-> request[t].session.subject, shown |-> tab[t].shown]
          BY <2>1, Writes
    <3>2. PICK c : c = request[t].session OBVIOUS
    <3>3. /\ c \in Session /\ Carried(c) /\ c.subject \in Users /\ clock < c.expires
          /\ Beyond => allowed(c.subject)
          /\ write'.by = c.subject
          BY <3>1, <3>2, AcceptedSession
    <3>4. revoked[c.subject] # None =>
             c.expires <= revoked[c.subject] + SessionDuration + RequestTimeout
          BY <3>3 DEF Inv, SessionInv
    <3>5. UNCHANGED <<deployment, clock, who, revoked>> BY <2>1, Writes
    <3>6. /\ clock \in Nat /\ c.expires \in Nat /\ SessionDuration \in Nat
          /\ RequestTimeout \in Nat
          /\ revoked[c.subject] \in Nat \cup {None}
          BY <3>3, SessionsAssumption DEF Inv, TypeOK, Session
    <3>7. \/ revoked[c.subject] = None
          \/ ~Beyond /\ clock < revoked[c.subject] + SessionDuration + RequestTimeout
          BY <3>3, <3>4, <3>6 DEF allowed
    <3> QED BY <3>3, <3>5, <3>7 DEF allowed, Beyond
  <2>2. CASE UNCHANGED vars BY <2>2 DEF vars, RevocationBounded, allowed, Beyond
  <2> QED BY <2>1, <2>2
<1> QED BY <1>1, <1>2, Invariant, PTL DEF Spec

\* A login leads to the page its tab was asked to open: the state in the tab
\* names one flow, even when another tab has replaced the shared cookie.
THEOREM LoginLandsWhereAsked == Spec => []LandsWhereAsked
<1>1. Inv => LandsWhereAsked BY DEF Inv, TabOK, LandsWhereAsked
<1> QED BY <1>1, Invariant, PTL
=============================================================================
