------------------------------ MODULE MCClient ------------------------------
(***************************************************************************)
(* People, server settings and command lines for Client.                   *)
(***************************************************************************)
EXTENDS Client

ann == [subject |-> "1", email |-> Name("ann", TRUE), domain |-> Name("corp", TRUE),
        verified |-> TRUE, hosted |-> Name("corp", FALSE), preferred |-> None,
        member |-> [corp |-> "active", lab |-> "absent"], groups |-> {Name("ops", FALSE)}]
bob == [subject |-> "2", email |-> Name("bob", FALSE), domain |-> Name("lab", FALSE),
        verified |-> TRUE, hosted |-> Name("corp", FALSE), preferred |-> "bob",
        member |-> [corp |-> "pending", lab |-> "active"], groups |-> {Name("ops", TRUE)}]
cyn == [subject |-> "3", email |-> Name("cyn", FALSE), domain |-> Name("corp", FALSE),
        verified |-> FALSE, hosted |-> Name("corp", FALSE), preferred |-> None,
        member |-> [corp |-> "pending", lab |-> "absent"], groups |-> {Name("ops", FALSE)}]
dan == [subject |-> None, email |-> None, domain |-> None,
        verified |-> FALSE, hosted |-> None, preferred |-> "dan",
        member |-> [corp |-> "active", lab |-> "active"], groups |-> {Name("ops", FALSE)}]

MCPersons == {ann, bob, cyn, dan}

\* lost is well formed and unknown to the proxy.
MCHolder == [ann |-> ann, bob |-> bob, lost |-> None]

base == [provider |-> "beyond", tokens |-> {}, oauth |-> FALSE, issuer |-> None,
         duration |-> 1, orgs |-> <<>>, subjects |-> {}, allowAny |-> FALSE,
         requireAuthReads |-> TRUE, others |-> TRUE]
oauth == [base EXCEPT !.oauth = TRUE, !.tokens = {"bob"}]

MCEnvironments == {
    [base EXCEPT !.orgs = <<Name("ops", FALSE)>>],
    [base EXCEPT !.subjects = {[namespace |-> <<"beyond">>, id |-> Name("bob", FALSE)]},
                 !.requireAuthReads = FALSE],
    [base EXCEPT !.allowAny = TRUE],
    base,
    [oauth EXCEPT !.provider = "github", !.orgs = <<Name("lab", TRUE), Name("corp", FALSE)>>],
    [oauth EXCEPT !.provider = "google", !.orgs = <<Name("corp", TRUE)>>,
                  !.requireAuthReads = FALSE],
    [oauth EXCEPT !.provider = "authentik", !.issuer = "idp", !.orgs = <<Name("ops", FALSE)>>,
                  !.subjects = {[namespace |-> <<"authentik", "idp">>, id |-> "2"]}],
    [oauth EXCEPT !.provider = "authentik", !.allowAny = TRUE]}

as(credential) ==
    [file |-> None, pathRequired |-> FALSE, urlFlag |-> None, urlEnv |-> "https",
     credentialEnv |-> credential, allowHTTP |-> FALSE, timeout |-> 15]
fromFile == [as(None) EXCEPT !.file = [url |-> "loopback", credential |-> "ann"],
                             !.urlEnv = None]

create == [kind |-> "create", ext |-> "x", tag |-> <<>>, acceptable |-> TRUE, settings |-> as("ann")]
get == [kind |-> "get", ext |-> "x", settings |-> as("ann")]
list == [kind |-> "list", after |-> None, before |-> None, around |-> None, window |-> None,
         tag |-> <<>>, limit |-> 0, settings |-> as("ann")]
tag(key, value) == [key |-> key, value |-> value]

\* The keys k and m; k, k:a and "m:"; ":k".
MCSortStrings ==
    LET orders == {<< >>, <<<<"k">>, <<"m">>>>, <<<<"k">>, <<"k", "a">>, <<"m", "">>>>,
                   <<<<"", "k">>>>}
    IN  [keys \in {{order[n] : n \in DOMAIN order} : order \in orders} |->
            CHOOSE order \in orders : {order[n] : n \in DOMAIN order} = keys]

MCCommands == {
    create,
    [create EXCEPT !.settings = as("bob")],
    [create EXCEPT !.settings = as("lost")],
    [create EXCEPT !.settings = [as("ann") EXCEPT !.timeout = 0]],
    [create EXCEPT !.settings = [fromFile EXCEPT !.credentialEnv = "malformed", !.allowHTTP = TRUE]],
    [create EXCEPT !.settings = [fromFile EXCEPT !.allowHTTP = TRUE]],
    [create EXCEPT !.tag = <<Malformed>>],
    [create EXCEPT !.acceptable = FALSE],
    get,
    [get EXCEPT !.settings = fromFile],
    [kind |-> "doctor", settings |-> as("ann")],
    [kind |-> "doctor", settings |-> as("bob")],
    [list EXCEPT !.after = 3, !.before = 10, !.limit = 2,
                 !.tag = <<tag(<<"k">>, <<"u", "v">>), tag(<<"k">>, <<"w", "">>),
                           tag(<<"m">>, <<"">>)>>],
    [list EXCEPT !.around = 7, !.window = 4, !.before = 1],
    [list EXCEPT !.around = 7, !.window = 3],
    [list EXCEPT !.around = 7,
                 !.tag = <<tag(<<"k", "a">>, <<"v">>), tag(<<"k">>, <<"u">>),
                           tag(<<"m", "">>, <<"w", "x">>)>>],
    [list EXCEPT !.tag = <<tag(<<"", "k">>, <<"v">>)>>],
    [list EXCEPT !.window = 4],
    [kind |-> "current", team |-> "payments",
     scope |-> {Name("site", TRUE), Name("cell", FALSE), None}, settings |-> as("bob")]}
=============================================================================
