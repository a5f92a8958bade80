---------------------------- MODULE MCDashboard ----------------------------
(* Entry points with padded, upper-case, malformed and conflicting values. *)
EXTENDS Dashboard

MCText == {"", " ", "pay", " pay", "ops", "site", "Site", " Site", " site", "SEV1", "sev0",
           "sev1", "sev2", "deploy", "maintenance", "a", "link", "x", "x:pay"} \cup Phases \cup Transitions
MCTrimSpace ==
    [t \in MCText |-> CASE t = " " -> "" [] t = " pay" -> "pay" [] t = " Site" -> "Site"
                        [] t = " site" -> "site" [] OTHER -> t]
MCToLower ==
    [t \in MCText |->
        CASE t = "SEV1" -> "sev1" [] t = "Site" -> "site" [] t = " Site" -> " site"
          [] OTHER -> t]

MCNaN == -1

pair(k, v) == [key |-> k, value |-> v]
tag(k, r, v) == [key |-> k, rest |-> r, value |-> v]

\* The keys team, env, the empty one and team:x.
MCEventTags ==
    {tag("team", None, "pay"), tag("env", None, ""), tag("", None, "a"), tag("team", "x", "pay")}
MCJoined == [p \in {<<"x", "pay">>} |-> "x:pay"]

\* Any view and range, with and without a team from each of its three sources.
MCFilters ==
    {[NoQuery EXCEPT !.view = v, !.alerted = al, !.range = r, !.team = tm, !.for_team = "ops",
                     !.tag = tg, !.start_after = "t1", !.start_before = "junk",
                     !.user = "a", !.type = "deploy", !.scope = sc, !.severity = sv] :
        v \in {"", "bogus", "current", "site", "alerts"}, al \in {"", "true"},
        r \in {"", "1h", "custom", "bogus"}, tm \in {"", " pay"},
        tg \in {<< >>, <<pair("team", "pay"), pair("env", "a"), pair("team", "ops")>>,
                <<pair("", "a"), pair("env", "")>>, <<pair("team", " pay")>>},
        sc \in {{}, {" Site", " "}}, sv \in {{}, {"SEV1", "sev2"}}}

\* Any page of a listing without a scope, the first page of the others.
MCEntries ==
    {[q EXCEPT !.limit = l, !.offset = o] :
        q \in {f \in MCFilters : f.view = "bogus" /\ f.scope = {} /\ f.severity = {}},
        l \in {NaN, 2, 9}, o \in {0, 3, 8}}
    \cup {[q EXCEPT !.limit = NaN] : q \in MCFilters}

\* kept is what SelectSeq computes.
ASSUME KeptSelects ==
    \A n \in 0..4 : \A s \in [1..n -> {1, 2, 3}], K \in SUBSET {1, 2, 3} :
        kept(s, K) = SelectSeq(s, LAMBDA t : t \in K)
=============================================================================
