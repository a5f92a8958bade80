------------------------------- MODULE MCReads -------------------------------
(***************************************************************************)
(* Small registries: every content that a few candidate events can form,   *)
(* the listing of five children of one event in pages of two, and the      *)
(* annotations of two events.                                              *)
(***************************************************************************)
EXTENDS Paging, Annotations

MCText == {"", "link", "start", "end", "star", "unstar", "alert", "clear-alert",
           "deploy", "rollout", "c1", "d1", "team1", "site", "SEV1", "sev1"}
MCTrimSpace == [t \in MCText |-> t]
MCToLower == [t \in MCText |-> IF t = "SEV1" THEN "sev1" ELSE t]

cand(id, parent, type, tags, ts) ==
    [id |-> id, parent |-> parent, type |-> type, tags |-> tags, ts |-> ts, seq |-> id]

-----------------------------------------------------------------------------
\* Starts and ends with every mix of the two identifiers, of two types, with
\* and without the tags that Current filters on.
phased(phase, change, deploy) ==
    [NoTags EXCEPT !["phase"] = phase, !["change_id"] = change, !["deploy_id"] = deploy]
LifecycleTags ==
    {phased(phase, ids[1], ids[2]) :
        phase \in Phases,
        ids \in {<<"c1", None>>, <<None, "d1">>, <<"c1", "d1">>, <<"", "d1">>, <<"", "">>}}
FilterTags ==
    {[phased("start", "c1", None) EXCEPT !["team"] = "team1"],
     [phased("start", "c1", None) EXCEPT !["team"] = "team1", !["scope"] = "site"],
     [phased("start", "c1", None) EXCEPT !["severity"] = "SEV1"]}
CurrentCandidates ==
    {cand(id, None, "deploy", tags, ts) : id \in 1..3, tags \in LifecycleTags, ts \in {0, 3}}
    \cup {cand(id, None, "rollout", phased("end", "c1", None), 0) : id \in 1..3}
    \cup {cand(id, 1, "deploy", phased("end", "c1", None), 0) : id \in 2..3}
    \cup {cand(id, None, "deploy", tags, ts) : id \in 1..3, tags \in FilterTags, ts \in {0, 3}}
MCCurrentQueries ==
    {[NoCurrentParams EXCEPT !.forTeam = "team1"],
     [NoCurrentParams EXCEPT !.forTeam = "deploy"],
     [NoCurrentParams EXCEPT !.scopes = {"site"}],
     [NoCurrentParams EXCEPT !.severities = {"sev1"}],
     [NoCurrentParams EXCEPT !.type = "rollout"]}

-----------------------------------------------------------------------------
\* Events of any half second, several in the same one.
PageCandidates == {cand(id, None, "deploy", NoTags, ts) : id \in 1..4, ts \in 0..5}

-----------------------------------------------------------------------------
\* Five children of one event, recorded in any order, two of them at either time.
ChildCandidates ==
    {cand(1, None, "deploy", phased("start", "c1", None), 0)}
    \cup {cand(id, 1, "link", NoTags, 0) : id \in 2..4}
    \cup {cand(id, 1, "link", NoTags, ts) : id \in 5..6, ts \in {0, 2}}
Children == [NoParams EXCEPT !.parent = 1]

-----------------------------------------------------------------------------
\* Two events and up to three meta-events on them, recorded in any order; the one
\* with the smallest sequence number has the largest timestamp.
MetaCandidates ==
    {cand(id, None, "deploy", NoTags, 0) : id \in {1, 2}}
    \cup {cand(3, 1, type, NoTags, 2) : type \in Transitions}
    \cup {cand(4, parent, type, NoTags, 0) : parent \in {1, 2}, type \in Transitions}
    \cup {cand(5, 1, type, NoTags, 0) : type \in {"unstar", "alert", "link"}}

-----------------------------------------------------------------------------
ChildWorkload == [children |-> ChildCandidates]
MCWorkloads ==
    [current |-> CurrentCandidates, pages |-> PageCandidates, children |-> ChildCandidates,
     meta |-> MetaCandidates]
MCParams == [w \in DOMAIN MCWorkloads |-> IF w = "children" THEN {Children} ELSE {}]

-----------------------------------------------------------------------------
\* Annotations are read in the workload that has some, listings in the others.
ReadsInit == ListInit /\ WalkInit
ReadsNext ==
    \/ workload = "meta" /\ WalkNext /\ UNCHANGED listing
    \/ workload # "meta" /\ ListNext /\ UNCHANGED walk
ReadsSpec == ReadsInit /\ [][ReadsNext]_<<pvars, walk>> /\ WF_pvars(Count \/ Page)
=============================================================================
