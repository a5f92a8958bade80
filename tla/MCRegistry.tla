----------------------------- MODULE MCRegistry -----------------------------
(***************************************************************************)
(* Small instances of ChangeRegistry: three requests over a registry that  *)
(* already holds events, some recorded before the tag policy existed.      *)
(***************************************************************************)
EXTENDS ChangeRegistry, TLC

CONSTANTS r1, r2, r3, e1, e2, e3, x1, x2

MCRequests == {r1, r2, r3}
\* All on one replica: fewer connections than requests exhaust its pool.
MCServer == [r \in MCRequests |-> "s1"]

MCText == {"", "link", "start", "end", "star", "unstar", "alert", "clear-alert",
           " start", "deploy", "c1", "d1"}
MCTrimSpace == [t \in MCText |-> IF t = " start" THEN "start" ELSE t]
MCToLower == [t \in MCText |-> t]

row(id, ext, parent, type, tags, seq) ==
    [id |-> id, ext |-> ext, parent |-> parent, type |-> type, tags |-> tags, seq |-> seq]
ask(op, target, ext, type, tags) ==
    [op |-> op, target |-> target, ext |-> ext, type |-> type, tags |-> tags,
     user |-> TRUE, links |-> "none"]

StartC == [NoTags EXCEPT !.phase = "start", !.change_id = "c1"]
StartD == [NoTags EXCEPT !.phase = "start", !.change_id = "", !.deploy_id = "d1"]
EndC == [NoTags EXCEPT !.phase = "end", !.change_id = "c1"]
PaddedStartC == [StartC EXCEPT !.phase = " start"]
NoPhaseC == [StartC EXCEPT !.phase = None]

-----------------------------------------------------------------------------
\* Retries and races on external ids, and requests that wait for one another
\* on an external id or on a parent; one event is from an older release and
\* carries tags that the policy refuses today.
CreateSeeds == {e1, e2}
CreateSeed == e1 :> row(e1, None, None, "deploy", NoTags, 1)
         @@ e2 :> row(e2, x2, e1, "deploy", NoPhaseC, 2)
CreateInputs ==
    {ask("create", None, x1, "deploy", NoTags),
     ask("create", r1, x1, "deploy", PaddedStartC),
     ask("create", None, x2, "deploy", NoPhaseC),
     ask("create", e2, None, "deploy", NoTags),
     ask("create", e1, x1, "star", NoTags),
     ask("star", e1, None, "", NoTags)}

-----------------------------------------------------------------------------
\* Every operation and refusal: closes of one operation from its two start
\* events, a second operation, a hand-written end, starts that arrive late,
\* toggles, links, and targets that are missing or not closable.
OperationSeeds == {e1, e2, e3}
OperationSeed == e1 :> row(e1, None, None, "deploy", StartC, 1)
              @@ e2 :> row(e2, None, None, "deploy", StartD, 2)
              @@ e3 :> row(e3, x2, e1, "star", NoTags, 3)
OperationInputs ==
    {ask("close", e1, None, "", NoTags),
     ask("close", e2, None, "", NoTags),
     ask("close", e3, None, "", NoTags),
     ask("close", r1, None, "", NoTags),
     [ask("close", e1, None, "", NoTags) EXCEPT !.user = FALSE],
     ask("create", None, None, "deploy", StartC),
     ask("create", None, x1, "deploy", EndC),
     ask("create", e1, x1, "unstar", NoTags),
     ask("create", None, x2, "", NoTags),
     ask("create", r1, None, "deploy", NoTags),
     ask("star", e1, None, "", NoTags),
     ask("star", r1, None, "", NoTags),
     [ask("links", e1, None, "", NoTags) EXCEPT !.links = "valid"],
     [ask("links", e1, None, "", NoTags) EXCEPT !.links = "invalid"],
     ask("links", e1, None, "", NoTags)}
=============================================================================
