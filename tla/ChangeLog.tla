------------------------------ MODULE ChangeLog ------------------------------
(***************************************************************************)
(* What the registry promises its clients: an append-only log on which     *)
(* every request takes effect at one instant, at most once, and is told    *)
(* the truth about that instant.  No locks, transactions or statements.    *)
(* ChangeRegistry implements it (Registry!Spec there).                     *)
(***************************************************************************)
EXTENDS EventModel

CONSTANTS
    Requests, Inputs, NoInput, NoReply,
    Recorded    \* the events already in the log

VARIABLES
    log,        \* the set of recorded events
    asked,      \* what each request asks for
    reply       \* what it was told

vars == <<log, asked, reply>>

Init ==
    /\ log = Recorded
    /\ asked = [r \in Requests |-> NoInput]
    /\ reply = [r \in Requests |-> NoReply]

tell(r, status, id) == reply' = [reply EXCEPT ![r] = [status |-> status, id |-> id]]

\* An external id names at most one event; a child follows its parent; the
\* sequence numbers are distinct.
append(e) ==
    /\ log' = log \cup {e}
    /\ \A f \in log :
        f.id # e.id /\ f.seq # e.seq /\ (e.ext # None => f.ext # e.ext)
    /\ e.parent # None => \E f \in log : f.id = e.parent /\ f.seq < e.seq

Ask(r) ==
    /\ asked[r] = NoInput
    /\ \E in \in Inputs : asked' = [asked EXCEPT ![r] = in]
    /\ UNCHANGED <<log, reply>>

\* A request that changes nothing.  Each refusal is justified by the log as it
\* is now: in particular a create whose external id is recorded is never
\* called invalid.
Refuse(r) ==
    /\ reply[r] = NoReply
    /\ UNCHANGED log
    /\ \/ UNCHANGED asked
       \/ asked[r] = NoInput /\ \E in \in Inputs : asked' = [asked EXCEPT ![r] = in]
    /\ LET in == asked'[r]
           target == {f \in log : f.id = in.target}
       IN  \/ /\ tell(r, "invalid", None)
              /\ in.op = "create" /\ in.ext # None => \A f \in log : f.ext # in.ext
              /\ in.op \notin Kinds
           \/ /\ tell(r, "parent_not_found", None)
              /\ in.op \in {"create", "links"} /\ target = {}
           \/ /\ tell(r, "not_found", None)
              /\ in.op \in Kinds \cup {"close"} /\ target = {}
           \/ /\ tell(r, "not_closable", None)
              /\ in.op = "close"
              /\ \E f \in target : operationIdentity(f) = NoIdentity
           \/ /\ tell(r, "operation_closed", None)
              /\ in.op = "close"
              /\ \E f \in target : <<f.type, operationIdentity(f)>> \in ended(log)
           \/ tell(r, "error", None)

\* The one event a request may append.
Take(r) ==
    /\ reply[r] = NoReply
    /\ UNCHANGED asked
    /\ \E e \in log' :
        /\ append(e)
        /\ e.id = r
        /\ \/ tell(r, "created", r)
           \/ tell(r, "error", None)
        /\ LET in == asked[r] IN
           \/ /\ in.op = "create"
              /\ e.ext = in.ext /\ e.parent = in.target
           \/ /\ in.op = "links"
              /\ e.ext = None /\ e.parent = in.target /\ e.type = "link"
           \/ /\ in.op \in Kinds
              /\ e.ext = None /\ e.parent = in.target
              /\ isActive(log', in.target, in.op) <=> ~isActive(log, in.target, in.op)
           \/ /\ in.op = "close"
              /\ \E f \in log :
                  /\ f.id = in.target
                  /\ e.ext = operationCloseExternalID(f.type, operationIdentity(f))
                  /\ <<f.type, operationIdentity(f)>> \in ended(log')

\* A repeated create, or a close that lost the race, names the event recorded
\* first.
Repeat(r) ==
    /\ reply[r] = NoReply
    /\ UNCHANGED <<log, asked>>
    /\ LET in == asked[r] IN
       \E e \in log :
        \/ /\ in.op = "create" /\ in.ext # None /\ e.ext = in.ext
           /\ tell(r, "duplicate", e.id)
        \/ /\ in.op = "close"
           /\ tell(r, "created", e.id)
           /\ \E f \in log :
               /\ f.id = in.target
               /\ e.ext = operationCloseExternalID(f.type, operationIdentity(f))

Next == \E r \in Requests : Ask(r) \/ Refuse(r) \/ Take(r) \/ Repeat(r)

Spec == Init /\ [][Next]_vars
=============================================================================
