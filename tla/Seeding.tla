------------------------------ MODULE Seeding ------------------------------
(***************************************************************************)
(* pcr-seed: a fixture is applied to a running registry event by event,    *)
(* by one seeder or by several at once, interrupted at any event and run   *)
(* again.  A create is one step: ChangeRegistry is shown to implement the  *)
(* atomic, idempotent create of ChangeLog.                                 *)
(***************************************************************************)
EXTENDS Naturals, Sequences

CONSTANTS
    Fixture,     \* the fixture's events, in order
    Seeders,     \* processes that run pcr-seed until it succeeds
    MaxFaults,   \* bound: failed or unanswered creates
    None

VARIABLES
    db,          \* the recorded events, in order; an id is a position
    at,          \* per seeder: its position in the fixture, 0 between runs
    refs,        \* per seeder: the ids by ref
    done,        \* seeders that reported success
    faults

vars == <<db, at, refs, done, faults>>

EmptyText == ""   \* what the fixture does not set

Refs == {Fixture[i].ref : i \in DOMAIN Fixture}

\* validateReferences: refs are distinct and parents come earlier.  External
\* ids may repeat.
validateReferences ==
    \A i \in DOMAIN Fixture :
       /\ Fixture[i].ref # EmptyText
       /\ \A j \in 1..(i - 1) : Fixture[j].ref # Fixture[i].ref
       /\ Fixture[i].parentRef # EmptyText =>
             \E j \in 1..(i - 1) : Fixture[j].ref = Fixture[i].parentRef

Items == [ref : STRING, parentRef : STRING, externalID : STRING]

ASSUME SeedingAssumption ==
    /\ Fixture \in Seq(Items)
    /\ validateReferences
    /\ None \notin Nat
    /\ MaxFaults \in Nat

Init ==
    /\ db = <<>>
    /\ at = [s \in Seeders |-> 0]
    /\ refs = [s \in Seeders |-> [r \in Refs |-> None]]
    /\ done = {}
    /\ faults = 0

Start(s) ==
    /\ s \notin done
    /\ at[s] = 0
    /\ at' = [at EXCEPT ![s] = 1]
    /\ refs' = [refs EXCEPT ![s] = [r \in Refs |-> None]]
    /\ UNCHANGED <<db, done, faults>>

-----------------------------------------------------------------------------
(* One event *)

\* Mutant: a child is put under the event created before it.
parentOf_Previous(s, item) ==
    IF item.parentRef = EmptyText \/ db = <<>> THEN None ELSE Len(db)

parentOf(s, item) == IF item.parentRef = EmptyText THEN None ELSE refs[s][item.parentRef]

\* Mutant: the external id is not sent.
existing_NotSent(item) == {}

\* The recorded event with the item's external id.
existing(item) ==
    {id \in DOMAIN db : item.externalID # EmptyText /\ db[id].externalID = item.externalID}

\* POST /api/v1/events: the registry returns the event with the external id or
\* records a new one.
recorded(s, item) ==
    IF existing(item) # {} THEN db
    ELSE Append(db, [ref |-> item.ref, externalID |-> item.externalID,
                     parent |-> parentOf(s, item)])

\* Mutant: an existing event (200 OK) is taken for a failure.
accepted_CreatedOnly(item) == existing(item) = {}

\* apiCreator.Create accepts 201 Created and 200 OK.
accepted(item) == TRUE

\* The seeder learns the id and goes on to the next event.
Create(s) ==
    /\ at[s] \in DOMAIN Fixture
    /\ LET item == Fixture[at[s]] IN
       /\ db' = recorded(s, item)
       /\ IF accepted(item)
          THEN /\ refs' = [refs EXCEPT ![s][item.ref] =
                             IF existing(item) # {} THEN CHOOSE id \in existing(item) : TRUE
                             ELSE Len(db')]
               /\ at' = [at EXCEPT ![s] = @ + 1]
          ELSE /\ at' = [at EXCEPT ![s] = 0]
               /\ UNCHANGED refs
    /\ UNCHANGED <<done, faults>>

\* The create fails, or takes effect and its answer is lost: ApplyAt returns
\* the error and the run ends.
Fail(s) ==
    /\ at[s] \in DOMAIN Fixture
    /\ faults < MaxFaults
    /\ faults' = faults + 1
    /\ db' \in {db, recorded(s, Fixture[at[s]])}
    /\ at' = [at EXCEPT ![s] = 0]
    /\ UNCHANGED <<refs, done>>

\* All events are applied: the run reports success.
Finish(s) ==
    /\ at[s] = Len(Fixture) + 1
    /\ at' = [at EXCEPT ![s] = 0]
    /\ done' = done \cup {s}
    /\ UNCHANGED <<db, refs, faults>>

AllSeeded == done = Seeders /\ UNCHANGED vars

Next ==
    \/ \E s \in Seeders : Start(s) \/ Create(s) \/ Fail(s) \/ Finish(s)
    \/ AllSeeded

\* A seeder that was interrupted is run again; faults are bounded.
Spec ==
    /\ Init /\ [][Next]_vars
    /\ \A s \in Seeders : WF_vars(Start(s)) /\ WF_vars(Create(s)) /\ WF_vars(Finish(s))

-----------------------------------------------------------------------------
(* Properties *)

itemOf(ref) == Fixture[CHOOSE i \in DOMAIN Fixture : Fixture[i].ref = ref]

\* Event e stands for a fixture item: it was recorded for it, or the registry
\* answers with it because the item's external id is already e's.
standsFor(e, item) ==
    \/ e.ref = item.ref
    \/ item.externalID # EmptyText /\ e.externalID = item.externalID

\* However runs are interrupted, repeated and mixed, every recorded event hangs
\* under an event that stands for its parent_ref.
Lineage ==
    \A id \in DOMAIN db :
       LET parentRef == itemOf(db[id].ref).parentRef
       IN  IF parentRef = EmptyText THEN db[id].parent = None
           ELSE /\ db[id].parent \in DOMAIN db
                /\ standsFor(db[db[id].parent], itemOf(parentRef))

\* A run that reports success leaves an event for every item of the fixture,
\* and over all runs only one for an item with an external id.
SeededOnce ==
    done # {} => \A i \in DOMAIN Fixture :
       LET copies == {id \in DOMAIN db : standsFor(db[id], Fixture[i])}
       IN  /\ copies # {}
           /\ Fixture[i].externalID # EmptyText => \A a, b \in copies : a = b

\* Running pcr-seed again after a failure gets it done.
RerunCompletes == <>(done = Seeders)
=============================================================================
