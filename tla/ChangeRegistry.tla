--------------------------- MODULE ChangeRegistry ---------------------------
(***************************************************************************)
(* Concurrent write requests against the change registry.                  *)
(*                                                                         *)
(* Every request runs in a goroutine of some server replica, down from its *)
(* HTTP handler (internal/handler/api.go) through the service              *)
(* (internal/service/change.go) to the PostgreSQL store                    *)
(* (internal/store/postgres/postgres.go).  One action is one SQL statement *)
(* with the Go code up to the next one; between two statements any other   *)
(* request may run.  A request may fail at any statement (connection loss, *)
(* replica crash, the router's 30 second timeout): its transaction rolls   *)
(* back.  A commit may succeed while its answer is lost.  A retry is one   *)
(* more request with the same input.  A statement needs a connection of    *)
(* its replica's pool, and a transaction keeps its connection to the end.  *)
(*                                                                         *)
(* PostgreSQL is external and is modelled by what the code relies on:      *)
(* READ COMMITTED (a statement sees the rows committed before it), an      *)
(* identity column drawn when INSERT starts, a unique index whose check    *)
(* waits for an uncommitted row with the same key, a foreign key check     *)
(* that takes FOR KEY SHARE on the parent, and FOR UPDATE, which excludes  *)
(* both itself and FOR KEY SHARE.  UUIDv7 ids are fresh: the event that    *)
(* request r writes has id r.                                              *)
(***************************************************************************)
EXTENDS EventModel, FiniteSets

CONSTANTS
    Requests,     \* requests, and the ids of the events they write
    SeedIDs,      \* ids of the events already recorded
    Seed,         \* those events
    FirstSeq,     \* the next value of the ingest_sequence identity column
    Server,       \* the replica that serves each request
    MaxConns,     \* connections in a replica's pool
    ClientExts,   \* external ids chosen by clients
    Inputs        \* what a client may ask for

IDs == Requests \cup SeedIDs
Ops == {"create", "links", "star", "alert", "close"}
CloseExts == {"pcr:close"} \X Text \X [key : TagKeys \cup {EmptyText}, value : Text]
ExternalIDs == ClientExts \cup CloseExts

Event == [id     : IDs,
          ext    : ExternalIDs \cup {None},
          parent : IDs \cup {None},
          type   : Text,
          tags   : TagMap,
          seq    : Nat]

\* A request body: user is whether user_name is non-empty, links whether any
\* are given and whether validateLinks accepts them.
Input == [op     : Ops,
          target : IDs \cup {None},
          ext    : ClientExts \cup {None},
          type   : Text,
          tags   : TagMap,
          user   : BOOLEAN,
          links  : {"none", "valid", "invalid"}]

ASSUME ConstantAssumption ==
    /\ Requests \cap SeedIDs = {}
    /\ None \notin IDs \cup ExternalIDs
    /\ ClientExts \cap CloseExts = {}
    /\ FirstSeq \in Nat
    /\ MaxConns \in Nat \ {0}
    /\ Inputs \subseteq Input
    /\ \A in \in Inputs : in.op # "create" => in.target # None

\* The recorded events satisfy the schema: primary key, unique index, foreign
\* key and identity column, every child being inserted after its parent.
ASSUME SeedAssumption ==
    /\ Seed \in [SeedIDs -> Event]
    /\ \A i \in SeedIDs :
        /\ Seed[i].id = i
        /\ Seed[i].seq < FirstSeq
        /\ Seed[i].parent # None =>
            Seed[i].parent \in SeedIDs /\ Seed[Seed[i].parent].seq < Seed[i].seq
    /\ \A i, j \in SeedIDs : Seed[i].seq = Seed[j].seq => i = j
    /\ \A i, j \in SeedIDs : Seed[i].ext = Seed[j].ext /\ Seed[i].ext # None => i = j

\* The close external ids are on the end events that CloseOperation wrote.
ASSUME SeedCloseAssumption ==
    \A i \in SeedIDs : Seed[i].ext \in CloseExts =>
        /\ Seed[i].parent = None
        /\ Tag(Seed[i].tags, "phase") = "end"
        /\ Seed[i].ext = operationCloseExternalID(Seed[i].type, correlation(Seed[i]))
        /\ correlation(Seed[i]).value # EmptyText

VARIABLES
    pc,         \* the statement each request runs next
    input,      \* its body
    event,      \* the event it builds; from INSERT on, its row
    committed,  \* ids of the committed rows
    nextSeq,    \* the identity column's next value
    reply       \* what the client was told

vars == <<pc, input, event, committed, nextSeq, reply>>

Steps == {"lookup", "parent", "insert", "unique", "duplicate", "fk", "commit",
          "begin", "lock", "read", "insert_transition", "commit_transition",
          "get_start", "state"}
InTransaction == {"unique", "fk", "commit", "lock", "read", "insert_transition",
                  "commit_transition"}
Statuses == {"none", "created", "duplicate", "invalid", "parent_not_found",
             "not_found", "not_closable", "operation_closed", "error"}
NoReply == [status |-> "none", id |-> None]
Blank(i) == [id |-> i, ext |-> None, parent |-> None, type |-> EmptyText, tags |-> NoTags, seq |-> 0]
NoInput == [op |-> "create", target |-> None, ext |-> None, type |-> EmptyText,
            tags |-> NoTags, user |-> FALSE, links |-> "none"]

TypeOK ==
    /\ pc \in [Requests -> Steps \cup {"idle", "done"}]
    /\ input \in [Requests -> Inputs \cup {NoInput}]
    /\ event \in [IDs -> Event]
    /\ committed \in SUBSET IDs
    /\ nextSeq \in Nat
    /\ reply \in [Requests -> [status : Statuses, id : IDs \cup {None}]]

Init ==
    /\ pc = [r \in Requests |-> "idle"]
    /\ input = [r \in Requests |-> NoInput]
    /\ event = [i \in IDs |-> IF i \in SeedIDs THEN Seed[i] ELSE Blank(i)]
    /\ committed = SeedIDs
    /\ nextSeq = FirstSeq
    /\ reply = [r \in Requests |-> NoReply]

-----------------------------------------------------------------------------
(* What statements see and what they wait for.                             *)

\* The rows a READ COMMITTED statement sees.
db == {event[i] : i \in committed}

\* GetByExternalID: the committed rows with that external id.
withExternalID(ext) == IF ext = None THEN {} ELSE {i \in committed : event[i].ext = ext}

\* Uncommitted rows already in the unique index on external_id.
indexing(ext) ==
    {s \in Requests : pc[s] \in {"fk", "commit"} /\ event[s].ext = ext /\ ext # None}

\* Mutant: a queued FOR UPDATE already blocks others, itself included.
updating_Queued(parent) ==
    {s \in Requests : /\ pc[s] \in {"lock", "read", "insert_transition", "commit_transition"}
                      /\ input[s].target = parent}

\* Holders of FOR UPDATE and of FOR KEY SHARE on a parent row.
updating(parent) ==
    {s \in Requests : /\ pc[s] \in {"read", "insert_transition", "commit_transition"}
                      /\ input[s].target = parent}
sharing(parent) ==
    {s \in Requests : pc[s] = "commit" /\ event[s].parent = parent}

\* Mutant: GetByExternalID runs before the rolled-back transaction is released.
holding_Duplicate(server) ==
    {s \in Requests : Server[s] = server /\ pc[s] \in InTransaction \cup {"duplicate"}}

\* The requests whose transaction holds a connection of that replica's pool.
holding(server) == {s \in Requests : Server[s] = server /\ pc[s] \in InTransaction}

\* pgxpool's Acquire waits until fewer than MaxConns connections are out.
connectionFree(r) == Cardinality(holding(Server[r])) < MaxConns

\* End of the request: its answer reaches the client.
answer(r, status, id) ==
    /\ pc' = [pc EXCEPT ![r] = "done"]
    /\ reply' = [reply EXCEPT ![r] = [status |-> status, id |-> id]]

goto(r, step) ==
    /\ pc' = [pc EXCEPT ![r] = step]
    /\ UNCHANGED reply

\* CloseOperationAs turns ErrDuplicate into success; CreateEvent answers 200.
duplicateStatus(r) == IF input[r].op = "close" THEN "created" ELSE "duplicate"

-----------------------------------------------------------------------------
(* Handlers: from the request to the first statement.                      *)

draft(r, ext, parent, type, tags) ==
    event' = [event EXCEPT ![r] = [id |-> r, ext |-> ext, parent |-> parent,
                                   type |-> type, tags |-> tags, seq |-> 0]]

\* APIHandler.CreateEvent, ChangeService.Create.
BeginCreate(r, in) ==
    /\ in.op = "create"
    /\ draft(r, in.ext, in.target, in.type, in.tags)
    /\ goto(r, "lookup")

\* APIHandler.AddEventLinks, ChangeService.AddLinksAs.
BeginLinks(r, in) ==
    /\ in.op = "links"
    /\ \/ /\ in.links = "none"
          /\ answer(r, "invalid", None)
          /\ UNCHANGED event
       \/ /\ in.links # "none"
          /\ draft(r, None, in.target, "link", NoTags)
          /\ goto(r, "lookup")

\* APIHandler.ToggleStar and ToggleAlert, Store.ToggleStar and ToggleAlert.
BeginToggle(r, in) ==
    /\ in.op \in Kinds
    /\ goto(r, "begin")
    /\ UNCHANGED event

\* APIHandler.CloseOperation, ChangeService.CloseOperationAs.
BeginClose(r, in) ==
    /\ in.op = "close"
    /\ \/ ~in.user /\ answer(r, "invalid", None)
       \/ in.user /\ goto(r, "get_start")
    /\ UNCHANGED event

Begin(r) ==
    /\ pc[r] = "idle"
    /\ \E in \in Inputs :
        /\ input' = [input EXCEPT ![r] = in]
        /\ \/ BeginCreate(r, in)
           \/ BeginLinks(r, in)
           \/ BeginToggle(r, in)
           \/ BeginClose(r, in)
    /\ UNCHANGED <<committed, nextSeq>>

-----------------------------------------------------------------------------
(* ChangeService.create and Store.Create.                                  *)

\* CloseOperationAs creates without the tag policy; its user and type are set.
enforceTagPolicy(r) == input[r].op # "close"

\* validateCreateRequest: the canonical type and tags, and their acceptance.
createdType(r) ==
    IF enforceTagPolicy(r) THEN canonicalType(event[r].type) ELSE event[r].type
createdTags(r) ==
    IF enforceTagPolicy(r) THEN normalizeEventTags(event[r].tags) ELSE event[r].tags
validateCreateRequest(r) ==
    /\ input[r].user
    /\ event[r].type # EmptyText
    /\ enforceTagPolicy(r) => validateEventTags(createdType(r), createdTags(r))
    /\ input[r].op # "close" => input[r].links # "invalid"

\* Mutant: validation runs before the lookup.
LookupExternal_ValidateFirst(r) ==
    /\ pc[r] = "lookup"
    /\ event[r].ext # None => connectionFree(r)
    /\ \/ /\ ~validateCreateRequest(r)
          /\ answer(r, "invalid", None)
          /\ UNCHANGED event
       \/ /\ validateCreateRequest(r)
          /\ \E i \in withExternalID(event[r].ext) : answer(r, duplicateStatus(r), i)
          /\ UNCHANGED event
       \/ /\ validateCreateRequest(r)
          /\ withExternalID(event[r].ext) = {}
          /\ event' = [event EXCEPT ![r].type = createdType(r), ![r].tags = createdTags(r)]
          /\ goto(r, IF event[r].parent = None THEN "insert" ELSE "parent")
    /\ UNCHANGED <<input, committed, nextSeq>>

\* GetByExternalID before validation: a retry gets the original event even if
\* today's policy would refuse it.  Then validateCreateRequest.
LookupExternal(r) ==
    /\ pc[r] = "lookup"
    /\ event[r].ext # None => connectionFree(r)
    /\ \/ /\ \E i \in withExternalID(event[r].ext) : answer(r, duplicateStatus(r), i)
          /\ UNCHANGED event
       \/ /\ withExternalID(event[r].ext) = {}
          /\ ~validateCreateRequest(r)
          /\ answer(r, "invalid", None)
          /\ UNCHANGED event
       \/ /\ withExternalID(event[r].ext) = {}
          /\ validateCreateRequest(r)
          /\ event' = [event EXCEPT ![r].type = createdType(r), ![r].tags = createdTags(r)]
          /\ goto(r, IF event[r].parent = None THEN "insert" ELSE "parent")
    /\ UNCHANGED <<input, committed, nextSeq>>

\* Mutant: any parent id is accepted.
RequireParent_Skipped(r) ==
    /\ pc[r] = "parent"
    /\ connectionFree(r)
    /\ goto(r, "insert")
    /\ UNCHANGED <<input, event, committed, nextSeq>>

\* Mutant: the refusal is an error mapServiceError does not know.
RequireParent_Unmapped(r) ==
    /\ pc[r] = "parent"
    /\ connectionFree(r)
    /\ IF event[r].parent \in committed
       THEN goto(r, "insert")
       ELSE answer(r, "parent_missing", None)
    /\ UNCHANGED <<input, event, committed, nextSeq>>

\* requireParent: GetByID of the parent.
RequireParent(r) ==
    /\ pc[r] = "parent"
    /\ connectionFree(r)
    /\ IF event[r].parent \in committed
       THEN goto(r, "insert")
       ELSE answer(r, "parent_not_found", None)
    /\ UNCHANGED <<input, event, committed, nextSeq>>

\* pool.Begin, then INSERT INTO change_events: the identity value is drawn first.
Insert(r) ==
    /\ pc[r] = "insert"
    /\ connectionFree(r)
    /\ event' = [event EXCEPT ![r].seq = nextSeq]
    /\ nextSeq' = nextSeq + 1
    /\ goto(r, "unique")
    /\ UNCHANGED <<input, committed>>

\* Mutant: no unique index; the lookup before it is all there is.
CheckUnique_NoIndex(r) ==
    /\ pc[r] = "unique"
    /\ goto(r, IF event[r].parent = None THEN "commit" ELSE "fk")
    /\ UNCHANGED <<input, event, committed, nextSeq>>

\* The unique index on external_id: waits while another transaction holds the
\* key uncommitted; a committed key is a violation and rolls back.
CheckUnique(r) ==
    /\ pc[r] = "unique"
    /\ indexing(event[r].ext) = {}
    /\ IF withExternalID(event[r].ext) # {}
       THEN goto(r, "duplicate")
       ELSE goto(r, IF event[r].parent = None THEN "commit" ELSE "fk")
    /\ UNCHANGED <<input, event, committed, nextSeq>>

\* Mutant: the event that was rolled back is returned.
DuplicateLookup_OwnEvent(r) ==
    /\ pc[r] = "duplicate"
    /\ connectionFree(r)
    /\ answer(r, duplicateStatus(r), r)
    /\ UNCHANGED <<input, event, committed, nextSeq>>

\* After the violation: rollback, then GetByExternalID; no row would make the
\* answer ErrDuplicate with a nil event.
DuplicateLookup(r) ==
    /\ pc[r] = "duplicate"
    /\ connectionFree(r)
    /\ LET existing == withExternalID(event[r].ext)
       IN  answer(r, duplicateStatus(r),
                  IF existing = {} THEN None ELSE CHOOSE i \in existing : TRUE)
    /\ UNCHANGED <<input, event, committed, nextSeq>>

\* The foreign key check: FOR KEY SHARE on the parent.
CheckForeignKey(r) ==
    /\ pc[r] = "fk"
    /\ updating(event[r].parent) = {}
    /\ goto(r, "commit")
    /\ UNCHANGED <<input, event, committed, nextSeq>>

\* insertTags, insertLinks and COMMIT: row, tags and links become visible at
\* once.  answered is FALSE when the connection breaks after the commit.
Commit(r, answered) ==
    /\ pc[r] \in {"commit", "commit_transition"}
    /\ committed' = committed \cup {r}
    /\ IF answered THEN answer(r, "created", r) ELSE answer(r, "error", None)
    /\ UNCHANGED <<input, event, nextSeq>>

-----------------------------------------------------------------------------
(* Store.toggleTransition.                                                 *)

\* pool.Begin.
BeginTransition(r) ==
    /\ pc[r] = "begin"
    /\ connectionFree(r)
    /\ goto(r, "lock")
    /\ UNCHANGED <<input, event, committed, nextSeq>>

\* Mutant: SELECT 1 without FOR UPDATE.
LockParent_NoLock(r) ==
    /\ pc[r] = "lock"
    /\ \/ /\ input[r].target \notin committed
          /\ answer(r, "not_found", None)
       \/ /\ input[r].target \in committed
          /\ goto(r, "read")
    /\ UNCHANGED <<input, event, committed, nextSeq>>

\* SELECT 1 ... FOR UPDATE on the parent.
LockParent(r) ==
    /\ pc[r] = "lock"
    /\ \/ /\ input[r].target \notin committed
          /\ answer(r, "not_found", None)
       \/ /\ input[r].target \in committed
          /\ updating(input[r].target) \cup sharing(input[r].target) = {}
          /\ goto(r, "read")
    /\ UNCHANGED <<input, event, committed, nextSeq>>

\* Read the newest transition and build the opposite one.
ReadLatest(r) ==
    /\ pc[r] = "read"
    /\ LET kind == input[r].op
           type == IF isActive(db, input[r].target, kind)
                   THEN inactiveType(kind) ELSE activeType(kind)
       IN  draft(r, None, input[r].target, type, NoTags)
    /\ goto(r, "insert_transition")
    /\ UNCHANGED <<input, committed, nextSeq>>

\* The foreign key check passes at once: this transaction locks the parent.
InsertTransition(r) ==
    /\ pc[r] = "insert_transition"
    /\ event' = [event EXCEPT ![r].seq = nextSeq]
    /\ nextSeq' = nextSeq + 1
    /\ goto(r, "commit_transition")
    /\ UNCHANGED <<input, committed>>

-----------------------------------------------------------------------------
(* ChangeService.CloseOperationAs.                                         *)

GetStart(r) ==
    /\ pc[r] = "get_start"
    /\ connectionFree(r)
    /\ \/ input[r].target \notin committed /\ answer(r, "not_found", None)
       \/ /\ input[r].target \in committed
          /\ IF operationIdentity(event[input[r].target]) = NoIdentity
             THEN answer(r, "not_closable", None)
             ELSE goto(r, "state")
    /\ UNCHANGED <<input, event, committed, nextSeq>>

\* Mutant: the end event carries no external id.
ReadOperationState_NoExternalID(r) ==
    /\ pc[r] = "state"
    /\ connectionFree(r)
    /\ LET start == event[input[r].target]
       IN  \/ /\ OperationState(db, start) = "closed"
              /\ answer(r, "operation_closed", None)
              /\ UNCHANGED event
           \/ /\ OperationState(db, start) = "open"
              /\ draft(r, None, None, start.type, closeTags(start))
              /\ goto(r, "lookup")
    /\ UNCHANGED <<input, committed, nextSeq>>

\* OperationState, then the end event goes down the create path.
ReadOperationState(r) ==
    /\ pc[r] = "state"
    /\ connectionFree(r)
    /\ LET start == event[input[r].target]
       IN  \/ /\ OperationState(db, start) = "closed"
              /\ answer(r, "operation_closed", None)
              /\ UNCHANGED event
           \/ /\ OperationState(db, start) = "open"
              /\ draft(r, operationCloseExternalID(start.type, operationIdentity(start)),
                       None, start.type, closeTags(start))
              /\ goto(r, "lookup")
    /\ UNCHANGED <<input, committed, nextSeq>>

-----------------------------------------------------------------------------
\* A statement fails: the deferred Rollback, and 500 or no answer at all.
Fail(r) ==
    /\ pc[r] \in Steps
    /\ answer(r, "error", None)
    /\ event' = [event EXCEPT ![r] = Blank(r)]
    /\ UNCHANGED <<input, committed, nextSeq>>

\* The statements of one request, none failing.
Step(r) ==
    \/ LookupExternal(r)
    \/ RequireParent(r)
    \/ Insert(r)
    \/ CheckUnique(r)
    \/ DuplicateLookup(r)
    \/ CheckForeignKey(r)
    \/ BeginTransition(r)
    \/ LockParent(r)
    \/ ReadLatest(r)
    \/ InsertTransition(r)
    \/ GetStart(r)
    \/ ReadOperationState(r)
    \/ Commit(r, TRUE)

\* Every request is answered: nothing is left to do.
Finished ==
    /\ \A r \in Requests : pc[r] = "done"
    /\ UNCHANGED vars

Next ==
    \/ \E r \in Requests : Begin(r) \/ Step(r) \/ Commit(r, FALSE) \/ Fail(r)
    \/ Finished

\* Every goroutine that can run its next statement eventually does; requests
\* need not arrive, and nothing has to fail.
Fairness == \A r \in Requests : WF_vars(Step(r))

Spec == Init /\ [][Next]_vars
FairSpec == Spec /\ Fairness

-----------------------------------------------------------------------------
(* Properties.                                                             *)

\* external_id is a key: however the check in ChangeService.create, the unique
\* index and rollbacks interleave, no two recorded events share one.
ExternalIDUnique ==
    \A i, j \in committed :
        event[i].ext = event[j].ext /\ event[i].ext # None => i = j

\* Idempotent creation: every successful answer to a create that carries an
\* external id, first attempt or retry, concurrent or after a lost answer,
\* names one and the same recorded event with that external id; in particular
\* ErrDuplicate never comes with a nil event.
IdempotentCreate ==
    \A r \in Requests :
        /\ input[r].op = "create"
        /\ input[r].ext # None
        /\ reply[r].status \in {"created", "duplicate"}
        => withExternalID(input[r].ext) = {reply[r].id}

\* An event is recorded only after its parent: the parent is visible and has
\* the smaller ingest_sequence (requireParent runs before INSERT).
ParentFirst ==
    \A i \in committed : event[i].parent # None =>
        /\ event[i].parent \in committed
        /\ event[event[i].parent].seq < event[i].seq

\* ingest_sequence orders the recorded events totally, so "newest transition"
\* is one row.
SequenceUnique ==
    \A i, j \in committed : event[i].seq = event[j].seq => i = j

flipsAtCommit ==
    \A r \in Requests :
        r \in committed' \ committed /\ input[r].op \in Kinds =>
            isActive(db', input[r].target, input[r].op)
                <=> ~isActive(db, input[r].target, input[r].op)

\* A toggle flips what readers see: at the moment its transaction commits the
\* derived state of its parent becomes the opposite of what it was just
\* before, whatever toggles and directly created transitions run beside it.
ToggleFlips == [][flipsAtCommit]_vars

\* The operation that a close request names.
operationOf(r) ==
    LET start == event[input[r].target] IN <<start.type, operationIdentity(start)>>

\* The answer to a close is true: after success, also the success made of a
\* lost race, and after "already closed", Current no longer shows the
\* operation, so the Go identity and the SQL correlation agree.
CloseMeansClosed ==
    \A r \in Requests :
        input[r].op = "close" /\ reply[r].status \in {"created", "operation_closed"}
        => operationOf(r) \in ended(db)

\* Racing closes of one operation, from whichever start event, write one end.
CloseWritesOnce ==
    \A r, s \in committed \cap Requests :
        input[r].op = "close" /\ input[s].op = "close" /\ operationOf(r) = operationOf(s)
        => r = s

\* Every request that arrives is answered: the waits on the unique index, on
\* FOR UPDATE, on FOR KEY SHARE and for a connection of a pool that locked
\* transactions may have exhausted never form a cycle.
EveryRequestAnswered ==
    \A r \in Requests : pc[r] # "idle" ~> pc[r] = "done"

-----------------------------------------------------------------------------
(* The registry implements the append-only log.                            *)

Registry == INSTANCE ChangeLog WITH
    Recorded <- {Seed[i] : i \in SeedIDs},
    log <- db,
    asked <- input

\* However their statements interleave, fail and lose their answers, the
\* requests behave as if each took effect at one instant on an append-only
\* log and was answered truthfully: the refinement of ChangeLog.
ImplementsChangeLog == Registry!Spec
=============================================================================
