------------------------ MODULE ChangeRegistryProofs ------------------------
(***************************************************************************)
(* Theorems about ChangeRegistry, for any set of requests, inputs and      *)
(* recorded events.                                                        *)
(***************************************************************************)
EXTENDS ChangeRegistry, TLAPS

LEMMA BlankTyped == \A i \in IDs : Blank(i) \in Event
BY TextAssumption DEF Blank, Event, NoTags, TagMap

LEMMA DraftTyped ==
    ASSUME NEW r \in IDs, NEW ext \in ExternalIDs \cup {None},
           NEW parent \in IDs \cup {None}, NEW type \in Text, NEW tags \in TagMap
    PROVE  [id |-> r, ext |-> ext, parent |-> parent,
            type |-> type, tags |-> tags, seq |-> 0] \in Event
BY DEF Event

LEMMA NoTagsTyped == NoTags \in TagMap
BY DEF NoTags, TagMap

LEMMA NormalizeTyped ==
    ASSUME NEW tags \in TagMap
    PROVE  normalizeEventTags(tags) \in TagMap
BY TextAssumption DEF normalizeEventTags, TagMap, TagKeys

LEMMA CanonicalTypeTyped ==
    ASSUME NEW type \in Text
    PROVE  canonicalType(type) \in Text
<1>1. TrimSpace[type] \in Text
  BY TextAssumption
<1>2. ToLower[TrimSpace[type]] \in Text
  BY <1>1, TextAssumption
<1> QED BY <1>2 DEF canonicalType

LEMMA CloseTagsTyped ==
    ASSUME NEW e \in Event
    PROVE  closeTags(e) \in TagMap
BY TextAssumption DEF closeTags, Event, TagMap, TagKeys, Phases

LEMMA CloseExtTyped ==
    ASSUME NEW e \in Event
    PROVE  operationCloseExternalID(e.type, operationIdentity(e)) \in CloseExts
<1> USE TextAssumption DEF Event, TagMap
<1>1. Tag(e.tags, "change_id") \in Text /\ Tag(e.tags, "deploy_id") \in Text
  BY DEF Tag, TagKeys
<1>2. operationIdentity(e) \in [key : TagKeys \cup {EmptyText}, value : Text]
  BY <1>1 DEF operationIdentity, NoIdentity, TagKeys
<1>3. e.type \in Text
  OBVIOUS
<1> QED BY <1>2, <1>3 DEF CloseExts, operationCloseExternalID

-----------------------------------------------------------------------------
(* Type correctness.  TypeOK alone is not inductive: a toggle or a close   *)
(* reads event[input[r].target], so that its target is a recorded event    *)
(* has to be carried along with the path the request is on.                *)

ToggleSteps == {"begin", "lock", "read", "insert_transition", "commit_transition"}
CloseSteps == {"get_start", "state"}
CreateSteps == {"lookup", "parent", "insert", "unique", "duplicate", "fk", "commit"}
Locked == {"read", "insert_transition", "commit_transition"}

PathOK ==
    \A r \in Requests :
        /\ pc[r] \in ToggleSteps => input[r].op \in Kinds
        /\ pc[r] \in CloseSteps => input[r].op = "close"
        /\ pc[r] \in CreateSteps => input[r].op \notin Kinds
        /\ pc[r] \in Locked \cup {"state"} => input[r].target \in committed
        /\ pc[r] = "done" \/ reply[r] = NoReply

TypeInv == TypeOK /\ PathOK

LEMMA StepsSplit ==
    /\ Steps = ToggleSteps \cup CloseSteps \cup CreateSteps
    /\ ToggleSteps \cap CloseSteps = {}
    /\ ToggleSteps \cap CreateSteps = {}
    /\ CloseSteps \cap CreateSteps = {}
    /\ "idle" \notin Steps /\ "done" \notin Steps
BY DEF Steps, ToggleSteps, CloseSteps, CreateSteps

LEMMA PathInit == Init => PathOK
BY DEF Init, PathOK, ToggleSteps, CloseSteps, CreateSteps, Locked

LEMMA TypeInit == Init => TypeOK
<1> SUFFICES ASSUME Init PROVE TypeOK
  OBVIOUS
<1>1. event \in [IDs -> Event]
  BY BlankTyped, SeedAssumption DEF Init, IDs
<1>2. NoReply \in [status : Statuses, id : IDs \cup {None}]
  BY DEF NoReply, Statuses
<1> QED BY <1>1, <1>2, ConstantAssumption DEF Init, TypeOK, IDs, Steps

\* Ending a request, and moving it on, keeps pc and reply well typed.
LEMMA AnswerTyped ==
    ASSUME TypeOK, NEW r \in Requests, NEW status \in Statuses,
           NEW id \in IDs \cup {None}, answer(r, status, id)
    PROVE  /\ pc' \in [Requests -> Steps \cup {"idle", "done"}]
           /\ reply' \in [Requests -> [status : Statuses, id : IDs \cup {None}]]
BY DEF TypeOK, answer

LEMMA GotoTyped ==
    ASSUME TypeOK, NEW r \in Requests, NEW step \in Steps, goto(r, step)
    PROVE  /\ pc' \in [Requests -> Steps \cup {"idle", "done"}]
           /\ reply' \in [Requests -> [status : Statuses, id : IDs \cup {None}]]
BY DEF TypeOK, goto

LEMMA DraftStepTyped ==
    ASSUME TypeOK, NEW r \in Requests, NEW ext \in ExternalIDs \cup {None},
           NEW parent \in IDs \cup {None}, NEW type \in Text, NEW tags \in TagMap,
           draft(r, ext, parent, type, tags)
    PROVE  event' \in [IDs -> Event]
BY DraftTyped DEF TypeOK, draft, IDs

LEMMA TypeBegin ==
    ASSUME TypeOK, NEW r \in Requests, Begin(r)
    PROVE  TypeOK'
<1>1. PICK in \in Inputs :
        /\ input' = [input EXCEPT ![r] = in]
        /\ BeginCreate(r, in) \/ BeginLinks(r, in) \/ BeginToggle(r, in) \/ BeginClose(r, in)
  BY DEF Begin
<1>2. /\ in.target \in IDs \cup {None}
      /\ in.ext \in ExternalIDs \cup {None}
      /\ in.type \in Text
      /\ in.tags \in TagMap
  BY ConstantAssumption DEF Input, ExternalIDs
<1>3. input' \in [Requests -> Inputs \cup {NoInput}]
  BY <1>1 DEF TypeOK
<1>4. {"lookup", "begin", "get_start"} \subseteq Steps /\ "invalid" \in Statuses
  BY DEF Steps, Statuses
<1>5. CASE BeginCreate(r, in)
  BY <1>2, <1>3, <1>4, <1>5, GotoTyped, DraftStepTyped DEF BeginCreate, Begin, TypeOK
<1>6. CASE BeginLinks(r, in)
  <2>1. "link" \in Text
    BY TextAssumption
  <2> QED BY <2>1, <1>2, <1>3, <1>4, <1>6, GotoTyped, AnswerTyped, DraftStepTyped, NoTagsTyped
          DEF BeginLinks, Begin, TypeOK
<1>7. CASE BeginToggle(r, in)
  BY <1>3, <1>4, <1>7, GotoTyped DEF BeginToggle, Begin, TypeOK
<1>8. CASE BeginClose(r, in)
  BY <1>3, <1>4, <1>8, GotoTyped, AnswerTyped DEF BeginClose, Begin, TypeOK
<1> QED BY <1>1, <1>5, <1>6, <1>7, <1>8

LEMMA TypeCreate ==
    ASSUME TypeInv, NEW r \in Requests,
           \/ LookupExternal(r) \/ RequireParent(r) \/ Insert(r) \/ CheckUnique(r)
           \/ DuplicateLookup(r) \/ CheckForeignKey(r)
           \/ \E answered \in BOOLEAN : Commit(r, answered)
    PROVE  TypeOK'
<1> USE DEF TypeInv
<1> DEFINE PcReply == /\ pc' \in [Requests -> Steps \cup {"idle", "done"}]
                      /\ reply' \in [Requests -> [status : Statuses, id : IDs \cup {None}]]
<1>1. /\ CreateSteps \subseteq Steps
      /\ {"created", "duplicate", "invalid", "parent_not_found", "error"} \subseteq Statuses
      /\ duplicateStatus(r) \in Statuses
  BY DEF Steps, CreateSteps, Statuses, duplicateStatus
<1>2. \A ext : withExternalID(ext) \subseteq IDs
  BY DEF withExternalID, TypeOK
<1>3. r \in IDs
  BY DEF IDs
<1>4. CASE LookupExternal(r)
  <2>1. PcReply
    BY <1>1, <1>2, <1>4, AnswerTyped, GotoTyped DEF LookupExternal, CreateSteps
  <2>2. createdType(r) \in Text /\ createdTags(r) \in TagMap
    BY <1>3, NormalizeTyped, CanonicalTypeTyped DEF createdType, createdTags, TypeOK, Event
  <2>3. event' \in [IDs -> Event]
    BY <2>2, <1>3, <1>4 DEF LookupExternal, TypeOK, Event
  <2> QED BY <2>1, <2>3, <1>4 DEF LookupExternal, TypeOK
<1>5. CASE RequireParent(r)
  <2>1. PcReply
    BY <1>1, <1>5, AnswerTyped, GotoTyped DEF RequireParent, CreateSteps
  <2> QED BY <2>1, <1>5 DEF RequireParent, TypeOK
<1>6. CASE Insert(r)
  <2>1. PcReply
    BY <1>1, <1>6, GotoTyped DEF Insert, CreateSteps
  <2>2. event' \in [IDs -> Event] /\ nextSeq' \in Nat
    BY <1>3, <1>6 DEF Insert, TypeOK, Event
  <2> QED BY <2>1, <2>2, <1>6 DEF Insert, TypeOK
<1>7. CASE CheckUnique(r)
  <2>1. PcReply
    BY <1>1, <1>7, GotoTyped DEF CheckUnique, CreateSteps
  <2> QED BY <2>1, <1>7 DEF CheckUnique, TypeOK
<1>8. CASE DuplicateLookup(r)
  <2>1. PcReply
    BY <1>1, <1>2, <1>8, AnswerTyped DEF DuplicateLookup
  <2> QED BY <2>1, <1>8 DEF DuplicateLookup, TypeOK
<1>9. CASE CheckForeignKey(r)
  <2>1. PcReply
    BY <1>1, <1>9, GotoTyped DEF CheckForeignKey, CreateSteps
  <2> QED BY <2>1, <1>9 DEF CheckForeignKey, TypeOK
<1>10. ASSUME NEW answered \in BOOLEAN, Commit(r, answered)
       PROVE  TypeOK'
  <2>1. PcReply
    BY <1>1, <1>3, <1>10, AnswerTyped DEF Commit
  <2> QED BY <2>1, <1>3, <1>10 DEF Commit, TypeOK
<1> QED BY <1>4, <1>5, <1>6, <1>7, <1>8, <1>9, <1>10

LEMMA TypeToggleClose ==
    ASSUME TypeInv, NEW r \in Requests,
           \/ BeginTransition(r) \/ LockParent(r) \/ ReadLatest(r) \/ InsertTransition(r)
           \/ GetStart(r) \/ ReadOperationState(r) \/ Fail(r)
    PROVE  TypeOK'
<1> USE DEF TypeInv
<1> DEFINE PcReply == /\ pc' \in [Requests -> Steps \cup {"idle", "done"}]
                      /\ reply' \in [Requests -> [status : Statuses, id : IDs \cup {None}]]
<1>1. /\ {"lock", "read", "insert_transition", "commit_transition", "state", "lookup"} \subseteq Steps
      /\ {"not_found", "not_closable", "operation_closed", "error"} \subseteq Statuses
  BY DEF Steps, Statuses
<1>2. r \in IDs
  BY DEF IDs
<1>3. CASE LockParent(r)
  <2>1. PcReply
    BY <1>1, <1>3, AnswerTyped, GotoTyped DEF LockParent
  <2> QED BY <2>1, <1>3 DEF LockParent, TypeOK
<1>4. CASE ReadLatest(r)
  <2>1. PcReply
    BY <1>1, <1>4, GotoTyped DEF ReadLatest
  <2>2. /\ input[r].target \in IDs
        /\ inactiveType(input[r].op) \in Text
        /\ activeType(input[r].op) \in Text
    BY <1>4, TextAssumption DEF ReadLatest, PathOK, TypeOK, Locked, ToggleSteps, Kinds,
       inactiveType, activeType, Transitions
  <2>3. event' \in [IDs -> Event]
    BY <2>2, <1>4, DraftStepTyped, NoTagsTyped DEF ReadLatest
  <2> QED BY <2>1, <2>3, <1>4 DEF ReadLatest, TypeOK
<1>5. CASE InsertTransition(r)
  <2>1. PcReply
    BY <1>1, <1>5, GotoTyped DEF InsertTransition
  <2>2. event' \in [IDs -> Event] /\ nextSeq' \in Nat
    BY <1>2, <1>5 DEF InsertTransition, TypeOK, Event
  <2> QED BY <2>1, <2>2, <1>5 DEF InsertTransition, TypeOK
<1>6. CASE GetStart(r)
  <2>1. PcReply
    BY <1>1, <1>6, AnswerTyped, GotoTyped DEF GetStart
  <2> QED BY <2>1, <1>6 DEF GetStart, TypeOK
<1>7. CASE ReadOperationState(r)
  <2> DEFINE start == event[input[r].target]
  <2>1. PcReply
    BY <1>1, <1>7, AnswerTyped, GotoTyped DEF ReadOperationState
  <2>2. start \in Event
    BY <1>7 DEF ReadOperationState, PathOK, TypeOK
  <2>3. /\ operationCloseExternalID(start.type, operationIdentity(start)) \in ExternalIDs
        /\ closeTags(start) \in TagMap
        /\ start.type \in Text
    BY <2>2, CloseExtTyped, CloseTagsTyped DEF Event, ExternalIDs
  <2>4. event' \in [IDs -> Event]
    BY <2>3, <1>7, DraftStepTyped DEF ReadOperationState, TypeOK
  <2> QED BY <2>1, <2>4, <1>7 DEF ReadOperationState, TypeOK
<1>8. CASE Fail(r)
  <2>1. PcReply
    BY <1>1, <1>8, AnswerTyped DEF Fail
  <2> QED BY <2>1, <1>2, <1>8, BlankTyped DEF Fail, TypeOK
<1>9. CASE BeginTransition(r)
  <2>1. PcReply
    BY <1>1, <1>9, GotoTyped DEF BeginTransition
  <2> QED BY <2>1, <1>9 DEF BeginTransition, TypeOK
<1> QED BY <1>3, <1>4, <1>5, <1>6, <1>7, <1>8, <1>9

\* A step of r touches nothing of another request.
LEMMA Frame ==
    ASSUME TypeOK, NEW r \in Requests,
           Begin(r) \/ Step(r) \/ Commit(r, FALSE) \/ Fail(r)
    PROVE  /\ \A s \in Requests \ {r} :
                pc'[s] = pc[s] /\ input'[s] = input[s] /\ reply'[s] = reply[s]
           /\ \A i \in IDs \ {r} : event'[i] = event[i]
           /\ committed' \in {committed, committed \cup {r}}
<1> USE DEF TypeOK, answer, goto, draft
<1>1. CASE Begin(r)
  BY <1>1 DEF Begin, BeginCreate, BeginLinks, BeginToggle, BeginClose
<1>2. CASE LookupExternal(r)
  BY <1>2 DEF LookupExternal
<1>3. CASE RequireParent(r) \/ Insert(r) \/ CheckUnique(r) \/ CheckForeignKey(r)
  BY <1>3 DEF RequireParent, Insert, CheckUnique, CheckForeignKey
<1>4. CASE DuplicateLookup(r) \/ BeginTransition(r) \/ LockParent(r) \/ GetStart(r)
  BY <1>4 DEF DuplicateLookup, BeginTransition, LockParent, GetStart
<1>5. CASE ReadLatest(r) \/ InsertTransition(r) \/ ReadOperationState(r)
  BY <1>5 DEF ReadLatest, InsertTransition, ReadOperationState
<1>6. CASE Commit(r, TRUE) \/ Commit(r, FALSE)
  BY <1>6 DEF Commit
<1>7. CASE Fail(r)
  BY <1>7 DEF Fail
<1> QED BY <1>1, <1>2, <1>3, <1>4, <1>5, <1>6, <1>7 DEF Step

LEMMA PathStep ==
    ASSUME TypeInv, NEW r \in Requests,
           Begin(r) \/ Step(r) \/ Commit(r, FALSE) \/ Fail(r)
    PROVE  PathOK'
<1> DEFINE Q(s) == /\ pc'[s] \in ToggleSteps => input'[s].op \in Kinds
                   /\ pc'[s] \in CloseSteps => input'[s].op = "close"
                   /\ pc'[s] \in CreateSteps => input'[s].op \notin Kinds
                   /\ pc'[s] \in Locked \cup {"state"} => input'[s].target \in committed'
                   /\ pc'[s] = "done" \/ reply'[s] = NoReply
<1>1. \A s \in Requests \ {r} : Q(s)
  BY Frame DEF TypeInv, PathOK
<1>2. Q(r)
  <2> USE DEF TypeInv, TypeOK, PathOK, answer, goto, ToggleSteps, CloseSteps, CreateSteps,
      Locked, Kinds
  <2>1. CASE Begin(r)
    BY <2>1 DEF Begin, BeginCreate, BeginLinks, BeginToggle, BeginClose
  <2>2. CASE LookupExternal(r) \/ RequireParent(r) \/ Insert(r)
    BY <2>2 DEF LookupExternal, RequireParent, Insert
  <2>3. CASE CheckUnique(r) \/ CheckForeignKey(r) \/ DuplicateLookup(r)
    BY <2>3 DEF CheckUnique, CheckForeignKey, DuplicateLookup
  <2>4. CASE BeginTransition(r) \/ LockParent(r) \/ GetStart(r)
    BY <2>4 DEF BeginTransition, LockParent, GetStart
  <2>5. CASE ReadLatest(r) \/ InsertTransition(r) \/ ReadOperationState(r)
    BY <2>5 DEF ReadLatest, InsertTransition, ReadOperationState
  <2>6. CASE Commit(r, TRUE) \/ Commit(r, FALSE)
    BY <2>6 DEF Commit
  <2>7. CASE Fail(r)
    BY <2>7 DEF Fail
  <2> QED BY <2>1, <2>2, <2>3, <2>4, <2>5, <2>6, <2>7 DEF Step
<1> QED BY <1>1, <1>2 DEF PathOK

LEMMA TypeInvStep == TypeInv /\ [Next]_vars => TypeInv'
<1> SUFFICES ASSUME TypeInv, [Next]_vars PROVE TypeInv'
  OBVIOUS
<1>1. ASSUME NEW r \in Requests, Begin(r) \/ Step(r) \/ Commit(r, FALSE) \/ Fail(r)
      PROVE  TypeInv'
  BY <1>1, TypeBegin, TypeCreate, TypeToggleClose, PathStep DEF TypeInv, Step
<1>2. CASE UNCHANGED vars
  BY <1>2 DEF vars, TypeInv, TypeOK, PathOK
<1> QED BY <1>1, <1>2 DEF Next, Finished

\* Every variable keeps its type (TypeOK), for any number of requests.
THEOREM TypeCorrect == Spec => []TypeOK
<1>1. Init => TypeInv
  BY TypeInit, PathInit DEF TypeInv
<1>2. TypeInv => TypeOK
  BY DEF TypeInv
<1> QED BY <1>1, <1>2, TypeInvStep, PTL DEF Spec

-----------------------------------------------------------------------------
(* The rows.  Numbered rows have drawn their ingest_sequence; Indexed ones *)
(* have also passed the unique index.  Committed rows are both, but the    *)
(* properties are inductive only over the rows still in flight as well.    *)

Numbered(i) ==
    i \in committed \/ (i \in Requests /\
        pc[i] \in {"unique", "duplicate", "fk", "commit", "commit_transition"})
Indexed(i) ==
    i \in committed \/ (i \in Requests /\ pc[i] \in {"fk", "commit", "commit_transition"})
Rooted(i) ==
    Numbered(i) \/ (i \in Requests /\ pc[i] \in {"insert", "insert_transition"})

CommitInv ==
    /\ SeedIDs \subseteq committed
    /\ \A r \in Requests : r \in committed => pc[r] = "done"
SeqInv ==
    /\ \A i \in IDs : Numbered(i) => event[i].seq < nextSeq
    /\ \A i, j \in IDs : Numbered(i) /\ Numbered(j) /\ event[i].seq = event[j].seq => i = j
TransitionInv ==
    \A r \in Requests : pc[r] \in {"insert_transition", "commit_transition"} =>
        event[r].ext = None /\ event[r].parent = input[r].target
ParentInv ==
    /\ \A i \in IDs : Rooted(i) /\ event[i].parent # None => event[i].parent \in committed
    /\ \A i \in IDs : Numbered(i) /\ event[i].parent # None =>
                        event[event[i].parent].seq < event[i].seq
ExtInv ==
    \A i, j \in IDs :
        Indexed(i) /\ Indexed(j) /\ event[i].ext = event[j].ext /\ event[i].ext # None => i = j

RowInv == CommitInv /\ TransitionInv /\ SeqInv /\ ParentInv /\ ExtInv

LEMMA RowInit == Init => RowInv
<1> SUFFICES ASSUME Init PROVE RowInv
  OBVIOUS
<1>1. /\ \A r \in Requests : pc[r] = "idle"
      /\ committed = SeedIDs
      /\ \A i \in SeedIDs : event[i] = Seed[i]
      /\ nextSeq = FirstSeq
  BY DEF Init, IDs
<1>2. CommitInv /\ TransitionInv
  BY <1>1, ConstantAssumption DEF CommitInv, TransitionInv
<1>3. SeqInv
  BY <1>1, SeedAssumption DEF SeqInv, Numbered
<1>4. ParentInv
  BY <1>1, SeedAssumption DEF ParentInv, Numbered, Rooted
<1>5. ExtInv
  BY <1>1, SeedAssumption DEF ExtInv, Indexed
<1> QED BY <1>2, <1>3, <1>4, <1>5 DEF RowInv

\* What a step of r may do to r's own row, by the statement it ran.
Unnumbered(r) ==    \* before INSERT, or the end without a row
    /\ pc'[r] \in {"lookup", "begin", "lock", "get_start", "state", "parent", "read", "done"}
    /\ UNCHANGED <<committed, nextSeq>>
ParentKnown(r) ==   \* requireParent has passed
    /\ pc'[r] = "insert"
    /\ event'[r].parent # None => event'[r].parent \in committed
    /\ UNCHANGED <<committed, nextSeq>>
Drawn(r) ==         \* INSERT draws the sequence number
    /\ \/ pc[r] = "insert" /\ pc'[r] = "unique"
       \/ pc[r] = "insert_transition" /\ pc'[r] = "commit_transition"
    /\ event'[r].seq = nextSeq
    /\ event'[r].ext = event[r].ext
    /\ event'[r].parent = event[r].parent
    /\ event'[r].type = event[r].type
    /\ nextSeq' = nextSeq + 1
    /\ UNCHANGED <<committed, input>>
Checked(r) ==       \* the unique index
    /\ pc[r] = "unique" /\ pc'[r] \in {"duplicate", "fk", "commit"}
    /\ indexing(event[r].ext) = {}
    /\ pc'[r] # "duplicate" => withExternalID(event[r].ext) = {}
    /\ pc'[r] = "commit" => event[r].parent = None
    /\ UNCHANGED <<event, committed, nextSeq>>
Shared(r) ==        \* the foreign key
    /\ pc[r] = "fk" /\ pc'[r] = "commit"
    /\ updating(event[r].parent) = {}
    /\ UNCHANGED <<event, committed, nextSeq>>
Drafted(r) ==       \* the toggle has chosen its transition
    /\ pc[r] = "read" /\ pc'[r] = "insert_transition"
    /\ event'[r].ext = None /\ event'[r].parent = input[r].target
    /\ UNCHANGED <<committed, nextSeq, input>>
Published(r) ==     \* COMMIT
    /\ pc[r] \in {"commit", "commit_transition"} /\ pc'[r] = "done"
    /\ committed' = committed \cup {r}
    /\ UNCHANGED <<event, nextSeq>>

LEMMA OwnRow ==
    ASSUME TypeInv, CommitInv, NEW r \in Requests,
           Begin(r) \/ Step(r) \/ Commit(r, FALSE) \/ Fail(r)
    PROVE  /\ r \notin committed
           /\ \/ Unnumbered(r) \/ ParentKnown(r) \/ Drawn(r) \/ Checked(r)
              \/ Shared(r) \/ Drafted(r) \/ Published(r)
<1> USE DEF TypeInv, TypeOK, CommitInv, answer, goto, draft, IDs
<1>1. CASE Begin(r)
  BY <1>1 DEF Begin, BeginCreate, BeginLinks, BeginToggle, BeginClose, Unnumbered
<1>2. CASE LookupExternal(r)
  <2>1. pc[r] = "lookup" /\ UNCHANGED <<committed, nextSeq>>
    BY <1>2 DEF LookupExternal
  <2>2. \/ pc'[r] \in {"done", "parent"}
        \/ pc'[r] = "insert" /\ event[r].parent = None /\ event'[r].parent = event[r].parent
    BY <1>2 DEF LookupExternal, Event
  <2> QED BY <2>1, <2>2 DEF Unnumbered, ParentKnown
<1>3. CASE RequireParent(r)
  BY <1>3 DEF RequireParent, Unnumbered, ParentKnown
<1>4. CASE Insert(r)
  BY <1>4 DEF Insert, Drawn, Event
<1>5. CASE CheckUnique(r)
  BY <1>5 DEF CheckUnique, Checked
<1>6. CASE DuplicateLookup(r) \/ BeginTransition(r) \/ LockParent(r) \/ GetStart(r)
  BY <1>6 DEF DuplicateLookup, BeginTransition, LockParent, GetStart, Unnumbered
<1>7. CASE CheckForeignKey(r)
  BY <1>7 DEF CheckForeignKey, Shared
<1>8. CASE ReadLatest(r)
  BY <1>8 DEF ReadLatest, Drafted
<1>9. CASE InsertTransition(r)
  BY <1>9 DEF InsertTransition, Drawn, Event
<1>10. CASE ReadOperationState(r)
  BY <1>10 DEF ReadOperationState, Unnumbered
<1>11. CASE Commit(r, TRUE) \/ Commit(r, FALSE)
  BY <1>11 DEF Commit, Published
<1>12. CASE Fail(r)
  BY <1>12 DEF Fail, Steps, Unnumbered
<1> QED
  BY <1>1, <1>2, <1>3, <1>4, <1>5, <1>6, <1>7, <1>8, <1>9, <1>10, <1>11, <1>12 DEF Step

LEMMA RowStep ==
    ASSUME TypeInv, RowInv, NEW r \in Requests,
           Begin(r) \/ Step(r) \/ Commit(r, FALSE) \/ Fail(r)
    PROVE  RowInv'
<1>1. /\ \A s \in Requests \ {r} : pc'[s] = pc[s] /\ input'[s] = input[s]
      /\ \A i \in IDs \ {r} : event'[i] = event[i]
  BY Frame DEF TypeInv
<1>2. /\ r \in IDs /\ Requests \subseteq IDs /\ committed \subseteq IDs
      /\ SeedIDs \cap Requests = {}
      /\ nextSeq \in Nat
      /\ \A i \in IDs : event[i] \in Event /\ event[i].seq \in Nat
      /\ \A i \in IDs : event[i].parent \in IDs \cup {None}
      /\ None \notin IDs
  BY ConstantAssumption DEF TypeInv, TypeOK, IDs, Event
<1>3. CommitInv /\ TransitionInv /\ SeqInv /\ ParentInv /\ ExtInv
  BY DEF RowInv
<1>4. r \notin committed
  BY <1>3, OwnRow
<1> USE <1>1, <1>2, <1>3, <1>4
<1>5. CASE Unnumbered(r)
  <2>1. CommitInv' /\ TransitionInv'
    BY <1>5 DEF Unnumbered, CommitInv, TransitionInv
  <2>2. SeqInv' /\ ParentInv' /\ ExtInv'
    BY <1>5 DEF Unnumbered, SeqInv, ParentInv, ExtInv, Numbered, Rooted, Indexed
  <2> QED BY <2>1, <2>2 DEF RowInv
<1>6. CASE ParentKnown(r)
  <2>1. CommitInv' /\ TransitionInv'
    BY <1>6 DEF ParentKnown, CommitInv, TransitionInv
  <2>2. SeqInv' /\ ParentInv' /\ ExtInv'
    BY <1>6 DEF ParentKnown, SeqInv, ParentInv, ExtInv, Numbered, Rooted, Indexed
  <2> QED BY <2>1, <2>2 DEF RowInv
<1>7. CASE Drawn(r)
  <2>1. CommitInv' /\ TransitionInv'
    BY <1>7 DEF Drawn, CommitInv, TransitionInv
  <2>2. SeqInv'
    BY <1>7 DEF Drawn, SeqInv, Numbered
  <2>3. ParentInv'
    BY <1>7 DEF Drawn, ParentInv, SeqInv, Numbered, Rooted
  <2>4. ExtInv'
    BY <1>7 DEF Drawn, ExtInv, TransitionInv, Indexed
  <2> QED BY <2>1, <2>2, <2>3, <2>4 DEF RowInv
<1>8. CASE Checked(r)
  <2>1. CommitInv' /\ TransitionInv'
    BY <1>8 DEF Checked, CommitInv, TransitionInv
  <2>2. SeqInv' /\ ParentInv'
    BY <1>8 DEF Checked, SeqInv, ParentInv, Numbered, Rooted
  <2>3. ExtInv'
    BY <1>8 DEF Checked, ExtInv, TransitionInv, Indexed, indexing, withExternalID
  <2> QED BY <2>1, <2>2, <2>3 DEF RowInv
<1>9. CASE Shared(r)
  <2>1. CommitInv' /\ TransitionInv'
    BY <1>9 DEF Shared, CommitInv, TransitionInv
  <2>2. SeqInv' /\ ParentInv' /\ ExtInv'
    BY <1>9 DEF Shared, SeqInv, ParentInv, ExtInv, Numbered, Rooted, Indexed
  <2> QED BY <2>1, <2>2 DEF RowInv
<1>10. CASE Drafted(r)
  <2>1. CommitInv' /\ TransitionInv'
    BY <1>10 DEF Drafted, CommitInv, TransitionInv
  <2>2. input[r].target \in committed
    BY <1>10 DEF Drafted, TypeInv, PathOK, Locked
  <2>3. SeqInv' /\ ParentInv' /\ ExtInv'
    BY <1>10, <2>2 DEF Drafted, SeqInv, ParentInv, ExtInv, Numbered, Rooted, Indexed
  <2> QED BY <2>1, <2>3 DEF RowInv
<1>11. CASE Published(r)
  <2>1. CommitInv' /\ TransitionInv'
    BY <1>11 DEF Published, CommitInv, TransitionInv
  <2>2. SeqInv' /\ ParentInv' /\ ExtInv'
    BY <1>11 DEF Published, SeqInv, ParentInv, ExtInv, Numbered, Rooted, Indexed
  <2> QED BY <2>1, <2>2 DEF RowInv
<1> QED BY <1>5, <1>6, <1>7, <1>8, <1>9, <1>10, <1>11, OwnRow

SafeInv == TypeInv /\ RowInv

LEMMA SafeInit == Init => SafeInv
BY TypeInit, PathInit, RowInit DEF SafeInv, TypeInv

LEMMA SafeStep == SafeInv /\ [Next]_vars => SafeInv'
<1> SUFFICES ASSUME SafeInv, [Next]_vars PROVE SafeInv'
  OBVIOUS
<1>1. TypeInv'
  BY TypeInvStep DEF SafeInv
<1>2. ASSUME NEW r \in Requests, Begin(r) \/ Step(r) \/ Commit(r, FALSE) \/ Fail(r)
      PROVE  RowInv'
  BY <1>2, RowStep DEF SafeInv
<1>3. ASSUME UNCHANGED vars
      PROVE  RowInv'
  <2>1. CommitInv' /\ TransitionInv'
    BY <1>3 DEF vars, SafeInv, RowInv, CommitInv, TransitionInv
  <2>2. SeqInv' /\ ParentInv' /\ ExtInv'
    BY <1>3 DEF vars, SafeInv, RowInv, SeqInv, ParentInv, ExtInv, Numbered, Rooted, Indexed
  <2> QED BY <2>1, <2>2 DEF RowInv
<1> QED BY <1>1, <1>2, <1>3 DEF Next, Finished, SafeInv

LEMMA SafeInvariant == Spec => []SafeInv
BY SafeInit, SafeStep, PTL DEF Spec

\* external_id stays a key of the recorded events (ExternalIDUnique): proved
\* from ExtInv, which also covers the rows that hold the key uncommitted.
THEOREM ExternalIDKey == Spec => []ExternalIDUnique
<1>1. SafeInv => ExternalIDUnique
  BY DEF SafeInv, TypeInv, TypeOK, RowInv, ExtInv, Indexed, ExternalIDUnique
<1> QED BY <1>1, SafeInvariant, PTL

\* Children are recorded after their parents (ParentFirst), and the sequence
\* numbers of recorded events are distinct (SequenceUnique).
THEOREM RecordedInOrder == Spec => [](ParentFirst /\ SequenceUnique)
<1>1. SafeInv => ParentFirst /\ SequenceUnique
  BY DEF SafeInv, TypeInv, TypeOK, RowInv, ParentInv, SeqInv, Numbered, Rooted,
     ParentFirst, SequenceUnique
<1> QED BY <1>1, SafeInvariant, PTL

-----------------------------------------------------------------------------
(* Toggles.  A request between FOR UPDATE and COMMIT is alone with its     *)
(* parent: no other toggle is there and no create holds the parent's key   *)
(* share, so nobody else can commit a child of it.  What it read therefore *)
(* stays true, and the sequence number it draws stays the largest.         *)

LockInv ==
    \A r, s \in Requests : pc[r] \in Locked =>
        /\ pc[s] \in Locked /\ input[s].target = input[r].target => r = s
        /\ pc[s] = "commit" => event[s].parent # input[r].target

\* isActive over ids instead of rows.
activeAt(parent, kind) ==
    \E i \in committed :
        /\ event[i].parent = parent
        /\ event[i].type = activeType(kind)
        /\ \A j \in committed :
            /\ event[j].parent = parent
            /\ event[j].type \in {activeType(kind), inactiveType(kind)}
            => event[j].seq <= event[i].seq

LEMMA ActiveByID ==
    ASSUME NEW parent, NEW kind
    PROVE  /\ isActive(db, parent, kind) <=> activeAt(parent, kind)
           /\ isActive(db', parent, kind) <=> activeAt(parent, kind)'
<1>1. isActive(db, parent, kind) <=> activeAt(parent, kind)
  BY DEF isActive, activeAt, transitionsOf, db
<1>2. isActive(db', parent, kind) <=> activeAt(parent, kind)'
  BY DEF isActive, activeAt, transitionsOf, db
<1> QED BY <1>1, <1>2

FlipInv ==
    \A r \in Requests :
        /\ pc[r] \in {"insert_transition", "commit_transition"} =>
            event[r].type = IF activeAt(input[r].target, input[r].op)
                            THEN inactiveType(input[r].op) ELSE activeType(input[r].op)
        /\ pc[r] = "commit_transition" =>
            \A i \in committed : event[i].parent = input[r].target =>
                event[i].seq < event[r].seq

LEMMA LockInit == Init => LockInv /\ FlipInv
BY DEF Init, LockInv, FlipInv, Locked

LEMMA LockStep ==
    ASSUME SafeInv, LockInv, NEW r \in Requests,
           Begin(r) \/ Step(r) \/ Commit(r, FALSE) \/ Fail(r)
    PROVE  LockInv'
<1>1. /\ \A s \in Requests \ {r} : pc'[s] = pc[s] /\ input'[s] = input[s]
      /\ \A i \in IDs \ {r} : event'[i] = event[i]
  BY Frame DEF SafeInv, TypeInv
<1>2. /\ Requests \subseteq IDs
      /\ pc'[r] \in Locked => /\ input'[r].target = input[r].target
                              /\ \/ pc[r] \in Locked
                                 \/ updating(input[r].target) \cup sharing(input[r].target) = {}
      /\ pc'[r] = "commit" => /\ event'[r] = event[r]
                              /\ event[r].parent = None \/ updating(event[r].parent) = {}
  <2> USE DEF SafeInv, TypeInv, TypeOK, answer, goto, draft, IDs, Locked, Steps
  <2>1. CASE Begin(r)
    BY <2>1 DEF Begin, BeginCreate, BeginLinks, BeginToggle, BeginClose
  <2>2. CASE LookupExternal(r) \/ RequireParent(r) \/ Insert(r)
    BY <2>2 DEF LookupExternal, RequireParent, Insert
  <2>3. CASE CheckUnique(r) \/ CheckForeignKey(r) \/ DuplicateLookup(r)
    BY <2>3 DEF CheckUnique, CheckForeignKey, DuplicateLookup
  <2>4. CASE BeginTransition(r) \/ LockParent(r) \/ GetStart(r)
    BY <2>4 DEF BeginTransition, LockParent, GetStart
  <2>5. CASE ReadLatest(r) \/ InsertTransition(r) \/ ReadOperationState(r)
    BY <2>5 DEF ReadLatest, InsertTransition, ReadOperationState
  <2>6. CASE Commit(r, TRUE) \/ Commit(r, FALSE) \/ Fail(r)
    BY <2>6 DEF Commit, Fail
  <2> QED BY <2>1, <2>2, <2>3, <2>4, <2>5, <2>6 DEF Step
<1>3. \A s \in Requests : pc[s] \in Locked => input[s].target # None
  BY ConstantAssumption DEF SafeInv, TypeInv, TypeOK, PathOK
<1> QED BY <1>1, <1>2, <1>3 DEF LockInv, Locked, updating, sharing

LEMMA FlipStep ==
    ASSUME SafeInv, LockInv, FlipInv, NEW r \in Requests,
           Begin(r) \/ Step(r) \/ Commit(r, FALSE) \/ Fail(r)
    PROVE  FlipInv'
<1>1. /\ \A s \in Requests \ {r} : pc'[s] = pc[s] /\ input'[s] = input[s]
      /\ \A i \in IDs \ {r} : event'[i] = event[i]
  BY Frame DEF SafeInv, TypeInv
<1>2. /\ Requests \subseteq IDs /\ committed \subseteq IDs
      /\ r \notin committed
      /\ \/ Unnumbered(r) \/ ParentKnown(r) \/ Drawn(r) \/ Checked(r)
         \/ Shared(r) \/ Drafted(r) \/ Published(r)
  BY OwnRow DEF SafeInv, TypeInv, TypeOK, RowInv, IDs
<1>3. \A i \in committed : event'[i] = event[i]
  BY <1>1, <1>2
<1>4. ASSUME committed' = committed
      PROVE  \A p, k : activeAt(p, k)' <=> activeAt(p, k)
  BY <1>3, <1>4 DEF activeAt
<1>5. CASE Unnumbered(r) \/ ParentKnown(r) \/ Checked(r) \/ Shared(r)
  <2>1. /\ committed' = committed
        /\ pc'[r] \notin {"insert_transition", "commit_transition"}
    BY <1>5 DEF Unnumbered, ParentKnown, Checked, Shared
  <2> QED BY <2>1, <1>1, <1>2, <1>3, <1>4 DEF FlipInv
<1>6. CASE Drawn(r)
  <2>1. \A i \in committed : event[i].seq < nextSeq
    BY <1>2 DEF SafeInv, RowInv, SeqInv, Numbered
  <2>2. committed' = committed
    BY <1>6 DEF Drawn
  <2> QED BY <2>1, <2>2, <1>1, <1>2, <1>3, <1>4, <1>6 DEF FlipInv, Drawn
<1>7. CASE Drafted(r)
  <2>1. ReadLatest(r)
    BY <1>7 DEF Drafted, Begin, Step, LookupExternal, RequireParent, Insert, CheckUnique,
       CheckForeignKey, DuplicateLookup, BeginTransition, LockParent, GetStart, InsertTransition,
       ReadOperationState, Commit, Fail, answer, SafeInv, TypeInv, TypeOK
  <2>2. event'[r].type = IF activeAt(input[r].target, input[r].op)
                         THEN inactiveType(input[r].op) ELSE activeType(input[r].op)
    BY <2>1, <1>2, ActiveByID DEF ReadLatest, draft, SafeInv, TypeInv, TypeOK
  <2>3. committed' = committed
    BY <1>7 DEF Drafted
  <2> QED BY <2>2, <2>3, <1>1, <1>2, <1>3, <1>4, <1>7 DEF FlipInv, Drafted
<1>8. CASE Published(r)
  <2>1. ASSUME NEW s \in Requests, pc'[s] \in {"insert_transition", "commit_transition"}
        PROVE  /\ s # r /\ pc'[s] = pc[s] /\ input'[s] = input[s] /\ event'[s] = event[s]
               /\ event[r].parent # input[s].target
    <3>1. s # r
      BY <1>8, <2>1 DEF Published
    <3>2. pc[r] = "commit_transition" => event[r].parent = input[r].target
      BY DEF SafeInv, RowInv, TransitionInv
    <3>3. event[r].parent # input[s].target
      BY <3>1, <3>2, <1>1, <1>8, <2>1 DEF Published, LockInv, Locked
    <3> QED BY <3>1, <3>3, <1>1, <1>2
  <2>2. committed' = committed \cup {r} /\ event' = event
    BY <1>8 DEF Published
  <2>3. ASSUME NEW p, NEW k, event[r].parent # p
        PROVE  activeAt(p, k)' <=> activeAt(p, k)
    BY <2>2, <2>3 DEF activeAt
  <2> QED BY <2>1, <2>2, <2>3 DEF FlipInv
<1> QED BY <1>2, <1>5, <1>6, <1>7, <1>8

\* At the commit of a toggle the derived state of its parent flips.
LEMMA FlipAtCommit ==
    ASSUME SafeInv, FlipInv, NEW r \in Requests,
           Begin(r) \/ Step(r) \/ Commit(r, FALSE) \/ Fail(r),
           NEW t \in Requests, t \in committed' \ committed,
           NEW p, NEW k, k \in Kinds, p = input[t].target, k = input[t].op
    PROVE  activeAt(p, k)' <=> ~activeAt(p, k)
<1>1. t = r /\ Published(r)
  BY OwnRow, Frame DEF SafeInv, TypeInv, RowInv, Unnumbered, ParentKnown, Drawn, Checked,
     Shared, Drafted, Published
<1>2. pc[r] = "commit_transition"
  BY <1>1 DEF Published, SafeInv, TypeInv, PathOK, CreateSteps
<1>3. /\ event[r].parent = p
      /\ event[r].type = IF activeAt(p, k) THEN inactiveType(k) ELSE activeType(k)
      /\ \A i \in committed : event[i].parent = p => event[i].seq < event[r].seq
  BY <1>1, <1>2 DEF SafeInv, RowInv, TransitionInv, FlipInv
<1>4. /\ committed' = committed \cup {r} /\ event' = event
      /\ \A i \in IDs : event[i].seq \in Nat
      /\ r \in IDs /\ committed \subseteq IDs
      /\ activeType(k) # inactiveType(k)
  BY <1>1 DEF Published, SafeInv, TypeInv, TypeOK, Event, IDs, activeType, inactiveType
<1>5. CASE activeAt(p, k)
  <2>1. \A i \in committed' : event'[i].parent = p /\ event'[i].type = activeType(k) =>
            event'[i].seq < event'[r].seq
    BY <1>3, <1>4, <1>5
  <2>2. ~activeAt(p, k)'
    BY <2>1, <1>3, <1>4, <1>5 DEF activeAt
  <2> QED BY <2>2, <1>5
<1>6. CASE ~activeAt(p, k)
  <2>1. activeAt(p, k)'
    BY <1>3, <1>4, <1>6 DEF activeAt
  <2> QED BY <2>1, <1>6
<1> QED BY <1>5, <1>6

ToggleInv == SafeInv /\ LockInv /\ FlipInv

LEMMA ToggleInvStep == ToggleInv /\ [Next]_vars => ToggleInv'
<1> SUFFICES ASSUME ToggleInv, [Next]_vars PROVE ToggleInv'
  OBVIOUS
<1>1. SafeInv'
  BY SafeStep DEF ToggleInv
<1>2. ASSUME NEW r \in Requests, Begin(r) \/ Step(r) \/ Commit(r, FALSE) \/ Fail(r)
      PROVE  LockInv' /\ FlipInv'
  BY <1>2, LockStep, FlipStep DEF ToggleInv
<1>3. ASSUME UNCHANGED vars
      PROVE  LockInv' /\ FlipInv'
  BY <1>3 DEF vars, ToggleInv, LockInv, FlipInv, activeAt
<1> QED BY <1>1, <1>2, <1>3 DEF Next, Finished, ToggleInv

LEMMA ToggleInit == Init => ToggleInv
BY SafeInit, LockInit DEF ToggleInv

\* Every committed toggle flips the star or alert state that readers derive
\* (ToggleFlips): the code's FOR UPDATE on the parent is enough against other
\* toggles and against transitions created through the generic endpoint.
THEOREM TogglesFlip == Spec => ToggleFlips
<1>1. Init => ToggleInv
  BY ToggleInit
<1>2. ToggleInv /\ [Next]_vars => [flipsAtCommit]_vars
  <2> SUFFICES ASSUME ToggleInv, Next, NEW t \in Requests,
                      t \in committed' \ committed, input[t].op \in Kinds
               PROVE  isActive(db', input[t].target, input[t].op)
                        <=> ~isActive(db, input[t].target, input[t].op)
    BY DEF flipsAtCommit
  <2>1. PICK r \in Requests : Begin(r) \/ Step(r) \/ Commit(r, FALSE) \/ Fail(r)
    BY DEF Next, Finished, vars
  <2>2. PICK p, k : p = input[t].target /\ k = input[t].op
    OBVIOUS
  <2>3. activeAt(p, k)' <=> ~activeAt(p, k)
    BY <2>1, <2>2, FlipAtCommit DEF ToggleInv
  <2>4. /\ isActive(db, p, k) <=> activeAt(p, k)
        /\ isActive(db', p, k) <=> activeAt(p, k)'
    BY ActiveByID
  <2> QED BY <2>2, <2>3, <2>4
<1> QED BY <1>1, <1>2, ToggleInvStep, PTL DEF Spec, ToggleFlips

-----------------------------------------------------------------------------
(* Idempotent creation.                                                    *)

AnswerInv ==
    \A r \in Requests :
        /\ pc[r] \in CreateSteps /\ input[r].op = "create" => event[r].ext = input[r].ext
        /\ pc[r] = "duplicate" => \E i \in committed : event[i].ext = event[r].ext
        /\ pc[r] = "duplicate" => event[r].ext # None
        /\ input[r].op = "create" /\ input[r].ext # None
           /\ reply[r].status \in {"created", "duplicate"}
           => reply[r].id \in committed /\ event[reply[r].id].ext = input[r].ext

LEMMA AnswerStep ==
    ASSUME SafeInv, AnswerInv, NEW r \in Requests,
           Begin(r) \/ Step(r) \/ Commit(r, FALSE) \/ Fail(r)
    PROVE  AnswerInv'
<1> DEFINE Q(s) ==
        /\ pc'[s] \in CreateSteps /\ input'[s].op = "create" => event'[s].ext = input'[s].ext
        /\ pc'[s] = "duplicate" => \E i \in committed' : event'[i].ext = event'[s].ext
        /\ pc'[s] = "duplicate" => event'[s].ext # None
        /\ input'[s].op = "create" /\ input'[s].ext # None
           /\ reply'[s].status \in {"created", "duplicate"}
           => reply'[s].id \in committed' /\ event'[reply'[s].id].ext = input'[s].ext
<1>1. /\ \A s \in Requests \ {r} :
            pc'[s] = pc[s] /\ input'[s] = input[s] /\ reply'[s] = reply[s]
      /\ \A i \in IDs \ {r} : event'[i] = event[i]
      /\ committed \subseteq committed'
  BY Frame DEF SafeInv, TypeInv
<1>2. /\ Requests \subseteq IDs /\ committed \subseteq IDs
      /\ r \notin committed
      /\ r \in DOMAIN pc /\ r \in DOMAIN reply /\ r \in DOMAIN input
  BY OwnRow DEF SafeInv, TypeInv, TypeOK, RowInv, IDs
<1>3. \A i \in committed : event'[i] = event[i]
  BY <1>1, <1>2
<1>4. ASSUME NEW s \in Requests \ {r} PROVE Q(s)
  BY <1>1, <1>2, <1>3 DEF AnswerInv
<1>5. Q(r)
  <2> USE <1>1, <1>2, <1>3 DEF AnswerInv, SafeInv, TypeInv, TypeOK, PathOK,
      answer, goto, draft, CreateSteps, NoReply
  <2>1. CASE Begin(r)
    BY <2>1 DEF Begin, BeginCreate, BeginLinks, BeginToggle, BeginClose
  <2>2. CASE LookupExternal(r)
    <3>1. event'[r].ext = event[r].ext
      BY <2>2 DEF LookupExternal, Event
    <3>2. ASSUME NEW i \in withExternalID(event[r].ext), answer(r, duplicateStatus(r), i)
          PROVE  Q(r)
      BY <3>1, <3>2, <2>2 DEF LookupExternal, withExternalID, duplicateStatus
    <3>3. CASE ~\E i \in withExternalID(event[r].ext) : answer(r, duplicateStatus(r), i)
      BY <3>1, <3>3, <2>2 DEF LookupExternal
    <3> QED BY <3>2, <3>3
  <2>3. CASE RequireParent(r)
    BY <2>3 DEF RequireParent
  <2>4. CASE Insert(r)
    BY <2>4 DEF Insert, Event
  <2>5. CASE CheckUnique(r)
    BY <2>5 DEF CheckUnique, withExternalID
  <2>6. CASE DuplicateLookup(r)
    BY <2>6 DEF DuplicateLookup, withExternalID
  <2>7. CASE CheckForeignKey(r)
    BY <2>7 DEF CheckForeignKey
  <2>8. CASE BeginTransition(r) \/ LockParent(r) \/ GetStart(r)
    BY <2>8 DEF BeginTransition, LockParent, GetStart
  <2>9. CASE ReadLatest(r) \/ InsertTransition(r)
    BY <2>9 DEF ReadLatest, InsertTransition
  <2>10. CASE ReadOperationState(r)
    BY <2>10 DEF ReadOperationState, CloseSteps
  <2>11. CASE Commit(r, TRUE) \/ Commit(r, FALSE)
    BY <2>11 DEF Commit, ToggleSteps, Kinds
  <2>12. CASE Fail(r)
    BY <2>12 DEF Fail
  <2> QED
    BY <2>1, <2>2, <2>3, <2>4, <2>5, <2>6, <2>7, <2>8, <2>9, <2>10, <2>11, <2>12 DEF Step
<1> QED BY <1>4, <1>5 DEF AnswerInv

LEMMA AnswerInit == Init => AnswerInv
<1> SUFFICES ASSUME Init PROVE AnswerInv
  OBVIOUS
<1>1. \A r \in Requests : pc[r] = "idle" /\ reply[r].status = "none"
  BY DEF Init, NoReply
<1> QED BY <1>1 DEF AnswerInv, CreateSteps

\* Whatever races and retries there are, all successful answers to creates
\* with one external id name the one recorded event (IdempotentCreate).
THEOREM CreateIsIdempotent == Spec => []IdempotentCreate
<1>1. Init => SafeInv /\ AnswerInv
  BY SafeInit, AnswerInit
<1>2. SafeInv /\ AnswerInv /\ [Next]_vars => (SafeInv /\ AnswerInv)'
  <2> SUFFICES ASSUME SafeInv, AnswerInv, [Next]_vars PROVE AnswerInv'
    BY SafeStep
  <2>1. ASSUME NEW r \in Requests, Begin(r) \/ Step(r) \/ Commit(r, FALSE) \/ Fail(r)
        PROVE  AnswerInv'
    BY <2>1, AnswerStep
  <2>2. CASE UNCHANGED vars
    BY <2>2 DEF vars, AnswerInv
  <2> QED BY <2>1, <2>2 DEF Next, Finished
<1>3. SafeInv /\ AnswerInv => IdempotentCreate
  BY DEF SafeInv, TypeInv, TypeOK, RowInv, ExtInv, Indexed, AnswerInv, IdempotentCreate,
     withExternalID
<1> QED BY <1>1, <1>2, <1>3, PTL DEF Spec

-----------------------------------------------------------------------------
(* Closing operations.  A close request carries the end event of the       *)
(* operation its start names, from the read of the operation's state on,   *)
(* and a recorded event with a close external id is such an end: it names  *)
(* the operation by the SQL rule that its external id names by the Go one. *)

\* Event e is the end event of the operation its external id names.
IsEnd(e) ==
    /\ e.parent = None
    /\ Tag(e.tags, "phase") = "end"
    /\ correlation(e).value # EmptyText
    /\ e.ext = operationCloseExternalID(e.type, correlation(e))

\* Request r has drafted the end event of the operation it closes.
Closing(r) ==
    LET start == event[input[r].target]
    IN  /\ input[r].target \in committed
        /\ operationIdentity(start) # NoIdentity
        /\ event[r].ext = operationCloseExternalID(start.type, operationIdentity(start))
        /\ IsEnd(event[r])

CloseInv ==
    /\ \A r \in Requests :
        /\ pc[r] = "state" => operationIdentity(event[input[r].target]) # NoIdentity
        /\ input[r].op = "close" /\ (pc[r] \in CreateSteps \/ r \in committed) => Closing(r)
        /\ pc[r] \in CreateSteps /\ input[r].op # "close" => event[r].ext \notin CloseExts
        /\ input[r].op = "close" /\ reply[r].status \in {"created", "operation_closed"} =>
            /\ input[r].target \in committed
            /\ operationOf(r) \in ended(db)
    /\ \A i \in committed : event[i].ext \in CloseExts => IsEnd(event[i])

\* Where the Go rule finds an identity, the SQL rule finds the same, in the
\* start and in the end event that CloseOperationAs builds from its tags.
LEMMA IdentityIsCorrelation ==
    ASSUME NEW e \in Event, operationIdentity(e) # NoIdentity
    PROVE  /\ e.parent = None
           /\ Tag(e.tags, "phase") = "start"
           /\ correlation(e) = operationIdentity(e)
           /\ correlation(e).value # EmptyText
BY DEF operationIdentity, correlation, NoIdentity

LEMMA EndNamesOperation ==
    ASSUME NEW e \in Event, NEW end, operationIdentity(e) # NoIdentity,
           end.parent = None, end.type = e.type, end.tags = closeTags(e),
           end.ext = operationCloseExternalID(e.type, operationIdentity(e))
    PROVE  IsEnd(end)
<1>1. /\ end.tags["phase"] = "end"
      /\ end.tags["change_id"] = e.tags["change_id"]
      /\ end.tags["deploy_id"] = e.tags["deploy_id"]
  BY DEF closeTags, Event, TagMap, TagKeys
<1>2. "end" # None
  BY TextAssumption DEF Phases
<1>3. correlation(end) = correlation(e)
  BY <1>1 DEF correlation, Tag
<1> QED BY <1>1, <1>2, <1>3, IdentityIsCorrelation DEF IsEnd, Tag

\* A recorded end event with that close external id ends the operation.
LEMMA CloseExternalIDEnds ==
    ASSUME NEW D, NEW e \in D, IsEnd(e), NEW type, NEW identity,
           e.ext = operationCloseExternalID(type, identity)
    PROVE  <<type, identity>> \in ended(D)
<1>1. e.type = type /\ correlation(e) = identity
  <2>1. e.ext = operationCloseExternalID(e.type, correlation(e))
    BY DEF IsEnd
  <2> QED BY <2>1 DEF operationCloseExternalID
<1>2. e \in correlated(D, "end")
  BY DEF IsEnd, correlated
<1> QED BY <1>1, <1>2 DEF ended

\* OperationState answers "closed" for a recorded start only if some end names
\* its operation.
LEMMA ClosedIsEnded ==
    ASSUME NEW D, NEW e \in D, e \in Event, operationIdentity(e) # NoIdentity,
           OperationState(D, e) = "closed"
    PROVE  <<e.type, operationIdentity(e)>> \in ended(D)
<1>1. e \in correlated(D, "start")
  BY IdentityIsCorrelation DEF correlated
<1> QED BY <1>1, IdentityIsCorrelation DEF OperationState, active

LEMMA EndedGrows ==
    ASSUME NEW D, NEW E, D \subseteq E
    PROVE  ended(D) \subseteq ended(E)
BY DEF ended, correlated

LEMMA CloseInit == Init => CloseInv
<1> SUFFICES ASSUME Init PROVE CloseInv
  OBVIOUS
<1>1. /\ \A r \in Requests : pc[r] = "idle" /\ reply[r].status = "none" /\ r \notin committed
      /\ committed = SeedIDs
      /\ \A i \in SeedIDs : event[i] = Seed[i]
  BY ConstantAssumption DEF Init, IDs, NoReply
<1>2. \A i \in committed : event[i].ext \in CloseExts => IsEnd(event[i])
  BY <1>1, SeedCloseAssumption DEF IsEnd
<1> QED BY <1>1, <1>2 DEF CloseInv, CreateSteps

\* What is true of a recorded event, or of an ended operation, stays true.
LEMMA RecordedStays ==
    ASSUME SafeInv, NEW r \in Requests,
           Begin(r) \/ Step(r) \/ Commit(r, FALSE) \/ Fail(r)
    PROVE  /\ r \notin committed
           /\ committed \subseteq committed'
           /\ \A i \in committed : event'[i] = event[i]
           /\ db \subseteq db'
           /\ ended(db) \subseteq ended(db')
<1>1. /\ r \notin committed
      /\ committed \subseteq committed'
      /\ \A i \in committed : event'[i] = event[i]
  BY Frame, OwnRow DEF SafeInv, TypeInv, TypeOK, RowInv
<1>2. db \subseteq db'
  BY <1>1 DEF db
<1> QED BY <1>1, <1>2, EndedGrows

\* The answers to a close: what was found or written ends the operation.
LEMMA CloseStep ==
    ASSUME SafeInv, AnswerInv, CloseInv, NEW r \in Requests,
           Begin(r) \/ Step(r) \/ Commit(r, FALSE) \/ Fail(r)
    PROVE  CloseInv'
<1> DEFINE Told(s) == input[s].op = "close"
                      /\ reply[s].status \in {"created", "operation_closed"}
           Q(s) == /\ pc[s] = "state" => operationIdentity(event[input[s].target]) # NoIdentity
                   /\ input[s].op = "close" /\ (pc[s] \in CreateSteps \/ s \in committed)
                        => Closing(s)
                   /\ pc[s] \in CreateSteps /\ input[s].op # "close" =>
                        event[s].ext \notin CloseExts
                   /\ Told(s) => input[s].target \in committed /\ operationOf(s) \in ended(db)
<1>1. /\ \A s \in Requests \ {r} :
            pc'[s] = pc[s] /\ input'[s] = input[s] /\ reply'[s] = reply[s]
            /\ event'[s] = event[s] /\ (s \in committed' => s \in committed)
      /\ r \notin committed
      /\ committed \subseteq committed'
      /\ committed' \subseteq committed \cup {r}
      /\ \A i \in committed : event'[i] = event[i]
      /\ ended(db) \subseteq ended(db')
  BY Frame, RecordedStays DEF SafeInv, TypeInv, IDs
<1>2. ASSUME NEW s \in Requests \ {r} PROVE Q(s)'
  <2>1. Q(s)
    BY DEF CloseInv
  <2>2. pc[s] = "state" => input[s].target \in committed
    BY DEF SafeInv, TypeInv, PathOK
  <2> QED BY <1>1, <2>1, <2>2 DEF Closing, operationOf
<1>3. Q(r) /\ event \in [IDs -> Event] /\ r \in IDs /\ committed \subseteq IDs
  BY DEF CloseInv, SafeInv, TypeInv, TypeOK, IDs
<1>4. pc[r] # "done" => reply[r].status = "none"
  BY DEF SafeInv, TypeInv, PathOK, NoReply
<1>5. ASSUME Closing(r), NEW i \in committed, event[i].ext = event[r].ext
      PROVE  operationOf(r) \in ended(db)
  <2> DEFINE start == event[input[r].target]
  <2>1. start \in Event
    BY <1>3, <1>5 DEF Closing
  <2>2. event[i].ext = operationCloseExternalID(start.type, operationIdentity(start))
    BY <1>5 DEF Closing
  <2>3. IsEnd(event[i])
    BY <2>1, <2>2, CloseExtTyped DEF CloseInv
  <2>4. event[i] \in db
    BY DEF db
  <2> QED BY <2>2, <2>3, <2>4, CloseExternalIDEnds DEF operationOf
<1>6. Q(r)'
  <2> USE <1>1, <1>3, <1>4 DEF answer, goto, SafeInv, TypeInv, TypeOK
  <2>1. CASE Begin(r)
    <3>1. \A in \in Inputs : in.ext \notin CloseExts
      BY ConstantAssumption DEF Input, ExternalIDs
    <3> QED BY <2>1, <3>1, ConstantAssumption
            DEF Begin, BeginCreate, BeginLinks, BeginToggle, BeginClose, draft, ExternalIDs,
                CreateSteps
  <2>2. CASE LookupExternal(r)
    <3>1. /\ pc[r] = "lookup" /\ input' = input /\ committed' = committed
          /\ event'[r].ext = event[r].ext
      BY <2>2 DEF LookupExternal, Event
    <3>2. CASE \E i \in withExternalID(event[r].ext) : answer(r, duplicateStatus(r), i) /\ UNCHANGED event
      <4>1. PICK i \in committed : event[i].ext = event[r].ext
        BY <3>2 DEF withExternalID
      <4>2. event' = event /\ pc'[r] = "done"
        BY <3>2
      <4>3. input[r].op = "close" => operationOf(r) \in ended(db) /\ input[r].target \in committed
        BY <1>5, <3>1, <4>1 DEF CreateSteps, Closing
      <4>4. input[r].op = "close" => operationOf(r)' \in ended(db') /\ input'[r].target \in committed'
        BY <3>1, <4>2, <4>3 DEF operationOf
      <4> QED BY <3>1, <4>2, <4>4 DEF CreateSteps
    <3>3. CASE answer(r, "invalid", None) /\ UNCHANGED event
      BY <3>1, <3>3 DEF CreateSteps
    <3>4. CASE /\ event' = [event EXCEPT ![r].type = createdType(r), ![r].tags = createdTags(r)]
               /\ goto(r, IF event[r].parent = None THEN "insert" ELSE "parent")
      <4>1. input[r].op = "close" => event'[r] = event[r]
        BY <3>4 DEF createdType, createdTags, enforceTagPolicy, Event
      <4>2. input[r].op = "close" => Closing(r)'
        BY <3>1, <4>1 DEF Closing, CreateSteps
      <4> QED BY <3>1, <3>4, <4>2 DEF CreateSteps
    <3> QED BY <2>2, <3>2, <3>3, <3>4 DEF LookupExternal
  <2>3. CASE RequireParent(r) \/ CheckUnique(r) \/ CheckForeignKey(r)
    BY <2>3 DEF RequireParent, CheckUnique, CheckForeignKey, CreateSteps, Closing
  <2>4. CASE Insert(r)
    <3>1. /\ pc[r] = "insert" /\ pc'[r] = "unique" /\ committed' = committed
          /\ input' = input /\ reply' = reply
          /\ event' = [event EXCEPT ![r].seq = nextSeq]
      BY <2>4 DEF Insert
    <3>2. event'[r].ext = event[r].ext /\ (IsEnd(event[r]) => IsEnd(event'[r]))
      <4>1. /\ event'[r].ext = event[r].ext /\ event'[r].parent = event[r].parent
            /\ event'[r].type = event[r].type /\ event'[r].tags = event[r].tags
        BY <3>1 DEF Event
      <4>2. correlation(event'[r]) = correlation(event[r])
        BY <4>1 DEF correlation
      <4> QED BY <4>1, <4>2 DEF IsEnd
    <3> QED BY <3>1, <3>2 DEF CreateSteps, Closing
  <2>5. CASE DuplicateLookup(r)
    <3>1. /\ pc[r] = "duplicate" /\ pc'[r] = "done"
          /\ UNCHANGED <<input, event, committed>>
      BY <2>5 DEF DuplicateLookup
    <3>2. PICK i \in committed : event[i].ext = event[r].ext
      BY <3>1 DEF AnswerInv
    <3>3. input[r].op = "close" => operationOf(r) \in ended(db) /\ input[r].target \in committed
      BY <1>5, <3>1, <3>2 DEF CreateSteps, Closing
    <3> QED BY <3>1, <3>3 DEF CreateSteps, operationOf
  <2>6. CASE BeginTransition(r) \/ LockParent(r) \/ ReadLatest(r) \/ InsertTransition(r)
    BY <2>6 DEF BeginTransition, LockParent, ReadLatest, InsertTransition, PathOK, ToggleSteps, Kinds, CreateSteps
  <2>7. CASE GetStart(r)
    BY <2>7 DEF GetStart, CreateSteps
  <2>8. CASE ReadOperationState(r)
    <3> DEFINE start == event[input[r].target]
               ext == operationCloseExternalID(start.type, operationIdentity(start))
    <3>1. /\ pc[r] = "state" /\ UNCHANGED <<input, committed>>
          /\ input[r].op = "close" /\ input[r].target \in committed
      BY <2>8 DEF ReadOperationState, PathOK, CloseSteps
    <3>2. start \in Event /\ start \in db /\ operationIdentity(start) # NoIdentity
      BY <3>1 DEF db
    <3>3. CASE /\ OperationState(db, start) = "closed"
               /\ answer(r, "operation_closed", None) /\ UNCHANGED event
      <4>1. operationOf(r) \in ended(db)
        BY <3>2, <3>3, ClosedIsEnded DEF operationOf
      <4> QED BY <3>1, <3>3, <4>1 DEF CreateSteps, operationOf
    <3>4. CASE draft(r, ext, None, start.type, closeTags(start)) /\ goto(r, "lookup")
      <4>1. /\ event'[r].ext = ext /\ event'[r].parent = None
            /\ event'[r].type = start.type /\ event'[r].tags = closeTags(start)
        BY <3>4 DEF draft
      <4>2. IsEnd(event'[r])
        BY <3>2, <4>1, EndNamesOperation
      <4>3. Closing(r)'
        BY <3>1, <3>2, <4>1, <4>2 DEF Closing
      <4> QED BY <3>1, <3>4, <4>3 DEF CreateSteps
    <3> QED BY <2>8, <3>3, <3>4 DEF ReadOperationState
  <2>9. CASE Commit(r, TRUE) \/ Commit(r, FALSE)
    <3>1. /\ pc[r] \in {"commit", "commit_transition"} /\ pc'[r] = "done"
          /\ UNCHANGED <<input, event>>
          /\ committed' = committed \cup {r}
      BY <2>9 DEF Commit
    <3>2. CASE input[r].op = "close"
      <4>1. Closing(r)
        BY <3>1, <3>2 DEF CreateSteps, PathOK, ToggleSteps, Kinds
      <4>2. event[r] \in db'
        BY <3>1 DEF db
      <4>3. operationOf(r) \in ended(db')
        BY <4>1, <4>2, CloseExternalIDEnds DEF Closing, operationOf
      <4> QED BY <3>1, <4>1, <4>3 DEF Closing, operationOf, CreateSteps
    <3>3. CASE input[r].op # "close"
      BY <3>1, <3>3 DEF CreateSteps
    <3> QED BY <3>2, <3>3
  <2>10. CASE Fail(r)
    BY <2>10 DEF Fail, CreateSteps
  <2> QED
    BY <2>1, <2>2, <2>3, <2>4, <2>5, <2>6, <2>7, <2>8, <2>9, <2>10 DEF Step
<1>7. \A i \in committed' : event'[i].ext \in CloseExts => IsEnd(event'[i])
  <2> SUFFICES ASSUME r \in committed', event'[r].ext \in CloseExts
               PROVE  IsEnd(event'[r])
    BY <1>1 DEF CloseInv
  <2>1. Published(r)
    BY <1>1, OwnRow DEF SafeInv, RowInv, Unnumbered, ParentKnown, Drawn, Checked, Shared,
       Drafted, Published
  <2>2. CASE pc[r] = "commit"
    BY <1>3, <2>1, <2>2 DEF Published, CreateSteps, Closing
  <2>3. CASE pc[r] = "commit_transition"
    BY <2>1, <2>3, ConstantAssumption DEF Published, SafeInv, RowInv, TransitionInv, ExternalIDs
  <2> QED BY <2>1, <2>2, <2>3 DEF Published
<1> QED BY <1>2, <1>6, <1>7 DEF CloseInv

FullInv == ToggleInv /\ AnswerInv /\ CloseInv

LEMMA FullInit == Init => FullInv
BY ToggleInit, AnswerInit, CloseInit DEF FullInv

LEMMA FullStep == FullInv /\ [Next]_vars => FullInv'
<1> SUFFICES ASSUME FullInv, [Next]_vars PROVE FullInv'
  OBVIOUS
<1>1. ToggleInv' /\ SafeInv
  BY ToggleInvStep DEF FullInv, ToggleInv
<1>2. ASSUME NEW r \in Requests, Begin(r) \/ Step(r) \/ Commit(r, FALSE) \/ Fail(r)
      PROVE  AnswerInv' /\ CloseInv'
  BY <1>1, <1>2, AnswerStep, CloseStep DEF FullInv
<1>3. ASSUME UNCHANGED vars
      PROVE  AnswerInv' /\ CloseInv'
  <2>1. AnswerInv'
    BY <1>3 DEF vars, FullInv, AnswerInv
  <2>2. db' = db
    BY <1>3 DEF vars, db
  <2>3. CloseInv'
    BY <1>3, <2>2 DEF vars, FullInv, CloseInv, Closing, operationOf
  <2> QED BY <2>1, <2>3
<1> QED BY <1>1, <1>2, <1>3 DEF Next, Finished, FullInv

LEMMA FullInvariant == Spec => []FullInv
BY FullInit, FullStep, PTL DEF Spec

\* Whatever answer a close gets, it is true (CloseMeansClosed): after success,
\* also the success of a close that found another one's end event, and after
\* "already closed", the operation has ended by the SQL rule behind Current.
THEOREM CloseIsTruthful == Spec => []CloseMeansClosed
<1>1. FullInv => CloseMeansClosed
  BY DEF FullInv, CloseInv, CloseMeansClosed
<1> QED BY <1>1, FullInvariant, PTL

\* Closes of one operation write one end event (CloseWritesOnce), although
\* each reads the state of the operation before the others have committed.
THEOREM CloseIsWrittenOnce == Spec => []CloseWritesOnce
<1>1. FullInv => CloseWritesOnce
  <2> SUFFICES ASSUME FullInv, NEW r \in committed \cap Requests,
                      NEW s \in committed \cap Requests,
                      input[r].op = "close", input[s].op = "close",
                      operationOf(r) = operationOf(s)
               PROVE  r = s
    BY DEF CloseWritesOnce
  <2>1. Closing(r) /\ Closing(s)
    BY DEF FullInv, CloseInv
  <2>2. event[r].ext = event[s].ext
    BY <2>1 DEF Closing, operationOf, operationCloseExternalID
  <2>3. event[r].ext # None /\ r \in IDs /\ s \in IDs
    BY <2>1, CloseExtTyped, ConstantAssumption
       DEF Closing, FullInv, ToggleInv, SafeInv, TypeInv, TypeOK, ExternalIDs, IDs
  <2> QED BY <2>2, <2>3 DEF FullInv, ToggleInv, SafeInv, RowInv, ExtInv, Indexed
<1> QED BY <1>1, FullInvariant, PTL

-----------------------------------------------------------------------------
(* The refinement of ChangeLog.  Only the answers and the commits show in  *)
(* the log: every other statement is a stuttering step.  FullInv says what *)
(* an answer is worth; DraftInv, that a request asks what its event says.  *)

DraftInv ==
    /\ \A i \in IDs : event[i].id = i
    /\ \A r \in Requests :
        /\ pc[r] = "idle" => input[r] = NoInput
        /\ pc[r] = "parent" => event[r].parent # None
        /\ pc[r] \in CreateSteps /\ input[r].op # "close" =>
            event[r].parent = input[r].target
        /\ pc[r] \in CreateSteps /\ input[r].op = "links" =>
            event[r].ext = None /\ event[r].type = "link"

LEMMA DraftInit == Init => DraftInv
<1> SUFFICES ASSUME Init PROVE DraftInv
  OBVIOUS
<1>1. \A i \in IDs : event[i].id = i
  BY SeedAssumption DEF Init, Blank
<1>2. \A r \in Requests : pc[r] = "idle" /\ input[r] = NoInput
  BY DEF Init
<1> QED BY <1>1, <1>2 DEF DraftInv, CreateSteps

LEMMA DraftStep ==
    ASSUME SafeInv, DraftInv, NEW r \in Requests,
           Begin(r) \/ Step(r) \/ Commit(r, FALSE) \/ Fail(r)
    PROVE  DraftInv'
<1> DEFINE Q(s) == /\ event[s].id = s
                   /\ pc[s] = "idle" => input[s] = NoInput
                   /\ pc[s] = "parent" => event[s].parent # None
                   /\ pc[s] \in CreateSteps /\ input[s].op # "close" =>
                       event[s].parent = input[s].target
                   /\ pc[s] \in CreateSteps /\ input[s].op = "links" =>
                       event[s].ext = None /\ event[s].type = "link"
<1>1. /\ \A s \in Requests \ {r} : pc'[s] = pc[s] /\ input'[s] = input[s]
      /\ \A i \in IDs \ {r} : event'[i] = event[i]
      /\ Requests \subseteq IDs
  BY Frame DEF SafeInv, TypeInv, IDs
<1>2. ASSUME NEW s \in Requests \ {r} PROVE Q(s)'
  BY <1>1 DEF DraftInv
<1>3. Q(r)'
  <2>1. Q(r) /\ event[r] \in Event /\ r \in DOMAIN pc /\ r \in DOMAIN event /\ r \in DOMAIN input
    BY <1>1 DEF DraftInv, SafeInv, TypeInv, TypeOK
  <2> USE <2>1 DEF answer, goto, draft, CreateSteps
  <2>2. CASE Begin(r)
    BY <2>2 DEF Begin, BeginCreate, BeginLinks, BeginToggle, BeginClose, Kinds
  <2>3. CASE LookupExternal(r)
    <3>1. input[r].op = "links" => createdType(r) = "link"
      BY <2>3, TextAssumption DEF LookupExternal, createdType, enforceTagPolicy, canonicalType
    <3> QED BY <2>3, <3>1 DEF LookupExternal, Event
  <2>4. CASE RequireParent(r)
    BY <2>4 DEF RequireParent
  <2>5. CASE Insert(r) \/ InsertTransition(r)
    BY <2>5 DEF Insert, InsertTransition, Event
  <2>6. CASE CheckUnique(r)
    BY <2>6 DEF CheckUnique
  <2>7. CASE DuplicateLookup(r) \/ CheckForeignKey(r)
    BY <2>7 DEF DuplicateLookup, CheckForeignKey
  <2>8. CASE BeginTransition(r) \/ LockParent(r) \/ ReadLatest(r) \/ GetStart(r)
    BY <2>8 DEF BeginTransition, LockParent, ReadLatest, GetStart
  <2>9. CASE ReadOperationState(r)
    <3>1. input[r].op = "close"
      BY <2>9 DEF ReadOperationState, SafeInv, TypeInv, PathOK, CloseSteps
    <3> QED BY <2>9, <3>1 DEF ReadOperationState
  <2>10. CASE Commit(r, TRUE) \/ Commit(r, FALSE)
    BY <2>10 DEF Commit
  <2>11. CASE Fail(r)
    BY <2>11 DEF Fail, Blank
  <2> QED
    BY <2>2, <2>3, <2>4, <2>5, <2>6, <2>7, <2>8, <2>9, <2>10, <2>11 DEF Step
<1> QED BY <1>1, <1>2, <1>3 DEF DraftInv

\* ChangeLog reads the event model as ChangeRegistry does.
LEMMA SameModel ==
    ASSUME NEW D, NEW e, NEW p, NEW k, NEW t
    PROVE  /\ Registry!Kinds = Kinds
           /\ Registry!NoIdentity = NoIdentity
           /\ Registry!operationIdentity(e) = operationIdentity(e)
           /\ Registry!operationCloseExternalID(t, k) = operationCloseExternalID(t, k)
           /\ Registry!ended(D) = ended(D)
           /\ Registry!isActive(D, p, k) <=> isActive(D, p, k)
<1>1. /\ Registry!Kinds = Kinds
      /\ Registry!NoIdentity = NoIdentity
      /\ Registry!operationCloseExternalID(t, k) = operationCloseExternalID(t, k)
  BY Zenon DEF Registry!Kinds, Kinds, Registry!NoIdentity, NoIdentity,
     Registry!operationCloseExternalID, operationCloseExternalID, Registry!EmptyText, EmptyText
<1>2. Registry!operationIdentity(e) = operationIdentity(e)
  BY Zenon DEF Registry!operationIdentity, operationIdentity, Registry!Tag, Tag,
     Registry!NoIdentity, NoIdentity, Registry!EmptyText, EmptyText
<1>3. Registry!ended(D) = ended(D)
  BY Zenon DEF Registry!ended, ended, Registry!correlated, correlated, Registry!correlation,
     correlation, Registry!Tag, Tag, Registry!EmptyText, EmptyText
<1>4. Registry!isActive(D, p, k) <=> isActive(D, p, k)
  BY Zenon DEF Registry!isActive, isActive, Registry!transitionsOf, transitionsOf,
     Registry!activeType, activeType, Registry!inactiveType, inactiveType
<1> QED BY <1>1, <1>2, <1>3, <1>4

\* What the log shows of a step by the statement that took it: nothing, a
\* refusal, an earlier event, or the new one.
LEMMA BeginImplements ==
    ASSUME FullInv, DraftInv, NEW r \in Requests, Begin(r)
    PROVE  Registry!Ask(r) \/ Registry!Refuse(r)
<1>1. SafeInv /\ pc[r] = "idle"
  BY DEF FullInv, ToggleInv, Begin
<1>2. db' = db /\ reply[r] = NoReply /\ input[r] = NoInput
  <2>1. committed' = committed /\ \A i \in committed : event'[i] = event[i]
    BY <1>1, RecordedStays DEF Begin
  <2> QED BY <1>1, <2>1 DEF db, SafeInv, TypeInv, PathOK, DraftInv
<1>3. PICK in \in Inputs :
        /\ input' = [input EXCEPT ![r] = in]
        /\ BeginCreate(r, in) \/ BeginLinks(r, in) \/ BeginToggle(r, in) \/ BeginClose(r, in)
  BY DEF Begin
<1>4. CASE reply' = reply
  BY <1>2, <1>3, <1>4 DEF Registry!Ask
<1>5. CASE answer(r, "invalid", None) /\ in.op \in {"links", "close"}
  <2>1. input'[r] = in /\ Registry!tell(r, "invalid", None)
    BY <1>1, <1>3, <1>5 DEF answer, Registry!tell, SafeInv, TypeInv, TypeOK
  <2>2. in.op \notin Registry!Kinds
    BY <1>5 DEF Registry!Kinds
  <2> QED BY <1>2, <1>3, <1>5, <2>1, <2>2 DEF Registry!Refuse
<1> QED BY <1>3, <1>4, <1>5 DEF BeginCreate, BeginLinks, BeginToggle, BeginClose, goto

\* A request that has begun and not ended has had no answer.
LEMMA Unanswered ==
    ASSUME FullInv, NEW r \in Requests, pc[r] # "done"
    PROVE  reply[r] = NoReply
BY DEF FullInv, ToggleInv, SafeInv, TypeInv, PathOK

LEMMA OpTyped ==
    ASSUME TypeOK, NEW r \in Requests
    PROVE  input[r].op \in Ops
<1>1. NoInput.op = "create"
  BY Zenon DEF NoInput
<1>2. \A in \in Inputs : in.op \in Ops
  BY ConstantAssumption DEF Input
<1>3. input[r] \in Inputs \cup {NoInput}
  BY DEF TypeOK
<1> QED BY <1>1, <1>2, <1>3 DEF Ops

\* The recorded event with a given id.
LEMMA RecordedByID ==
    ASSUME FullInv, DraftInv, NEW t
    PROVE  /\ t \in committed <=> \E f \in db : f.id = t
           /\ t \in committed => {f \in db : f.id = t} = {event[t]}
           /\ t \notin committed => {f \in db : f.id = t} = {}
BY DEF FullInv, ToggleInv, SafeInv, TypeInv, TypeOK, DraftInv, db

\* A successful answer that names an event recorded earlier.
LEMMA RepeatImplements ==
    ASSUME FullInv, DraftInv, NEW r \in Requests, pc[r] \in CreateSteps,
           event[r].ext # None, NEW i \in committed, event[i].ext = event[r].ext,
           answer(r, duplicateStatus(r), i), UNCHANGED <<input, event, committed>>
    PROVE  Registry!Repeat(r)
<1>1. reply[r] = NoReply
  BY Unanswered DEF CreateSteps
<1>2. db' = db /\ event[i] \in db /\ event[i].id = i
  BY DEF db, DraftInv, FullInv, ToggleInv, SafeInv, TypeInv, TypeOK
<1>3. input[r].op \in {"create", "close"}
  <2>1. input[r].op \in Ops
    BY OpTyped DEF FullInv, ToggleInv, SafeInv, TypeInv
  <2> QED BY <2>1 DEF Ops, DraftInv, FullInv, ToggleInv, SafeInv, TypeInv, PathOK, Kinds
<1>4. CASE input[r].op = "create"
  <2>1. event[r].ext = input[r].ext
    BY <1>4 DEF FullInv, AnswerInv
  <2>2. Registry!tell(r, "duplicate", event[i].id)
    BY <1>2, <1>4 DEF Registry!tell, answer, duplicateStatus
  <2> QED BY <1>1, <1>2, <1>4, <2>1, <2>2 DEF Registry!Repeat
<1>5. CASE input[r].op = "close"
  <2> DEFINE start == event[input[r].target]
  <2>1. Closing(r)
    BY <1>5 DEF FullInv, CloseInv
  <2>2. start \in db /\ start.id = input[r].target
    BY <2>1 DEF Closing, db, DraftInv, FullInv, ToggleInv, SafeInv, TypeInv, TypeOK
  <2>3. event[i].ext = Registry!operationCloseExternalID(start.type, Registry!operationIdentity(start))
    BY <2>1, SameModel DEF Closing
  <2>4. Registry!tell(r, "created", event[i].id)
    BY <1>2, <1>5 DEF Registry!tell, answer, duplicateStatus
  <2> QED BY <1>1, <1>2, <1>5, <2>2, <2>3, <2>4 DEF Registry!Repeat
<1> QED BY <1>3, <1>4, <1>5

LEMMA CreateImplements ==
    ASSUME FullInv, DraftInv, NEW r \in Requests,
           LookupExternal(r) \/ RequireParent(r) \/ DuplicateLookup(r)
    PROVE  Registry!Refuse(r) \/ Registry!Repeat(r) \/ UNCHANGED <<db, input, reply>>
<1>1. pc[r] \in CreateSteps /\ input' = input /\ committed' = committed
  BY DEF LookupExternal, RequireParent, DuplicateLookup, CreateSteps
<1>2. db' = db
  <2>1. \A i \in committed : event'[i] = event[i]
    BY RecordedStays DEF FullInv, ToggleInv, Step
  <2> QED BY <1>1, <2>1 DEF db
<1>3. reply[r] = NoReply
  BY <1>1, Unanswered DEF CreateSteps
<1>4. input[r].op \notin Registry!Kinds
  BY <1>1, SameModel DEF FullInv, ToggleInv, SafeInv, TypeInv, PathOK
<1>5. CASE LookupExternal(r)
  <2>1. ASSUME NEW i \in withExternalID(event[r].ext), answer(r, duplicateStatus(r), i),
               UNCHANGED event
        PROVE  Registry!Repeat(r)
    BY <1>1, <2>1, RepeatImplements DEF withExternalID
  <2>2. CASE withExternalID(event[r].ext) = {} /\ answer(r, "invalid", None)
    <3>1. input[r].op = "create" /\ input[r].ext # None => \A f \in db : f.ext # input[r].ext
      BY <1>1, <2>2 DEF withExternalID, db, FullInv, AnswerInv
    <3> QED BY <1>1, <1>2, <1>3, <1>4, <2>2, <3>1 DEF Registry!Refuse, Registry!tell, answer
  <2>3. CASE goto(r, IF event[r].parent = None THEN "insert" ELSE "parent")
    BY <1>1, <1>2, <2>3 DEF goto
  <2> QED BY <1>5, <2>1, <2>2, <2>3 DEF LookupExternal
<1>6. CASE RequireParent(r)
  <2>1. CASE goto(r, "insert")
    BY <1>1, <1>2, <2>1 DEF goto
  <2>2. CASE event[r].parent \notin committed /\ answer(r, "parent_not_found", None)
    <3>1. input[r].op \in {"create", "links"}
      <4>1. input[r].op \in Ops
        BY OpTyped DEF FullInv, ToggleInv, SafeInv, TypeInv
      <4>2. input[r].op # "close"
        BY <1>1, <1>6 DEF RequireParent, FullInv, CloseInv, Closing, IsEnd, DraftInv
      <4> QED BY <1>4, <4>1, <4>2 DEF Ops, Registry!Kinds
    <3>2. {f \in db : f.id = input[r].target} = {}
      BY <1>1, <2>2, <3>1, RecordedByID DEF DraftInv
    <3> QED BY <1>1, <1>2, <1>3, <2>2, <3>1, <3>2 DEF Registry!Refuse, Registry!tell, answer
  <2> QED BY <1>6, <2>1, <2>2 DEF RequireParent
<1>7. CASE DuplicateLookup(r)
  <2> DEFINE existing == withExternalID(event[r].ext)
  <2>1. event[r].ext # None /\ existing # {}
    BY <1>7 DEF DuplicateLookup, withExternalID, FullInv, AnswerInv
  <2>2. PICK i \in existing : answer(r, duplicateStatus(r), i)
    BY <1>7, <2>1 DEF DuplicateLookup
  <2> QED BY <1>1, <1>7, <2>1, <2>2, RepeatImplements DEF DuplicateLookup, withExternalID
<1> QED BY <1>5, <1>6, <1>7

LEMMA CommitImplements ==
    ASSUME FullInv, FullInv', DraftInv, NEW r \in Requests,
           Commit(r, TRUE) \/ Commit(r, FALSE)
    PROVE  Registry!Take(r)
<1>1. /\ pc[r] \in {"commit", "commit_transition"} /\ pc'[r] = "done"
      /\ UNCHANGED <<input, event>>
      /\ committed' = committed \cup {r}
      /\ answer(r, "created", r) \/ answer(r, "error", None)
  BY DEF Commit, answer, FullInv, ToggleInv, SafeInv, TypeInv, TypeOK
<1>2. reply[r] = NoReply
  BY <1>1, Unanswered
<1>3. /\ r \notin committed /\ r \in IDs /\ committed \subseteq IDs
      /\ db' = db \cup {event[r]} /\ event[r].id = r
      /\ SafeInv /\ SafeInv'
  BY <1>1 DEF db, IDs, DraftInv, FullInv, ToggleInv, SafeInv, TypeInv, TypeOK, RowInv, CommitInv
<1>4. Registry!append(event[r])
  <2>1. ASSUME NEW f \in db
        PROVE  f.id # r /\ f.seq # event[r].seq /\ (event[r].ext # None => f.ext # event[r].ext)
    <3>1. PICK i \in committed : f = event[i]
      BY DEF db
    <3>2. i # r /\ i \in IDs /\ Numbered(i) /\ Numbered(r) /\ Indexed(i) /\ Indexed(r)
      BY <1>1, <1>3 DEF Numbered, Indexed
    <3> QED BY <1>3, <3>1, <3>2 DEF SafeInv, RowInv, SeqInv, ExtInv, DraftInv
  <2>2. event[r].parent # None => \E f \in db : f.id = event[r].parent /\ f.seq < event[r].seq
    <3>1. Numbered(r) /\ Rooted(r)
      BY <1>1 DEF Numbered, Rooted
    <3> QED BY <1>3, <3>1 DEF SafeInv, RowInv, ParentInv, db, DraftInv
  <2> QED BY <1>3, <2>1, <2>2 DEF Registry!append
<1>5. Registry!tell(r, "created", r) \/ Registry!tell(r, "error", None)
  BY <1>1 DEF answer, Registry!tell
<1>6. input[r].op \in Ops
  BY <1>3, OpTyped DEF SafeInv, TypeInv
<1>7. CASE pc[r] = "commit_transition"
  <2>1. /\ input[r].op \in Kinds
        /\ event[r].ext = None /\ event[r].parent = input[r].target
    BY <1>3, <1>7 DEF SafeInv, TypeInv, PathOK, ToggleSteps, RowInv, TransitionInv
  <2>2. PICK p, k : p = input[r].target /\ k = input[r].op
    OBVIOUS
  <2>3. activeAt(p, k)' <=> ~activeAt(p, k)
    BY <1>1, <1>3, <2>1, <2>2, FlipAtCommit DEF FullInv, ToggleInv, Step
  <2>4. Registry!isActive(db', p, k) <=> ~Registry!isActive(db, p, k)
    BY <2>3, ActiveByID, SameModel
  <2>5. input[r].op \in Registry!Kinds
    BY <2>1, SameModel
  <2> QED BY <1>1, <1>2, <1>3, <1>4, <1>5, <2>1, <2>2, <2>4, <2>5 DEF Registry!Take
<1>8. CASE pc[r] = "commit" /\ input[r].op = "close"
  <2> DEFINE start == event[input[r].target]
  <2>1. Closing(r)
    BY <1>8 DEF FullInv, CloseInv, CreateSteps
  <2>2. start \in db /\ start.id = input[r].target
    BY <1>3, <2>1 DEF Closing, db, DraftInv
  <2>3. <<start.type, operationIdentity(start)>> \in ended(db')
    BY <1>3, <2>1, CloseExternalIDEnds DEF Closing
  <2>4. /\ event[r].ext = Registry!operationCloseExternalID(start.type, Registry!operationIdentity(start))
        /\ <<start.type, Registry!operationIdentity(start)>> \in Registry!ended(db')
    BY <2>1, <2>3, SameModel DEF Closing
  <2> QED BY <1>1, <1>2, <1>3, <1>4, <1>5, <1>8, <2>2, <2>4 DEF Registry!Take
<1>9. CASE pc[r] = "commit" /\ input[r].op # "close"
  <2>1. input[r].op \in {"create", "links"}
    BY <1>3, <1>6, <1>9 DEF Ops, SafeInv, TypeInv, PathOK, CreateSteps, Kinds
  <2>2. /\ event[r].parent = input[r].target
        /\ input[r].op = "create" => event[r].ext = input[r].ext
        /\ input[r].op = "links" => event[r].ext = None /\ event[r].type = "link"
    BY <1>9 DEF DraftInv, FullInv, AnswerInv, CreateSteps
  <2> QED BY <1>1, <1>2, <1>3, <1>4, <1>5, <2>1, <2>2 DEF Registry!Take
<1> QED BY <1>1, <1>7, <1>8, <1>9

LEMMA OtherImplements ==
    ASSUME FullInv, DraftInv, NEW r \in Requests,
           \/ Insert(r) \/ CheckUnique(r) \/ CheckForeignKey(r)
           \/ BeginTransition(r) \/ LockParent(r) \/ ReadLatest(r) \/ InsertTransition(r)
           \/ GetStart(r) \/ ReadOperationState(r) \/ Fail(r)
    PROVE  Registry!Refuse(r) \/ UNCHANGED <<db, input, reply>>
<1>1. input' = input /\ committed' = committed /\ pc[r] \in Steps
  BY DEF Insert, CheckUnique, CheckForeignKey, BeginTransition, LockParent, ReadLatest,
     InsertTransition, GetStart, ReadOperationState, Fail, Steps
<1>2. db' = db
  <2>1. \A i \in committed : event'[i] = event[i]
    BY RecordedStays DEF FullInv, ToggleInv, Step
  <2> QED BY <1>1, <2>1 DEF db
<1>3. reply[r] = NoReply
  BY <1>1, Unanswered DEF Steps
<1>4. CASE \E step : goto(r, step)
  BY <1>1, <1>2, <1>4 DEF goto
<1>5. CASE LockParent(r) /\ input[r].target \notin committed /\ answer(r, "not_found", None)
  <2>1. input[r].op \in Registry!Kinds
    BY <1>5, SameModel DEF LockParent, FullInv, ToggleInv, SafeInv, TypeInv, PathOK, ToggleSteps
  <2>2. {f \in db : f.id = input[r].target} = {}
    BY <1>5, RecordedByID
  <2> QED BY <1>1, <1>2, <1>3, <1>5, <2>1, <2>2 DEF Registry!Refuse, Registry!tell, answer
<1>6. CASE GetStart(r) /\ ~\E step : goto(r, step)
  <2>1. input[r].op = "close"
    BY <1>6 DEF GetStart, FullInv, ToggleInv, SafeInv, TypeInv, PathOK, CloseSteps
  <2>2. CASE input[r].target \notin committed /\ answer(r, "not_found", None)
    <3>1. {f \in db : f.id = input[r].target} = {}
      BY <2>2, RecordedByID
    <3> QED BY <1>1, <1>2, <1>3, <2>1, <2>2, <3>1 DEF Registry!Refuse, Registry!tell, answer
  <2>3. CASE /\ input[r].target \in committed /\ answer(r, "not_closable", None)
             /\ operationIdentity(event[input[r].target]) = NoIdentity
    <3>1. event[input[r].target] \in {f \in db : f.id = input[r].target}
      BY <2>3, RecordedByID
    <3>2. Registry!operationIdentity(event[input[r].target]) = Registry!NoIdentity
      BY <2>3, SameModel
    <3> QED BY <1>1, <1>2, <1>3, <2>1, <2>3, <3>1, <3>2 DEF Registry!Refuse, Registry!tell, answer
  <2> QED BY <1>6, <2>2, <2>3 DEF GetStart
<1>7. CASE ReadOperationState(r) /\ ~\E step : goto(r, step)
  <2> DEFINE start == event[input[r].target]
  <2>1. /\ input[r].op = "close" /\ input[r].target \in committed
        /\ operationIdentity(start) # NoIdentity
    BY <1>7 DEF ReadOperationState, FullInv, CloseInv, ToggleInv, SafeInv, TypeInv, PathOK, CloseSteps
  <2>2. OperationState(db, start) = "closed" /\ answer(r, "operation_closed", None)
    BY <1>7 DEF ReadOperationState
  <2>3. start \in {f \in db : f.id = input[r].target} /\ start \in db /\ start \in Event
    BY <2>1, RecordedByID DEF FullInv, ToggleInv, SafeInv, TypeInv, TypeOK
  <2>4. <<start.type, Registry!operationIdentity(start)>> \in Registry!ended(db)
    BY <2>1, <2>2, <2>3, ClosedIsEnded, SameModel
  <2> QED BY <1>1, <1>2, <1>3, <2>1, <2>2, <2>3, <2>4 DEF Registry!Refuse, Registry!tell, answer
<1>8. CASE Fail(r)
  BY <1>1, <1>2, <1>3, <1>8 DEF Fail, Registry!Refuse, Registry!tell, answer
<1> QED BY <1>4, <1>5, <1>6, <1>7, <1>8
        DEF Insert, CheckUnique, CheckForeignKey, BeginTransition, LockParent, ReadLatest, InsertTransition

\* The registry implements the append-only log (ImplementsChangeLog): for any
\* requests and any interleaving, failure and lost answer of their statements,
\* each request takes effect on the log at one instant, at most once, and what
\* it is told is true of that instant.
THEOREM RegistryImplementsLog == Spec => ImplementsChangeLog
<1>1. Init => Registry!Init
  <2> SUFFICES ASSUME Init PROVE db = {Seed[i] : i \in SeedIDs}
    BY DEF Init, Registry!Init
  <2>1. committed = SeedIDs /\ \A i \in SeedIDs : event[i] = Seed[i]
    BY DEF Init, IDs
  <2> QED BY <2>1 DEF db
<1>2. FullInv /\ DraftInv /\ [Next]_vars => DraftInv'
  <2> SUFFICES ASSUME FullInv, DraftInv, [Next]_vars PROVE DraftInv'
    OBVIOUS
  <2>1. ASSUME NEW r \in Requests, Begin(r) \/ Step(r) \/ Commit(r, FALSE) \/ Fail(r)
        PROVE  DraftInv'
    BY <2>1, DraftStep DEF FullInv, ToggleInv
  <2>2. CASE UNCHANGED vars
    BY <2>2 DEF vars, DraftInv
  <2> QED BY <2>1, <2>2 DEF Next, Finished
<1>3. FullInv /\ FullInv' /\ DraftInv /\ [Next]_vars => [Registry!Next]_(Registry!vars)
  <2> SUFFICES ASSUME FullInv, FullInv', DraftInv, [Next]_vars
               PROVE  Registry!Next \/ UNCHANGED <<db, input, reply>>
    BY DEF Registry!vars
  <2>1. ASSUME NEW r \in Requests, Begin(r) \/ Step(r) \/ Commit(r, FALSE) \/ Fail(r)
        PROVE  \/ Registry!Ask(r) \/ Registry!Refuse(r) \/ Registry!Take(r) \/ Registry!Repeat(r)
               \/ UNCHANGED <<db, input, reply>>
    BY <2>1, BeginImplements, CreateImplements, CommitImplements, OtherImplements DEF Step
  <2>2. ASSUME UNCHANGED vars
        PROVE  UNCHANGED <<db, input, reply>>
    BY <2>2 DEF vars, db
  <2> QED BY <2>1, <2>2 DEF Next, Finished, Registry!Next
<1> QED
  BY <1>1, <1>2, <1>3, DraftInit, FullInvariant, PTL DEF Spec, ImplementsChangeLog, Registry!Spec
=============================================================================
