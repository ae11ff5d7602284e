---------------------------- MODULE MemoryReview ----------------------------
(***************************************************************************)
(* The review lifecycle of a memory in one profile database.              *)
(*                                                                         *)
(* Agents write memories through the CLI tools and people edit them over   *)
(* HTTP.  Every write changes the working state at once (memory_units,     *)
(* memory_keywords, memory_relations) and keeps, in the one memory_changes *)
(* row of the memory, the baseline a reviewer can return to.  A reviewer   *)
(* then approves or rejects the change, or restores or destroys what lies  *)
(* in the trash.                                                           *)
(*                                                                         *)
(* Granularity.  A database transaction that holds the row lock of its     *)
(* memory is one action.  What a client reads in one transaction and uses  *)
(* in a later one is an element of "calls": the (revision, text) an editor *)
(* has seen, the duplicate check of create_memory, which runs before the   *)
(* inserting transaction, and the case delete_memory picked before it      *)
(* opened the deleting one.  Two reads inside a transaction that take no   *)
(* lock are split in module RelationRace.                                  *)
(***************************************************************************)
EXTENDS Naturals, FiniteSets

CONSTANTS
  Memories,       (* the uuids gen_random_uuid() can return                *)
  Categories, Titles,
  Bodies,         (* content, summary and recall_when of a memory          *)
  Keywords,
  RelationTypes,
  RelatedTo,      (* the type of the automatic relations                   *)
  AutoLimit,      (* LIMIT of the automatic relations: 3 in the code       *)
  NoText,         (* the text of a uuid that has no memory_units row       *)
  NoState,        (* SQL NULL in before_state and after_state              *)
  MaxRevision,    (* bound: no client edits a memory past this revision    *)
  MaxCalls        (* bound: calls in flight at a time                      *)

Texts ==
  [category : Categories, title : Titles, body : Bodies,
   keywords : (SUBSET Keywords) \ {{}}]

Relations ==
  {r \in [from : Memories, to : Memories, type : RelationTypes] : r.from # r.to}

Snapshots ==
  [status : {"pending", "active"}, text : Texts, relations : SUBSET Relations]

AfterStates ==
  [status : {"pending", "active", "trashed"}, text : Texts,
   relations : SUBSET Relations]

Changes ==
  [action : {"none", "create", "update", "delete"},
   before : Snapshots \cup {NoState}, after : AfterStates \cup {NoState}]

Statuses == {"absent", "pending", "active", "trashed", "gone"}

IndexRows ==
  [status : Statuses,
   text : [title : Titles, body : Bodies, keywords : (SUBSET Keywords) \ {{}}] \cup {NoText}]

ASSUME ConstantsAssumption ==
  /\ RelatedTo \in RelationTypes
  /\ AutoLimit \in Nat
  /\ MaxRevision \in Nat
  /\ MaxCalls \in Nat
  /\ NoText \notin Texts
  /\ NoState \notin Snapshots \cup AfterStates

VARIABLES
  status,      (* memory_units.status; "absent" before and "gone" after the row *)
  text,        (* category, title, body and keywords of the working state       *)
  revision,    (* memory_units.revision, advanced by a trigger on every UPDATE  *)
  change,      (* the memory_changes row of the memory, or NoChange             *)
  relations,   (* memory_relations                                              *)
  index,       (* memory_search_index, the row of each memory                   *)
  dirty,       (* memory_graph_meta.dirty                                       *)
  calls        (* what clients have read and will use in a later transaction    *)

units == <<status, text, revision>>
vars == <<status, text, revision, change, relations, index, dirty, calls>>

-----------------------------------------------------------------------------
(* Reading the tables                                                      *)

Exists(m) == status[m] \in {"pending", "active", "trashed"}
Live(m) == status[m] \in {"pending", "active"}

\* A reviewer has accepted the memory at some time, and nothing final happened since.
Accepted(m) ==
  \/ status[m] = "active"
  \/ status[m] = "trashed" /\ change[m].before # NoState /\ change[m].before.status = "active"

Trash == {m \in Memories : status[m] = "trashed" /\ change[m].action = "delete"}

Touching(m) == {r \in relations : m \in {r.from, r.to}}

\* memory_state(): the snapshot kept in before_state and after_state.
Snapshot(m) ==
  [status |-> status[m], text |-> text[m], relations |-> Touching(m)]

NoChange == [action |-> "none", before |-> NoState, after |-> NoState]

\* The partial unique index on (category, title_norm) of pending and active rows.
TitleFree(m, t) ==
  \A n \in Memories \ {m} :
    Live(n) => ~(text[n].category = t.category /\ text[n].title = t.title)

\* The duplicate check of both update paths: it looks at working memories only.
NoDuplicate(m, t) ==
  \A n \in Memories \ {m} :
    Live(n) => text[n].title # t.title /\ text[n].body # t.body

\* The duplicate check of create_memory: it looks at every row, trash included.
NoDuplicateAnywhere(t) ==
  \A n \in Memories :
    Exists(n) => text[n].title # t.title /\ text[n].body # t.body

\* The row refresh_memory_search_index derives; category is not a column of it.
Searchable(t) ==
  IF t = NoText THEN NoText
  ELSE [title |-> t.title, body |-> t.body, keywords |-> t.keywords]
IndexRow(m) == [status |-> status[m], text |-> Searchable(text[m])]

\* What a rebuild of the AGE graph would show: active memories and the
\* relations between them.
GraphView ==
  LET nodes == {m \in Memories : status[m] = "active"}
  IN  [nodes |-> {<<m, text[m].category, text[m].title, text[m].body>> : m \in nodes},
       edges |-> {r \in relations : {r.from, r.to} \subseteq nodes}]

-----------------------------------------------------------------------------
(* Writing the tables                                                      *)

Init ==
  /\ status = [m \in Memories |-> "absent"]
  /\ text = [m \in Memories |-> NoText]
  /\ revision = [m \in Memories |-> 0]
  /\ change = [m \in Memories |-> NoChange]
  /\ relations = {}
  /\ index = [m \in Memories |-> [status |-> "absent", text |-> NoText]]
  /\ dirty = TRUE
  /\ calls = {}

\* Every UPDATE of memory_units advances the revision of the rows it touches.
Bump(S) == revision' = [m \in Memories |-> IF m \in S THEN revision[m] + 1 ELSE revision[m]]

RefreshIndex(m) == index' = [index EXCEPT ![m] = IndexRow(m)']

\* Mutant: the upsert replaces the whole row.
RecordEditNewBaseline(m, before) ==
  change' = [change EXCEPT ![m] =
    [action |-> IF @.action = "none" THEN "update" ELSE @.action,
     before |-> before, after |-> Snapshot(m)']]

\* Mutant: ON CONFLICT DO NOTHING.
RecordEditOnce(m, before) ==
  change' = IF change[m].action = "none"
            THEN [change EXCEPT ![m] =
                   [action |-> "update", before |-> before, after |-> Snapshot(m)']]
            ELSE change

\* upsert_update_change and its HTTP and relation counterparts: the first edit
\* stores the baseline, later ones only replace after_state.
RecordEdit(m, before) ==
  LET first == change[m].action = "none" IN
  change' = [change EXCEPT ![m] =
    [action |-> IF first THEN "update" ELSE change[m].action,
     before |-> IF first THEN before ELSE change[m].before,
     after  |-> Snapshot(m)']]

CloseChange(S) == change' = [m \in Memories |-> IF m \in S THEN NoChange ELSE change[m]]

\* DELETE FROM memory_units, with what its foreign keys cascade to.
HardDelete(S) ==
  /\ status' = [m \in Memories |-> IF m \in S THEN "gone" ELSE status[m]]
  /\ text' = [m \in Memories |-> IF m \in S THEN NoText ELSE text[m]]
  /\ index' = [m \in Memories |-> IF m \in S THEN [status |-> "gone", text |-> NoText] ELSE index[m]]
  /\ relations' = {r \in relations : r.from \notin S /\ r.to \notin S}
  /\ CloseChange(S)
  /\ UNCHANGED revision

\* The database accepts the restored rows: the unique title index and the
\* foreign keys of the restored relations.
Restorable(m, s) ==
  /\ TitleFree(m, s.text)
  /\ \A r \in s.relations : Exists(r.from) /\ Exists(r.to)

\* Mutant: no refresh of the search index.
RestoreSnapshotUnindexed(m, s) ==
  /\ status' = [status EXCEPT ![m] = s.status]
  /\ text' = [text EXCEPT ![m] = s.text]
  /\ Bump({m})
  /\ relations' = (relations \ Touching(m)) \cup s.relations
  /\ UNCHANGED index

\* restore_memory_unit, replace_keywords, replace_relations and the refresh.
RestoreSnapshot(m, s) ==
  /\ status' = [status EXCEPT ![m] = s.status]
  /\ text' = [text EXCEPT ![m] = s.text]
  /\ Bump({m})
  /\ relations' = (relations \ Touching(m)) \cup s.relations
  /\ RefreshIndex(m)

-----------------------------------------------------------------------------
(* Calls in flight                                                         *)

Calls ==
  [op : {"view", "create", "deletePending", "deleteActive", "deleteOpen"},
   memory : Memories, revision : Nat, text : Texts]

Room == Cardinality(calls) < MaxCalls
Become(k, op) == calls' = (calls \ {k}) \cup {[k EXCEPT !.op = op]}
Finish(k) == calls' = calls \ {k}

\* A client reads a memory: the revision and text its later call will rest on.
View(m) ==
  /\ Room
  /\ Exists(m)
  /\ calls' = calls \cup
       {[op |-> "view", memory |-> m, revision |-> revision[m], text |-> text[m]]}
  /\ UNCHANGED <<units, change, relations, index, dirty>>

\* A client goes away, or its call ended in an error that changed nothing.
Forget(k) ==
  /\ k \in calls
  /\ Finish(k)
  /\ UNCHANGED <<units, change, relations, index, dirty>>

-----------------------------------------------------------------------------
(* create_memory                                                           *)

\* create(): the duplicate check runs on the pool, outside the transaction.
BeginCreate(m, t) ==
  /\ Room
  /\ status[m] = "absent"
  /\ \A k \in calls : k.memory # m
  /\ NoDuplicateAnywhere(t)
  /\ calls' = calls \cup {[op |-> "create", memory |-> m, revision |-> 0, text |-> t]}
  /\ UNCHANGED <<units, change, relations, index, dirty>>

\* create_memory_transaction(): only the unique title index is left to object.
FinishCreate(k) ==
  LET m == k.memory IN
  /\ k \in calls /\ k.op = "create"
  /\ TitleFree(m, k.text)
  /\ status' = [status EXCEPT ![m] = "pending"]
  /\ text' = [text EXCEPT ![m] = k.text]
  /\ revision' = [revision EXCEPT ![m] = 1]
  /\ UNCHANGED <<relations, dirty>>
  /\ RefreshIndex(m)
  /\ change' = [change EXCEPT ![m] =
       [action |-> "create", before |-> NoState, after |-> Snapshot(m)']]
  /\ Finish(k)

-----------------------------------------------------------------------------
(* update_memory, CLI and HTTP                                             *)

\* lock_update_target and assert_revision: what every CLI edit checks once it
\* holds the row locks; upsert_update_change refuses the other combinations.
EditLocked(k) ==
  LET m == k.memory IN
  /\ k \in calls /\ k.op = "view"
  /\ \/ status[m] = "pending" /\ change[m].action = "create"
     \/ status[m] = "active" /\ change[m].action \in {"none", "update"}
  /\ k.revision = revision[m]
  /\ revision[m] < MaxRevision

\* assert_replace_hashes, _content_hash and _append_hash: the fields an edit
\* replaces are still those the client saw.
SeenFieldsCurrent(k, t) ==
  \A f \in {"category", "title", "body"} :
    t[f] # text[k.memory][f] => k.text[f] = text[k.memory][f]

\* Mutant: a write to memory_keywords or a column the trigger does not see.
WriteTextUnbumped(m, t) ==
  /\ text' = [text EXCEPT ![m] = t]
  /\ UNCHANGED <<status, relations, revision>>
  /\ RefreshIndex(m)

WriteText(m, t) ==
  /\ text' = [text EXCEPT ![m] = t]
  /\ UNCHANGED <<status, relations>>
  /\ Bump({m})
  /\ RefreshIndex(m)

\* Mutant: the graph is left marked clean.
ReplaceFieldsUnmarked(k, t) ==
  LET m == k.memory IN
  /\ EditLocked(k)
  /\ t # text[m] /\ t.keywords = text[m].keywords
  /\ NoDuplicate(m, t)
  /\ WriteText(m, t)
  /\ RecordEdit(m, Snapshot(m))
  /\ Finish(k)
  /\ UNCHANGED dirty

\* update_memory_replace, _patch_content and _append.
ReplaceFields(k, t) ==
  LET m == k.memory IN
  /\ EditLocked(k)
  /\ t # text[m]
  /\ t.keywords = text[m].keywords
  /\ SeenFieldsCurrent(k, t)
  /\ NoDuplicate(m, t)
  /\ WriteText(m, t)
  /\ RecordEdit(m, Snapshot(m))
  /\ dirty' = (dirty \/ status[m] = "active")
  /\ Finish(k)

\* update_memory_add_keywords and _remove_keywords: no duplicate check, and the
\* set may not become empty.
EditKeywords(k, t) ==
  LET m == k.memory IN
  /\ EditLocked(k)
  /\ t # text[m]
  /\ \A f \in {"category", "title", "body"} : t[f] = text[m][f]
  /\ k.text.keywords = text[m].keywords
  /\ t.keywords \subseteq text[m].keywords \/ text[m].keywords \subseteq t.keywords
  /\ WriteText(m, t)
  /\ RecordEdit(m, Snapshot(m))
  /\ dirty' = (dirty \/ status[m] = "active")
  /\ Finish(k)

\* PATCH of a memory over HTTP: the whole text but the category, active only.
HttpUpdate(k, t) ==
  LET m == k.memory IN
  /\ k \in calls /\ k.op = "view"
  /\ status[m] = "active"
  /\ k.revision = revision[m]
  /\ revision[m] < MaxRevision
  /\ t.category = text[m].category
  /\ NoDuplicate(m, t)
  /\ WriteText(m, t)
  /\ RecordEdit(m, Snapshot(m))
  /\ dirty' = TRUE
  /\ Finish(k)

-----------------------------------------------------------------------------
(* delete_memory                                                           *)

\* classify_delete_case(): picked outside the transaction that deletes.
ClassifyDelete(k) ==
  LET m == k.memory IN
  /\ k \in calls /\ k.op = "view"
  /\ Exists(m)
  /\ \/ /\ status[m] = "pending" /\ change[m].action = "create"
        /\ Become(k, "deletePending")
     \/ /\ status[m] = "active" /\ change[m].action = "none"
        /\ Become(k, "deleteActive")
     \/ /\ change[m].action # "none"
        /\ ~(status[m] = "pending" /\ change[m].action = "create")
        /\ Become(k, "deleteOpen")
  /\ UNCHANGED <<units, change, relations, index, dirty>>

MoveToTrash(m) ==
  /\ status' = [status EXCEPT ![m] = "trashed"]
  /\ UNCHANGED <<text, relations>>
  /\ Bump({m})
  /\ RefreshIndex(m)

\* mark_pending_create_delete(): the deletion of a creation keeps the review open.
DeletePendingCreate(k) ==
  LET m == k.memory IN
  /\ k \in calls /\ k.op = "deletePending"
  /\ status[m] = "pending" /\ change[m].action = "create"
  /\ k.revision = revision[m]
  /\ revision[m] < MaxRevision
  /\ MoveToTrash(m)
  /\ change' = [change EXCEPT ![m] =
       [action |-> "delete", before |-> Snapshot(m), after |-> Snapshot(m)']]
  /\ Finish(k)
  /\ UNCHANGED dirty

\* mark_pending_delete(): an active memory without an open change.
DeleteActive(k) ==
  LET m == k.memory IN
  /\ k \in calls /\ k.op = "deleteActive"
  /\ status[m] = "active" /\ change[m].action = "none"
  /\ k.revision = revision[m]
  /\ revision[m] < MaxRevision
  /\ MoveToTrash(m)
  /\ change' = [change EXCEPT ![m] =
       [action |-> "delete", before |-> Snapshot(m), after |-> Snapshot(m)']]
  /\ dirty' = TRUE
  /\ Finish(k)

\* Mutant: a repeated deletion takes its baseline from the trash.
DeleteOpenChangeAgain(k) ==
  LET m == k.memory IN
  /\ k \in calls /\ k.op = "deleteOpen"
  /\ change[m].action # "none"
  /\ k.revision = revision[m] /\ revision[m] < MaxRevision
  /\ MoveToTrash(m)
  /\ change' = [change EXCEPT ![m] =
       [action |-> "delete", before |-> Snapshot(m), after |-> Snapshot(m)']]
  /\ dirty' = (dirty \/ status[m] = "active")
  /\ Finish(k)

\* mark_open_change_delete(): keeps the earliest baseline of the open change.
\* On what is in the trash already it commits without writing.
DeleteOpenChange(k) ==
  LET m == k.memory IN
  /\ k \in calls /\ k.op = "deleteOpen"
  /\ change[m].action # "none"
  /\ k.revision = revision[m]
  /\ revision[m] < MaxRevision
  /\ Finish(k)
  /\ IF status[m] = "trashed" /\ change[m].action = "delete"
     THEN UNCHANGED <<units, change, relations, index, dirty>>
     ELSE /\ change[m].before # NoState
          /\ MoveToTrash(m)
          /\ change' = [change EXCEPT ![m] =
               [action |-> "delete", before |-> change[m].before, after |-> Snapshot(m)']]
          /\ dirty' = (dirty \/ status[m] = "active")

-----------------------------------------------------------------------------
(* Review                                                                  *)

\* lock_change() and the list of changes: deletions in the trash are not
\* reviewed here but in the trash.
Reviewable(m) ==
  /\ Exists(m)
  /\ change[m].action # "none"
  /\ change[m].action = "delete" => status[m] # "trashed"

\* insert_auto_relations_for_approved_memory(): at most AutoLimit active
\* memories of the category that no related_to edge joins to m yet.
AutoCandidates(m) ==
  {n \in Memories \ {m} :
     /\ status[n] = "active" /\ text[n].category = text[m].category
     /\ \A r \in relations : r.type = RelatedTo => {r.from, r.to} # {m, n}}

AutoRelations(m) ==
  LET wanted == IF Cardinality(AutoCandidates(m)) <= AutoLimit
                THEN Cardinality(AutoCandidates(m)) ELSE AutoLimit
      chosen == {S \in SUBSET AutoCandidates(m) : Cardinality(S) = wanted}
  IN  {{[from |-> m, to |-> n, type |-> RelatedTo] : n \in S} : S \in chosen}

\* approve_change() of a creation.
ApproveCreate(m) ==
  /\ Reviewable(m)
  /\ status[m] = "pending" /\ change[m].action = "create"
  /\ status' = [status EXCEPT ![m] = "active"]
  /\ UNCHANGED <<text, calls>>
  /\ Bump({m})
  /\ RefreshIndex(m)
  /\ CloseChange({m})
  /\ \E edges \in AutoRelations(m) : relations' = relations \cup edges
  /\ dirty' = TRUE

\* approve_change() of anything else: an update leaves the working state as it
\* is, a deletion destroys the memory.
ApproveChange(m) ==
  /\ Reviewable(m)
  /\ change[m].action # "create"
  /\ IF change[m].action = "delete"
     THEN HardDelete({m}) /\ dirty' = TRUE
     ELSE /\ CloseChange({m})
          /\ index' = [index EXCEPT ![m] = IndexRow(m)]
          /\ UNCHANGED <<units, relations, dirty>>
  /\ UNCHANGED calls

\* reject_change() of a creation: reject_create().
RejectCreate(m) ==
  /\ Reviewable(m)
  /\ change[m].action = "create"
  /\ HardDelete({m})
  /\ dirty' = TRUE
  /\ UNCHANGED calls

\* reject_change() of anything else: restore_before_state().
RejectChange(m) ==
  /\ Reviewable(m)
  /\ change[m].action # "create"
  /\ change[m].before # NoState
  /\ Restorable(m, change[m].before)
  /\ RestoreSnapshot(m, change[m].before)
  /\ CloseChange({m})
  /\ dirty' = TRUE
  /\ UNCHANGED calls

-----------------------------------------------------------------------------
(* Trash                                                                   *)

\* restore_trash() of what was active: as a rejection of the deletion.
RestoreActive(m) ==
  /\ m \in Trash
  /\ change[m].before.status = "active"
  /\ Restorable(m, change[m].before)
  /\ RestoreSnapshot(m, change[m].before)
  /\ CloseChange({m})
  /\ dirty' = TRUE
  /\ UNCHANGED calls

\* Mutant: the return from the trash is a rejection like any other.
RestorePendingClosed(m) ==
  /\ m \in Trash
  /\ change[m].before.status = "pending"
  /\ Restorable(m, change[m].before)
  /\ RestoreSnapshot(m, change[m].before)
  /\ CloseChange({m})
  /\ UNCHANGED <<dirty, calls>>

\* Mutant: whatever leaves the trash is active again.
RestorePendingActive(m) ==
  /\ m \in Trash
  /\ change[m].before.status = "pending"
  /\ Restorable(m, change[m].before)
  /\ RestoreSnapshot(m, [change[m].before EXCEPT !.status = "active"])
  /\ CloseChange({m})
  /\ UNCHANGED <<dirty, calls>>

\* restore_trash() of what was a pending creation: its review is open again.
RestorePending(m) ==
  LET before == change[m].before IN
  /\ m \in Trash
  /\ before.status = "pending"
  /\ Restorable(m, before)
  /\ RestoreSnapshot(m, before)
  /\ change' = [change EXCEPT ![m] =
       [action |-> "create", before |-> NoState, after |-> before]]
  /\ UNCHANGED <<dirty, calls>>

\* delete_trash(): a person destroys one memory of the trash.
DeleteTrash(m) ==
  /\ m \in Trash
  /\ HardDelete({m})
  /\ dirty' = TRUE
  /\ UNCHANGED calls

\* delete_expired_trash(): the worker destroys, in one statement, whatever has
\* been in the trash for longer than the retention time.
DeleteExpiredTrash(S) ==
  /\ S # {} /\ S \subseteq Trash
  /\ HardDelete(S)
  /\ dirty' = TRUE
  /\ UNCHANGED calls

-----------------------------------------------------------------------------
(* Relations                                                               *)

\* ensure_active_endpoints().
RelationAllowed(r) == status[r.from] = "active" /\ status[r.to] = "active"

\* The tail of every relation operation: touch_relation_endpoints_revision,
\* upsert_relation_change on the FROM memory alone, mark_memory_graph_dirty.
CommitRelations(r, edges, before) ==
  /\ revision[r.from] < MaxRevision /\ revision[r.to] < MaxRevision
  /\ relations' = edges
  /\ UNCHANGED <<status, text, index, calls>>
  /\ Bump({r.from, r.to})
  /\ RecordEdit(r.from, before)
  /\ dirty' = TRUE

\* Mutant: no foreign keys.
InsertRelationDangling(r, before) ==
  /\ r \notin relations
  /\ CommitRelations(r, relations \cup {r}, before)

\* The three operations from their write on, with the before_state read earlier.
InsertRelation(r, before) ==
  /\ Exists(r.from) /\ Exists(r.to)
  /\ r \notin relations
  /\ CommitRelations(r, relations \cup {r}, before)

ReplaceRelation(r, type, before) ==
  LET new == [from |-> r.from, to |-> r.to, type |-> type] IN
  /\ new \notin relations \/ new = r
  /\ CommitRelations(r, (relations \ {r}) \cup {new}, before)

RemoveRelation(r, before) == CommitRelations(r, relations \ {r}, before)

\* add_memory_relation().
AddRelation(r) ==
  /\ RelationAllowed(r)
  /\ InsertRelation(r, Snapshot(r.from))

\* update_memory_relation(): a new type must not collide with another row, and a
\* patch of weight or note alone leaves the row as this model sees it.
UpdateRelation(r, type) ==
  /\ r \in relations
  /\ ReplaceRelation(r, type, Snapshot(r.from))

\* delete_memory_relation().
DeleteRelation(r) ==
  /\ r \in relations
  /\ RemoveRelation(r, Snapshot(r.from))

-----------------------------------------------------------------------------
(* The rebuild of the AGE graph, here without what commits during it.      *)
RebuildGraph ==
  /\ dirty
  /\ dirty' = FALSE
  /\ UNCHANGED <<units, change, relations, index, calls>>

-----------------------------------------------------------------------------
ClientStep ==
  \/ \E m \in Memories : View(m)
  \/ \E m \in Memories, t \in Texts : BeginCreate(m, t)
  \/ \E k \in calls :
       \/ Forget(k)
       \/ FinishCreate(k)
       \/ \E t \in Texts : ReplaceFields(k, t) \/ EditKeywords(k, t) \/ HttpUpdate(k, t)
       \/ ClassifyDelete(k)
       \/ DeletePendingCreate(k)
       \/ DeleteActive(k)
       \/ DeleteOpenChange(k)

ReviewStep ==
  \E m \in Memories :
    \/ ApproveCreate(m)
    \/ ApproveChange(m)
    \/ RejectCreate(m)
    \/ RejectChange(m)

TrashStep ==
  \/ \E m \in Memories : RestoreActive(m) \/ RestorePending(m) \/ DeleteTrash(m)
  \/ \E S \in SUBSET Memories : DeleteExpiredTrash(S)

RelationStep ==
  \/ \E r \in Relations : AddRelation(r)
  \/ \E r \in relations : DeleteRelation(r) \/ \E type \in RelationTypes : UpdateRelation(r, type)

Next == ClientStep \/ ReviewStep \/ TrashStep \/ RelationStep \/ RebuildGraph

Spec == Init /\ [][Next]_vars

-----------------------------------------------------------------------------
(* Properties                                                              *)

\* Every variable keeps its type; in particular a baseline is never the
\* snapshot of a memory that was already in the trash.
TypeOK ==
  /\ status \in [Memories -> Statuses]
  /\ text \in [Memories -> Texts \cup {NoText}]
  /\ revision \in [Memories -> Nat]
  /\ change \in [Memories -> Changes]
  /\ relations \subseteq Relations
  /\ index \in [Memories -> IndexRows]
  /\ dirty \in BOOLEAN
  /\ calls \subseteq Calls

\* The status of a memory and its change row always tell the same story,
\* although nothing in the schema ties the two tables together: a pending
\* memory has a creation to review, one in the trash a deletion with a
\* baseline to return to, an active one at most an update whose baseline is
\* active, and no change row outlives its memory.  The "_ => Err" arms of the
\* tools and the delete arm of approve_locked_change are unreachable by this.
ReviewMatchesStatus ==
  \A m \in Memories :
    LET c == change[m] IN
    /\ status[m] = "pending" => c.action = "create" /\ c.before = NoState
    /\ status[m] = "active" =>
         \/ c = NoChange
         \/ c.action = "update" /\ c.before # NoState /\ c.before.status = "active"
    /\ status[m] = "trashed" => c.action = "delete" /\ c.before # NoState
    /\ ~Exists(m) => c = NoChange

\* A reviewer decides on what is in after_state: it shows the status and the
\* text of the working state, whatever sequence of edits led there.
AfterShowsWorkingText ==
  \A m \in Memories :
    change[m].action # "none" =>
      change[m].after.status = status[m] /\ change[m].after.text = text[m]

\* search_memory answers from memory_search_index, which every transaction
\* that writes a memory must leave equal to the working state.
SearchIndexCurrent == \A m \in Memories : index[m] = IndexRow(m)

\* A revision identifies a state of the memory: if the revision a client saw
\* is still current, so is the text it saw.  This is what makes the revision
\* check of HTTP updates and deletions enough to lose no update.
RevisionIdentifiesText ==
  \A k \in calls :
    k.op # "create" /\ Exists(k.memory) /\ k.revision = revision[k.memory]
      => k.text = text[k.memory]

\* Relations join memories that a reviewer has accepted, in the working state
\* and in the snapshots a rejection or a return from the trash puts back,
\* except for memories that are destroyed by then.  ensure_active_endpoints
\* checks this once, when the relation is added; every later transaction has
\* to keep it, restores included, which check no endpoint at all.
RelationsJoinAccepted ==
  /\ \A r \in relations : Accepted(r.from) /\ Accepted(r.to)
  /\ \A m \in Memories :
       change[m].before # NoState =>
         \A r \in change[m].before.relations, n \in Memories :
           n \in {r.from, r.to} => Accepted(n) \/ status[n] = "gone"

\* No transaction that changes what the AGE graph shows commits with the
\* graph marked clean.
VisibleChangeMarksDirty == [][GraphView' # GraphView => dirty']_vars

\* A memory gets active only by the approval of its creation or by a return
\* to the baseline of a change: deleting a creation and taking it out of the
\* trash does not get it past the reviewer.
ActivationIsReviewed ==
  [][\A m \in Memories :
       status[m] # "active" /\ status'[m] = "active" =>
         \/ status[m] = "pending" /\ change[m].action = "create"
         \/ change[m].before.status = "active" /\ text'[m] = change[m].before.text]_vars

-----------------------------------------------------------------------------
(* What docs/DB_PLAN.md says of the review and the code does not keep       *)

\* DB_PLAN.md:306: a rejection of an update restores the working state from
\* before_state.  This needs the restored rows to be acceptable.
RejectionPossible ==
  \A m \in Memories :
    Reviewable(m) /\ change[m].action # "create" => Restorable(m, change[m].before)

-----------------------------------------------------------------------------
(* The abstract specification and the refinement mapping                   *)

\* The text a reviewer last agreed to, which is where a rejection leads back to.
ConfirmedText(m) ==
  LET c == change[m] IN
  IF c.action = "none" THEN text[m]
  ELSE IF c.before = NoState \/ c.before.status # "active" THEN NoText
  ELSE c.before.text

Ledger == INSTANCE ReviewLedger WITH
  Items <- Memories,
  Values <- Texts,
  None <- NoText,
  confirmed <- [m \in Memories |-> ConfirmedText(m)],
  working <- [m \in Memories |-> IF Live(m) THEN text[m] ELSE NoText],
  open <- {m \in Memories : change[m].action # "none"}

\* Whatever agents and people do in between, the confirmed text of a memory
\* changes only when a reviewer accepts the working state (or the trash is
\* emptied), and closing a change leaves the memory with the confirmed text:
\* before_state survives every sequence of edits, deletions and restores.
ImplementsLedger == Ledger!Spec

(* What the embedding tasks assume of the rows (module MemoryRows).        *)
RowTable == INSTANCE MemoryRows

\* Every transaction that writes a row advances its revision by one, a row that
\* is gone stays gone with its text, and what has been active is pending again
\* only by way of the trash.  The publication of vectors compares revisions on
\* the strength of this.
ImplementsRows == RowTable!RowsSpec
=============================================================================
