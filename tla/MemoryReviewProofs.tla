------------------------- MODULE MemoryReviewProofs -------------------------
(***************************************************************************)
(* The safety invariants of MemoryReview hold for every value of the       *)
(* constants.                                                              *)
(*                                                                         *)
(* IInv is inductive: it is the conjunction of the invariants the runs     *)
(* check and of two that tie rows and calls in flight to them.  There is   *)
(* one lemma per kind of write (a rewritten text, a move to the trash, a   *)
(* destruction, a restore, a relation, a creation, an approval), which the *)
(* actions share, then one lemma per disjunct of Next.                     *)
(***************************************************************************)
EXTENDS MemoryReview, TLAPS

\* A memory has a text exactly as long as it has a row.
TextOfRows == \A m \in Memories : text[m] = NoText <=> ~Exists(m)

\* No client knows a revision that is still to come, and the uuid a creation
\* in flight will insert is its own.
CallsKnowTheirMemory ==
  \A k \in calls :
    /\ k.revision <= revision[k.memory]
    /\ k.op = "create" =>
         /\ status[k.memory] = "absent"
         /\ \A l \in calls : l.memory = k.memory => l = k

\* The inductive invariant.  RelationsJoinAccepted needs ReviewMatchesStatus (a
\* trashed memory has a baseline that says whether it was accepted), which needs
\* CallsKnowTheirMemory (a creation does not overwrite a row), and
\* RevisionIdentifiesText needs that no call is ahead of its memory.
IInv ==
  /\ TypeOK
  /\ ReviewMatchesStatus
  /\ TextOfRows
  /\ CallsKnowTheirMemory
  /\ RelationsJoinAccepted
  /\ AfterShowsWorkingText
  /\ SearchIndexCurrent
  /\ RevisionIdentifiesText

\* A new database satisfies the invariant.
THEOREM InitIInv == Init => IInv
  <1> SUFFICES ASSUME Init PROVE IInv
    OBVIOUS
  <1> USE ConstantsAssumption DEF Init
  <1>1. TypeOK
    BY DEF TypeOK, NoChange, Changes, Statuses, IndexRows
  <1>2. ReviewMatchesStatus
    BY DEF ReviewMatchesStatus, NoChange, Exists
  <1>3. RelationsJoinAccepted
    BY DEF RelationsJoinAccepted, NoChange
  <1>4. AfterShowsWorkingText /\ SearchIndexCurrent
    BY DEF AfterShowsWorkingText, SearchIndexCurrent, NoChange, IndexRow, Searchable
  <1>5. TextOfRows /\ CallsKnowTheirMemory /\ RevisionIdentifiesText
    BY DEF TextOfRows, CallsKnowTheirMemory, RevisionIdentifiesText, Exists
  <1> QED
    BY <1>1, <1>2, <1>3, <1>4, <1>5 DEF IInv

\* memory_state() of a working memory is a possible baseline.
LEMMA SnapshotTyped ==
  ASSUME TypeOK, TextOfRows, ConstantsAssumption, NEW m \in Memories, Live(m)
  PROVE  Snapshot(m) \in Snapshots /\ Snapshot(m) # NoState
  BY DEF TypeOK, TextOfRows, Exists, Live, Snapshot, Snapshots, Touching

\* An edit of a text, by any of the tools or over HTTP, keeps the invariant: the
\* first edit stores the working state as baseline, later ones keep it.
LEMMA RewritePreserves ==
  ASSUME IInv, NEW m \in Memories, NEW t \in Texts,
         \/ status[m] = "pending" /\ change[m].action = "create"
         \/ status[m] = "active" /\ change[m].action \in {"none", "update"},
         WriteText(m, t), RecordEdit(m, Snapshot(m)),
         calls' \subseteq calls, dirty' \in BOOLEAN
  PROVE  IInv'
  <1> USE ConstantsAssumption
  <1>a. Snapshot(m) \in Snapshots /\ Snapshot(m) # NoState
    BY DEF IInv, TypeOK, TextOfRows, Exists, Snapshot, Snapshots, Touching
  <1>b. /\ Snapshot(m)' \in AfterStates
        /\ Snapshot(m)'.status = status[m]
    BY DEF IInv, TypeOK, WriteText, Snapshot, AfterStates, Touching
  <1>1. TypeOK'
    <2>1. text' \in [Memories -> Texts \cup {NoText}] /\ revision' \in [Memories -> Nat]
      BY DEF IInv, TypeOK, WriteText, Bump
    <2>2. change' \in [Memories -> Changes]
      BY <1>a, <1>b DEF IInv, TypeOK, RecordEdit, Changes
    <2>3. IndexRow(m)' \in IndexRows
      BY DEF IInv, TypeOK, WriteText, IndexRow, Searchable, Texts, IndexRows, Statuses
    <2>4. index' \in [Memories -> IndexRows]
      BY <2>3 DEF IInv, TypeOK, WriteText, RefreshIndex
    <2> QED
      BY <2>1, <2>2, <2>4 DEF IInv, TypeOK, WriteText
  <1>2. ReviewMatchesStatus'
    BY <1>a DEF IInv, TypeOK, ReviewMatchesStatus, WriteText, RecordEdit, NoChange, Exists, Snapshot
  <1>3. TextOfRows'
    BY DEF IInv, TypeOK, TextOfRows, WriteText, Exists
  <1>4. CallsKnowTheirMemory'
    BY DEF IInv, TypeOK, CallsKnowTheirMemory, WriteText, Bump, Calls
  <1>5. RelationsJoinAccepted'
    BY DEF IInv, TypeOK, RelationsJoinAccepted, Accepted, WriteText, RecordEdit, Snapshot, Touching
  <1>6. AfterShowsWorkingText'
    BY DEF IInv, TypeOK, AfterShowsWorkingText, WriteText, RecordEdit, Snapshot
  <1>7. SearchIndexCurrent'
    BY DEF IInv, TypeOK, SearchIndexCurrent, WriteText, RefreshIndex, IndexRow
  <1>8. RevisionIdentifiesText'
    BY DEF IInv, TypeOK, RevisionIdentifiesText, CallsKnowTheirMemory, WriteText, Bump, Calls, Exists
  <1> QED
    BY <1>1, <1>2, <1>3, <1>4, <1>5, <1>6, <1>7, <1>8 DEF IInv

\* A move to the trash keeps the invariant, from the baseline of an open change
\* as from the working state itself.
LEMMA MoveToTrashPreserves ==
  ASSUME IInv, NEW m \in Memories, NEW before \in Snapshots,
         \/ /\ status[m] = "pending" \/ (status[m] = "active" /\ change[m].action = "none")
            /\ before = Snapshot(m)
         \/ change[m].action \in {"update", "delete"} /\ before = change[m].before,
         MoveToTrash(m),
         change' = [change EXCEPT ![m] =
           [action |-> "delete", before |-> before, after |-> Snapshot(m)']],
         calls' \subseteq calls, dirty' \in BOOLEAN
  PROVE  IInv'
  <1> USE ConstantsAssumption
  <1>a. status[m] \in {"pending", "active", "trashed"} /\ text[m] \in Texts
    BY DEF IInv, TypeOK, ReviewMatchesStatus, TextOfRows, Exists, NoChange
  <1>b. Snapshot(m)' \in AfterStates
    BY <1>a DEF IInv, TypeOK, MoveToTrash, Snapshot, AfterStates, Touching
  <1>c. before # NoState
    OBVIOUS
  <1>1. TypeOK'
    <2>1. change' \in [Memories -> Changes]
      BY <1>b DEF IInv, TypeOK, Changes
    <2>2. IndexRow(m)' \in IndexRows
      BY <1>a DEF IInv, TypeOK, MoveToTrash, IndexRow, Searchable, Texts, IndexRows, Statuses
    <2>3. index' \in [Memories -> IndexRows]
      BY <2>2 DEF IInv, TypeOK, MoveToTrash, RefreshIndex
    <2> QED
      BY <2>1, <2>3 DEF IInv, TypeOK, MoveToTrash, Bump, Statuses
  <1>2. ReviewMatchesStatus'
    BY <1>c DEF IInv, TypeOK, ReviewMatchesStatus, MoveToTrash, NoChange, Exists
  <1>3. TextOfRows'
    BY <1>a DEF IInv, TypeOK, TextOfRows, MoveToTrash, Exists
  <1>4. CallsKnowTheirMemory'
    BY <1>a DEF IInv, TypeOK, CallsKnowTheirMemory, MoveToTrash, Bump, Calls
  <1>5. RelationsJoinAccepted'
    <2>1. \A n \in Memories : Accepted(n) => Accepted(n)'
      BY <1>a, <1>c DEF IInv, TypeOK, ReviewMatchesStatus, NoChange, Accepted, MoveToTrash, Snapshot
    <2>2. \A n \in Memories : status[n] = "gone" => status'[n] = "gone"
      BY <1>a DEF IInv, TypeOK, MoveToTrash
    <2>3. \A r \in before.relations, n \in Memories :
            n \in {r.from, r.to} => Accepted(n) \/ status[n] = "gone"
      BY <1>c DEF IInv, TypeOK, RelationsJoinAccepted, Snapshot, Touching
    <2> QED
      BY <2>1, <2>2, <2>3 DEF IInv, TypeOK, RelationsJoinAccepted, MoveToTrash, Relations
  <1>6. AfterShowsWorkingText'
    BY DEF IInv, TypeOK, AfterShowsWorkingText, MoveToTrash, Snapshot
  <1>7. SearchIndexCurrent'
    BY DEF IInv, TypeOK, SearchIndexCurrent, MoveToTrash, RefreshIndex, IndexRow
  <1>8. RevisionIdentifiesText'
    BY DEF IInv, TypeOK, RevisionIdentifiesText, CallsKnowTheirMemory, MoveToTrash, Bump, Calls, Exists
  <1> QED
    BY <1>1, <1>2, <1>3, <1>4, <1>5, <1>6, <1>7, <1>8 DEF IInv

\* Destroying memories keeps the invariant: what the foreign keys cascade to is
\* all that mentions them, except baselines of other memories.
LEMMA HardDeletePreserves ==
  ASSUME IInv, NEW S \in SUBSET Memories, \A m \in S : Exists(m),
         HardDelete(S), calls' \subseteq calls, dirty' \in BOOLEAN
  PROVE  IInv'
  <1> USE ConstantsAssumption
  <1>1. TypeOK'
    BY DEF IInv, TypeOK, HardDelete, CloseChange, NoChange, Changes, IndexRows, Statuses
  <1>2. ReviewMatchesStatus'
    BY DEF IInv, TypeOK, ReviewMatchesStatus, HardDelete, CloseChange, NoChange, Exists
  <1>3. TextOfRows'
    BY DEF IInv, TypeOK, TextOfRows, HardDelete, Exists
  <1>4. CallsKnowTheirMemory'
    BY DEF IInv, TypeOK, CallsKnowTheirMemory, HardDelete, Calls, Exists
  <1>5. RelationsJoinAccepted'
    <2>1. \A n \in Memories \ S : Accepted(n) => Accepted(n)'
      BY DEF IInv, TypeOK, Accepted, HardDelete, CloseChange
    <2>2. \A n \in Memories : n \in S \/ status[n] = "gone" => status'[n] = "gone"
      BY DEF IInv, TypeOK, HardDelete
    <2> QED
      BY <2>1, <2>2 DEF IInv, TypeOK, RelationsJoinAccepted, HardDelete, CloseChange, NoChange, Relations
  <1>6. AfterShowsWorkingText'
    BY DEF IInv, TypeOK, AfterShowsWorkingText, HardDelete, CloseChange, NoChange
  <1>7. SearchIndexCurrent'
    BY DEF IInv, TypeOK, SearchIndexCurrent, HardDelete, IndexRow, Searchable
  <1>8. RevisionIdentifiesText'
    BY DEF IInv, TypeOK, RevisionIdentifiesText, HardDelete, Calls, Exists
  <1> QED
    BY <1>1, <1>2, <1>3, <1>4, <1>5, <1>6, <1>7, <1>8 DEF IInv

\* Putting a baseline back keeps the invariant, although no endpoint of the
\* relations put back is checked: they joined accepted memories, and those that
\* are destroyed by now make the restore fail.
LEMMA RestorePreserves ==
  ASSUME IInv, NEW m \in Memories, NEW before, before = change[m].before, before # NoState,
         Restorable(m, before), RestoreSnapshot(m, before),
         \/ before.status = "active" /\ CloseChange({m})
         \/ /\ before.status = "pending"
            /\ change' = [change EXCEPT ![m] =
                 [action |-> "create", before |-> NoState, after |-> before]],
         calls' \subseteq calls, dirty' \in BOOLEAN
  PROVE  IInv'
  <1> USE ConstantsAssumption
  <1>a. before \in Snapshots /\ before \in AfterStates
    BY DEF IInv, TypeOK, Changes, Snapshots, AfterStates
  <1>b. status[m] \in {"active", "trashed"} /\ Exists(m)
    BY DEF IInv, TypeOK, ReviewMatchesStatus, NoChange, Exists, Statuses
  <1>1. TypeOK'
    <2>1. change' \in [Memories -> Changes]
      BY <1>a DEF IInv, TypeOK, Changes, CloseChange, NoChange
    <2>2. /\ status' \in [Memories -> Statuses]
          /\ text' \in [Memories -> Texts \cup {NoText}]
          /\ relations' \subseteq Relations
      BY <1>a DEF IInv, TypeOK, RestoreSnapshot, Snapshots, Statuses
    <2>3. IndexRow(m)' \in IndexRows
      BY <1>a, <2>2 DEF IInv, TypeOK, RestoreSnapshot, IndexRow, Searchable, Texts, IndexRows, Snapshots
    <2>4. index' \in [Memories -> IndexRows]
      BY <2>3 DEF IInv, TypeOK, RestoreSnapshot, RefreshIndex
    <2> QED
      BY <2>1, <2>2, <2>4 DEF IInv, TypeOK, RestoreSnapshot, Bump
  <1>2. ReviewMatchesStatus'
    BY <1>a, <1>b DEF IInv, TypeOK, ReviewMatchesStatus, RestoreSnapshot, CloseChange, NoChange, Exists, Snapshots
  <1>3. TextOfRows'
    BY <1>a, <1>b DEF IInv, TypeOK, TextOfRows, RestoreSnapshot, Exists, Snapshots
  <1>4. CallsKnowTheirMemory'
    BY <1>b DEF IInv, TypeOK, CallsKnowTheirMemory, RestoreSnapshot, Bump, Calls
  <1>5. RelationsJoinAccepted'
    <2>1. \A n \in Memories : Accepted(n) => Accepted(n)'
      BY <1>b DEF IInv, TypeOK, ReviewMatchesStatus, NoChange, Accepted, RestoreSnapshot, CloseChange
    <2>2. \A n \in Memories : status[n] = "gone" => status'[n] = "gone"
      BY <1>b DEF IInv, TypeOK, RestoreSnapshot
    <2>3. \A r \in before.relations, n \in Memories :
            n \in {r.from, r.to} => Accepted(n) /\ status[n] # "gone"
      BY DEF IInv, RelationsJoinAccepted, Restorable, Exists
    <2> QED
      BY <1>a, <2>1, <2>2, <2>3
      DEF IInv, TypeOK, RelationsJoinAccepted, RestoreSnapshot, CloseChange, NoChange, Relations, Snapshots
  <1>6. AfterShowsWorkingText'
    BY <1>a DEF IInv, TypeOK, AfterShowsWorkingText, RestoreSnapshot, CloseChange, NoChange
  <1>7. SearchIndexCurrent'
    BY DEF IInv, TypeOK, SearchIndexCurrent, RestoreSnapshot, RefreshIndex, IndexRow
  <1>8. RevisionIdentifiesText'
    BY <1>b DEF IInv, TypeOK, RevisionIdentifiesText, CallsKnowTheirMemory, RestoreSnapshot, Bump, Calls, Exists
  <1> QED
    BY <1>1, <1>2, <1>3, <1>4, <1>5, <1>6, <1>7, <1>8 DEF IInv

\* The tail of every relation operation keeps the invariant if the relations it
\* leaves and the baseline it may store join accepted memories.
LEMMA CommitRelationsPreserves ==
  ASSUME IInv, NEW r \in Relations, NEW edges \in SUBSET Relations,
         Accepted(r.from), Accepted(r.to),
         \A e \in edges : Accepted(e.from) /\ Accepted(e.to),
         NEW before \in Snapshots,
         before.status = "active",
         \A e \in before.relations, n \in Memories :
           n \in {e.from, e.to} => Accepted(n) \/ status[n] = "gone",
         CommitRelations(r, edges, before)
  PROVE  IInv'
  <1> USE ConstantsAssumption
  <1> DEFINE m == r.from
  <1>a. m \in Memories /\ r.to \in Memories
    BY DEF Relations
  <1>b. status[m] \in {"active", "trashed"} /\ text[m] \in Texts
    BY <1>a DEF IInv, TypeOK, TextOfRows, Exists, Accepted
  <1>c. Snapshot(m)' \in AfterStates
    BY <1>a, <1>b DEF IInv, TypeOK, CommitRelations, Snapshot, AfterStates, Touching
  <1>d. before # NoState
    OBVIOUS
  <1>e. /\ \A n \in Memories \ {m} : change'[n] = change[n]
        /\ change[m].action # "none" =>
             change'[m].action = change[m].action /\ change'[m].before = change[m].before
        /\ change[m].action = "none" =>
             change'[m].action = "update" /\ change'[m].before = before
    BY <1>a DEF IInv, TypeOK, CommitRelations, RecordEdit
  <1>f. status[m] = "trashed" => change[m].action = "delete"
    BY <1>a DEF IInv, ReviewMatchesStatus
  <1>1. TypeOK'
    <2>1. change' \in [Memories -> Changes]
      BY <1>a, <1>c DEF IInv, TypeOK, CommitRelations, RecordEdit, Changes
    <2> QED
      BY <2>1 DEF IInv, TypeOK, CommitRelations, Bump
  <1>2. ReviewMatchesStatus'
    <2> SUFFICES ASSUME NEW n \in Memories
                 PROVE  /\ status[n] = "pending" => change'[n].action = "create" /\ change'[n].before = NoState
                        /\ status[n] = "active" =>
                             \/ change'[n] = NoChange
                             \/ /\ change'[n].action = "update" /\ change'[n].before # NoState
                                /\ change'[n].before.status = "active"
                        /\ status[n] = "trashed" => change'[n].action = "delete" /\ change'[n].before # NoState
                        /\ ~Exists(n) => change'[n] = NoChange
      BY DEF ReviewMatchesStatus, CommitRelations, Exists, NoChange
    <2>1. CASE n # m
      BY <1>e, <2>1 DEF IInv, ReviewMatchesStatus
    <2>2. CASE n = m
      BY <1>a, <1>b, <1>d, <1>e, <2>2 DEF IInv, ReviewMatchesStatus, Exists, NoChange
    <2> QED
      BY <2>1, <2>2
  <1>3. TextOfRows'
    BY DEF IInv, TextOfRows, CommitRelations, Exists
  <1>4. CallsKnowTheirMemory'
    BY DEF IInv, TypeOK, CallsKnowTheirMemory, CommitRelations, Bump, Calls
  <1>5. RelationsJoinAccepted'
    <2>1. \A n \in Memories : Accepted(n) => Accepted(n)'
      BY <1>b, <1>e, <1>f DEF Accepted, CommitRelations
    <2>2. \A e \in relations' : Accepted(e.from)' /\ Accepted(e.to)'
      BY <2>1 DEF CommitRelations, Relations
    <2>3. ASSUME NEW n \in Memories, change'[n].before # NoState,
                 NEW e \in change'[n].before.relations, NEW o \in Memories, o \in {e.from, e.to}
          PROVE  Accepted(o)' \/ status'[o] = "gone"
      <3>1. change'[n].before = change[n].before \/ change'[n].before = before
        BY <1>a DEF IInv, TypeOK, CommitRelations, RecordEdit
      <3>2. Accepted(o) \/ status[o] = "gone"
        BY <2>3, <3>1 DEF IInv, RelationsJoinAccepted
      <3> QED
        BY <2>1, <3>2 DEF CommitRelations
    <2> QED
      BY <2>2, <2>3 DEF RelationsJoinAccepted
  <1>6. AfterShowsWorkingText'
    BY <1>a DEF IInv, TypeOK, AfterShowsWorkingText, CommitRelations, RecordEdit, Snapshot
  <1>7. SearchIndexCurrent'
    BY DEF IInv, SearchIndexCurrent, CommitRelations, IndexRow
  <1>8. RevisionIdentifiesText'
    BY DEF IInv, TypeOK, RevisionIdentifiesText, CallsKnowTheirMemory, CommitRelations, Bump, Calls, Exists
  <1> QED
    BY <1>1, <1>2, <1>3, <1>4, <1>5, <1>6, <1>7, <1>8 DEF IInv

\* The inserting transaction of create_memory keeps the invariant: the uuid it
\* inserts has no row, no change and no search row.
LEMMA FinishCreatePreserves ==
  ASSUME IInv, NEW k \in calls, FinishCreate(k)
  PROVE  IInv'
  <1> USE ConstantsAssumption
  <1> DEFINE m == k.memory
  <1>a. m \in Memories /\ k.text \in Texts /\ k.op = "create"
    BY DEF IInv, TypeOK, Calls, FinishCreate
  <1>b. status[m] = "absent" /\ \A l \in calls' : l \in calls /\ l.memory # m
    BY <1>a DEF IInv, CallsKnowTheirMemory, FinishCreate, Finish
  <1>c. Snapshot(m)' \in AfterStates
    BY <1>a DEF IInv, TypeOK, FinishCreate, Snapshot, AfterStates, Touching
  <1>1. TypeOK'
    <2>1. change' \in [Memories -> Changes]
      BY <1>a, <1>c DEF IInv, TypeOK, FinishCreate, Changes
    <2>2. IndexRow(m)' \in IndexRows
      BY <1>a DEF IInv, TypeOK, FinishCreate, IndexRow, Searchable, Texts, IndexRows, Statuses
    <2>3. index' \in [Memories -> IndexRows]
      BY <2>2 DEF IInv, TypeOK, FinishCreate, RefreshIndex
    <2> QED
      BY <1>a, <1>b, <2>1, <2>3 DEF IInv, TypeOK, FinishCreate, Statuses, Finish
  <1>2. ReviewMatchesStatus'
    BY <1>a DEF IInv, TypeOK, ReviewMatchesStatus, FinishCreate, NoChange, Exists
  <1>3. TextOfRows'
    BY <1>a DEF IInv, TypeOK, TextOfRows, FinishCreate, Exists
  <1>4. CallsKnowTheirMemory'
    BY <1>a, <1>b DEF IInv, TypeOK, CallsKnowTheirMemory, FinishCreate, Calls
  <1>5. RelationsJoinAccepted'
    <2>1. \A n \in Memories : Accepted(n) => Accepted(n)'
      BY <1>a, <1>b DEF IInv, TypeOK, Accepted, FinishCreate
    <2>2. \A n \in Memories : status[n] = "gone" => status'[n] = "gone"
      BY <1>a, <1>b DEF IInv, TypeOK, FinishCreate
    <2>3. \A n \in Memories : change'[n].before # NoState => change'[n].before = change[n].before
      BY <1>a DEF IInv, TypeOK, FinishCreate
    <2> QED
      BY <2>1, <2>2, <2>3 DEF IInv, TypeOK, RelationsJoinAccepted, FinishCreate, Relations
  <1>6. AfterShowsWorkingText'
    BY <1>a DEF IInv, TypeOK, AfterShowsWorkingText, FinishCreate, Snapshot
  <1>7. SearchIndexCurrent'
    BY <1>a DEF IInv, TypeOK, SearchIndexCurrent, FinishCreate, RefreshIndex, IndexRow
  <1>8. RevisionIdentifiesText'
    BY <1>b DEF IInv, TypeOK, RevisionIdentifiesText, FinishCreate, Calls, Exists
  <1> QED
    BY <1>1, <1>2, <1>3, <1>4, <1>5, <1>6, <1>7, <1>8 DEF IInv

\* The approval of a creation keeps the invariant, whichever automatic
\* relations it inserts.
LEMMA ApproveCreatePreserves ==
  ASSUME IInv, NEW m \in Memories, ApproveCreate(m)
  PROVE  IInv'
  <1> USE ConstantsAssumption
  <1>a. PICK edges \in AutoRelations(m) : relations' = relations \cup edges
    BY DEF ApproveCreate
  <1>b. \A e \in edges : /\ e \in Relations
                        /\ e.from = m
                        /\ e.to # m /\ status[e.to] = "active"
    <2>1. PICK S \in SUBSET AutoCandidates(m) :
            edges = {[from |-> m, to |-> n, type |-> RelatedTo] : n \in S}
      BY DEF AutoRelations
    <2>2. \A n \in S : n \in Memories \ {m} /\ status[n] = "active"
      BY DEF AutoCandidates
    <2> QED
      BY <2>1, <2>2 DEF Relations
  <1>c. status[m] = "pending" /\ text[m] \in Texts
    BY DEF IInv, TypeOK, TextOfRows, Exists, ApproveCreate
  <1>1. TypeOK'
    <2>1. relations' \subseteq Relations
      BY <1>a, <1>b DEF IInv, TypeOK
    <2>2. IndexRow(m)' \in IndexRows
      BY <1>c DEF IInv, TypeOK, ApproveCreate, IndexRow, Searchable, Texts, IndexRows, Statuses
    <2>3. index' \in [Memories -> IndexRows]
      BY <2>2 DEF IInv, TypeOK, ApproveCreate, RefreshIndex
    <2>4. change' \in [Memories -> Changes]
      BY DEF IInv, TypeOK, ApproveCreate, CloseChange, NoChange, Changes
    <2>5. status' \in [Memories -> Statuses] /\ revision' \in [Memories -> Nat]
      BY DEF IInv, TypeOK, ApproveCreate, Bump, Statuses
    <2> QED
      BY <2>1, <2>3, <2>4, <2>5 DEF IInv, TypeOK, ApproveCreate
  <1>2. ReviewMatchesStatus'
    BY DEF IInv, TypeOK, ReviewMatchesStatus, ApproveCreate, CloseChange, NoChange, Exists
  <1>3. TextOfRows'
    BY <1>c DEF IInv, TypeOK, TextOfRows, ApproveCreate, Exists
  <1>4. CallsKnowTheirMemory'
    BY <1>c DEF IInv, TypeOK, CallsKnowTheirMemory, ApproveCreate, Bump, Calls
  <1>5. RelationsJoinAccepted'
    <2>1. Accepted(m)' /\ \A n \in Memories : Accepted(n) => Accepted(n)'
      BY <1>c DEF IInv, TypeOK, Accepted, ApproveCreate, CloseChange
    <2>2. \A n \in Memories : status[n] = "gone" => status'[n] = "gone"
      BY <1>c DEF IInv, TypeOK, ApproveCreate
    <2>3. \A e \in edges : Accepted(e.from)' /\ Accepted(e.to)'
      BY <1>b, <2>1 DEF Accepted, Relations
    <2>4. \A e \in relations : Accepted(e.from)' /\ Accepted(e.to)'
      BY <2>1 DEF IInv, TypeOK, RelationsJoinAccepted, Relations
    <2>5. \A n \in Memories : change'[n].before # NoState => change'[n].before = change[n].before
      BY DEF IInv, TypeOK, ApproveCreate, CloseChange, NoChange
    <2> QED
      BY <1>a, <2>1, <2>2, <2>3, <2>4, <2>5 DEF IInv, RelationsJoinAccepted
  <1>6. AfterShowsWorkingText'
    BY DEF IInv, TypeOK, AfterShowsWorkingText, ApproveCreate, CloseChange, NoChange
  <1>7. SearchIndexCurrent'
    BY DEF IInv, TypeOK, SearchIndexCurrent, ApproveCreate, RefreshIndex, IndexRow
  <1>8. RevisionIdentifiesText'
    BY DEF IInv, TypeOK, RevisionIdentifiesText, CallsKnowTheirMemory, ApproveCreate, Bump, Calls, Exists
  <1> QED
    BY <1>1, <1>2, <1>3, <1>4, <1>5, <1>6, <1>7, <1>8 DEF IInv

\* The approval of an update, which only closes the change, keeps the
\* invariant.
LEMMA ApproveUpdatePreserves ==
  ASSUME IInv, NEW m \in Memories, status[m] = "active", change[m].action = "update",
         CloseChange({m}), index' = [index EXCEPT ![m] = IndexRow(m)],
         UNCHANGED <<units, relations, dirty, calls>>
  PROVE  IInv'
  <1> USE ConstantsAssumption DEF units
  <1>a. index' = index
    BY DEF IInv, TypeOK, SearchIndexCurrent
  <1>1. TypeOK'
    BY <1>a DEF IInv, TypeOK, CloseChange, NoChange, Changes
  <1>2. ReviewMatchesStatus'
    BY DEF IInv, TypeOK, ReviewMatchesStatus, CloseChange, NoChange, Exists
  <1>3. TextOfRows'
    BY DEF IInv, TextOfRows, Exists
  <1>4. CallsKnowTheirMemory'
    BY DEF IInv, CallsKnowTheirMemory
  <1>5. RelationsJoinAccepted'
    <2>1. \A n \in Memories : Accepted(n) => Accepted(n)'
      BY DEF IInv, TypeOK, Accepted, CloseChange
    <2>2. \A n \in Memories : change'[n].before # NoState => change'[n].before = change[n].before
      BY DEF IInv, TypeOK, CloseChange, NoChange
    <2> QED
      BY <2>1, <2>2 DEF IInv, TypeOK, RelationsJoinAccepted, Relations
  <1>6. AfterShowsWorkingText'
    BY DEF IInv, TypeOK, AfterShowsWorkingText, CloseChange, NoChange
  <1>7. SearchIndexCurrent'
    BY <1>a DEF IInv, SearchIndexCurrent, IndexRow
  <1>8. RevisionIdentifiesText'
    BY DEF IInv, RevisionIdentifiesText, Exists
  <1> QED
    BY <1>1, <1>2, <1>3, <1>4, <1>5, <1>6, <1>7, <1>8 DEF IInv

\* A step that only moves clients keeps the invariant if their calls stay in order.
LEMMA CallsPreserve ==
  ASSUME IInv, UNCHANGED <<units, change, relations, index>>, dirty' \in BOOLEAN,
         calls' \subseteq Calls, CallsKnowTheirMemory', RevisionIdentifiesText'
  PROVE  IInv'
  <1> USE DEF units
  <1>1. TypeOK' /\ TextOfRows' /\ SearchIndexCurrent'
    BY DEF IInv, TypeOK, TextOfRows, SearchIndexCurrent, Exists, IndexRow
  <1>2. ReviewMatchesStatus' /\ AfterShowsWorkingText'
    BY DEF IInv, ReviewMatchesStatus, AfterShowsWorkingText, Exists
  <1>3. RelationsJoinAccepted'
    BY DEF IInv, RelationsJoinAccepted, Accepted
  <1> QED
    BY <1>1, <1>2, <1>3 DEF IInv

\* Every step of the tools and of HTTP updates keeps the invariant.
LEMMA ClientStepPreserves ==
  ASSUME IInv, ClientStep
  PROVE  IInv'
  <1> USE ConstantsAssumption
  <1>0. /\ \A k \in calls : k \in Calls /\ k.memory \in Memories /\ k.text \in Texts
        /\ \A m \in Memories : Exists(m) => text[m] \in Texts /\ status[m] # "absent"
        /\ dirty \in BOOLEAN
    BY DEF IInv, TypeOK, TextOfRows, Exists, Calls
  <1>1. ASSUME NEW m \in Memories, View(m) PROVE IInv'
    <2>1. calls' \subseteq Calls
      BY <1>0, <1>1 DEF IInv, TypeOK, View, Calls
    <2>2. CallsKnowTheirMemory'
      BY <1>0, <1>1 DEF IInv, TypeOK, View, CallsKnowTheirMemory, units
    <2>3. RevisionIdentifiesText'
      BY <1>1 DEF IInv, View, RevisionIdentifiesText, Exists, units
    <2> QED
      BY <1>0, <1>1, <2>1, <2>2, <2>3, CallsPreserve DEF View
  <1>2. ASSUME NEW m \in Memories, NEW t \in Texts, BeginCreate(m, t) PROVE IInv'
    <2>1. calls' \subseteq Calls
      BY <1>2 DEF IInv, TypeOK, BeginCreate, Calls
    <2>2. CallsKnowTheirMemory'
      BY <1>2 DEF IInv, TypeOK, BeginCreate, CallsKnowTheirMemory, units
    <2>3. RevisionIdentifiesText'
      BY <1>2 DEF IInv, BeginCreate, RevisionIdentifiesText, Exists, units
    <2> QED
      BY <1>0, <1>2, <2>1, <2>2, <2>3, CallsPreserve DEF BeginCreate
  <1>3. ASSUME UNCHANGED <<units, change, relations, index>>, dirty' \in BOOLEAN,
               calls' \subseteq calls
        PROVE  IInv'
    BY <1>3, CallsPreserve
    DEF IInv, TypeOK, CallsKnowTheirMemory, RevisionIdentifiesText, Exists, units
  <1>4. ASSUME NEW k \in calls, Forget(k) PROVE IInv'
    BY <1>0, <1>3, <1>4 DEF Forget, Finish
  <1>5. ASSUME NEW k \in calls, FinishCreate(k) PROVE IInv'
    BY <1>5, FinishCreatePreserves
  <1>6. ASSUME NEW k \in calls, EditLocked(k)
        PROVE  \/ status[k.memory] = "pending" /\ change[k.memory].action = "create"
               \/ status[k.memory] = "active" /\ change[k.memory].action \in {"none", "update"}
    BY <1>6 DEF EditLocked
  <1>7. ASSUME NEW k \in calls, NEW t \in Texts, ReplaceFields(k, t) PROVE IInv'
    BY <1>0, <1>6, <1>7, RewritePreserves DEF ReplaceFields, Finish
  <1>8. ASSUME NEW k \in calls, NEW t \in Texts, HttpUpdate(k, t) PROVE IInv'
    <2>1. change[k.memory].action \in {"none", "update"}
      BY <1>0, <1>8 DEF HttpUpdate, IInv, ReviewMatchesStatus, NoChange
    <2> QED
      BY <1>0, <1>8, <2>1, RewritePreserves DEF HttpUpdate, Finish
  <1>9. ASSUME NEW k \in calls, NEW t \in Texts, EditKeywords(k, t) PROVE IInv'
    BY <1>0, <1>6, <1>9, RewritePreserves DEF EditKeywords, Finish
  <1>10. ASSUME NEW k \in calls, ClassifyDelete(k) PROVE IInv'
    <2>1. PICK l \in {[k EXCEPT !.op = op] : op \in {"deletePending", "deleteActive", "deleteOpen"}} :
            calls' = (calls \ {k}) \cup {l}
      BY <1>10 DEF ClassifyDelete, Become
    <2>2. /\ l \in Calls /\ l.op # "create"
          /\ l.memory = k.memory /\ l.revision = k.revision /\ l.text = k.text
      BY <1>0 DEF Calls
    <2>3. k.op = "view" /\ UNCHANGED <<units, change, relations, index, dirty>>
      BY <1>10 DEF ClassifyDelete
    <2>4. CallsKnowTheirMemory'
      BY <1>0, <2>1, <2>2, <2>3 DEF IInv, CallsKnowTheirMemory, units
    <2>5. RevisionIdentifiesText'
      BY <2>1, <2>2, <2>3 DEF IInv, RevisionIdentifiesText, Exists, units
    <2> QED
      BY <1>0, <2>1, <2>2, <2>3, <2>4, <2>5, CallsPreserve
  <1>11. ASSUME NEW k \in calls, DeletePendingCreate(k) PROVE IInv'
    <2>1. Snapshot(k.memory) \in Snapshots
      BY <1>0, <1>11, SnapshotTyped DEF DeletePendingCreate, IInv, Live
    <2> QED
      BY <1>0, <1>11, <2>1, MoveToTrashPreserves DEF DeletePendingCreate, Finish
  <1>12. ASSUME NEW k \in calls, DeleteActive(k) PROVE IInv'
    <2>1. Snapshot(k.memory) \in Snapshots
      BY <1>0, <1>12, SnapshotTyped DEF DeleteActive, IInv, Live
    <2> QED
      BY <1>0, <1>12, <2>1, MoveToTrashPreserves DEF DeleteActive, Finish
  <1>13. ASSUME NEW k \in calls, DeleteOpenChange(k) PROVE IInv'
    <2>1. CASE status[k.memory] = "trashed" /\ change[k.memory].action = "delete"
      BY <1>0, <1>3, <1>13, <2>1 DEF DeleteOpenChange, Finish
    <2>2. CASE ~(status[k.memory] = "trashed" /\ change[k.memory].action = "delete")
      <3>1. /\ change[k.memory].action \in {"update", "delete"}
            /\ change[k.memory].before \in Snapshots
        BY <1>0, <1>13, <2>2
        DEF DeleteOpenChange, IInv, TypeOK, ReviewMatchesStatus, Statuses, Exists, Changes, NoChange
      <3> QED
        BY <1>0, <1>13, <2>2, <3>1, MoveToTrashPreserves DEF DeleteOpenChange, Finish
    <2> QED
      BY <2>1, <2>2
  <1> QED
    BY <1>1, <1>2, <1>4, <1>5, <1>7, <1>8, <1>9, <1>10, <1>11, <1>12, <1>13 DEF ClientStep

\* Every decision of a reviewer keeps the invariant; approving a deletion never applies.
LEMMA ReviewStepPreserves ==
  ASSUME IInv, ReviewStep
  PROVE  IInv'
  <1>1. ASSUME NEW m \in Memories, ApproveCreate(m) PROVE IInv'
    BY <1>1, ApproveCreatePreserves
  <1>2. ASSUME NEW m \in Memories, ApproveChange(m) PROVE IInv'
    <2>1. status[m] = "active" /\ change[m].action = "update"
      BY <1>2 DEF ApproveChange, Reviewable, IInv, TypeOK, ReviewMatchesStatus, Exists, NoChange
    <2> QED
      BY <1>2, <2>1, ApproveUpdatePreserves DEF ApproveChange, units
  <1>3. ASSUME NEW m \in Memories, RejectCreate(m) PROVE IInv'
    BY <1>3, HardDeletePreserves DEF RejectCreate, Reviewable
  <1>4. ASSUME NEW m \in Memories, RejectChange(m) PROVE IInv'
    <2>1. change[m].before.status = "active"
      BY <1>4 DEF RejectChange, Reviewable, IInv, TypeOK, ReviewMatchesStatus, Exists, NoChange
    <2> QED
      BY <1>4, <2>1, RestorePreserves DEF RejectChange
  <1> QED
    BY <1>1, <1>2, <1>3, <1>4 DEF ReviewStep

\* Every step on the trash, by a person or the worker, keeps the invariant.
LEMMA TrashStepPreserves ==
  ASSUME IInv, TrashStep
  PROVE  IInv'
  <1>0. \A m \in Trash : m \in Memories /\ Exists(m) /\ change[m].before # NoState
    BY DEF Trash, Exists, IInv, ReviewMatchesStatus
  <1>0a. dirty \in BOOLEAN
    BY DEF IInv, TypeOK
  <1>1. ASSUME NEW m \in Memories, RestoreActive(m) PROVE IInv'
    BY <1>0, <1>1, RestorePreserves DEF RestoreActive
  <1>2. ASSUME NEW m \in Memories, RestorePending(m) PROVE IInv'
    BY <1>0, <1>0a, <1>2, RestorePreserves DEF RestorePending
  <1>3. ASSUME NEW m \in Memories, DeleteTrash(m) PROVE IInv'
    BY <1>0, <1>3, HardDeletePreserves DEF DeleteTrash
  <1>4. ASSUME NEW S \in SUBSET Memories, DeleteExpiredTrash(S) PROVE IInv'
    BY <1>0, <1>4, HardDeletePreserves DEF DeleteExpiredTrash
  <1> QED
    BY <1>1, <1>2, <1>3, <1>4 DEF TrashStep

\* Every relation operation keeps the invariant, also on a memory that is in the
\* trash, where it keeps the baseline of the deletion.
LEMMA RelationStepPreserves ==
  ASSUME IInv, RelationStep
  PROVE  IInv'
  <1> USE ConstantsAssumption
  <1>1. ASSUME NEW r \in Relations, Accepted(r.from), Accepted(r.to),
               NEW edges \in SUBSET Relations,
               \A e \in edges : Accepted(e.from) /\ Accepted(e.to),
               CommitRelations(r, edges, Snapshot(r.from))
        PROVE  IInv'
    <2>1. r.from \in Memories
      BY DEF Relations
    <2>2. CASE status[r.from] = "active"
      <3>1. Snapshot(r.from) \in Snapshots /\ Snapshot(r.from).status = "active"
        BY <2>1, <2>2, SnapshotTyped DEF IInv, Live, Snapshot
      <3>2. \A e \in Snapshot(r.from).relations, n \in Memories :
              n \in {e.from, e.to} => Accepted(n)
        BY DEF IInv, RelationsJoinAccepted, Snapshot, Touching
      <3> QED
        BY <1>1, <3>1, <3>2, CommitRelationsPreserves
    <2>3. CASE status[r.from] # "active"
      <3> DEFINE before == change[r.from].before
      <3>1. change[r.from].action = "delete" /\ before \in Snapshots /\ before.status = "active"
        BY <1>1, <2>1, <2>3 DEF Accepted, IInv, TypeOK, ReviewMatchesStatus, Changes
      <3>2. CommitRelations(r, edges, before)
        BY <1>1, <2>1, <3>1 DEF CommitRelations, RecordEdit
      <3>3. \A e \in before.relations, n \in Memories :
              n \in {e.from, e.to} => Accepted(n) \/ status[n] = "gone"
        BY <2>1, <3>1 DEF IInv, RelationsJoinAccepted
      <3> QED
        BY <1>1, <3>1, <3>2, <3>3, CommitRelationsPreserves
    <2> QED
      BY <2>2, <2>3
  <1>2. /\ relations \subseteq Relations
        /\ \A e \in relations : Accepted(e.from) /\ Accepted(e.to)
    BY DEF IInv, TypeOK, RelationsJoinAccepted
  <1>3. ASSUME NEW r \in Relations, AddRelation(r) PROVE IInv'
    <2>1. CommitRelations(r, relations \cup {r}, Snapshot(r.from))
      BY <1>3 DEF AddRelation, InsertRelation
    <2>2. Accepted(r.from) /\ Accepted(r.to)
      BY <1>3 DEF AddRelation, RelationAllowed, Accepted
    <2> QED
      BY <1>1, <1>2, <2>1, <2>2
  <1>4. ASSUME NEW r \in relations, DeleteRelation(r) PROVE IInv'
    <2>1. /\ r \in Relations /\ relations \ {r} \in SUBSET Relations
          /\ CommitRelations(r, relations \ {r}, Snapshot(r.from))
      BY <1>2, <1>4 DEF DeleteRelation, RemoveRelation
    <2> QED
      BY <1>1, <1>2, <2>1
  <1>5. ASSUME NEW r \in relations, NEW type \in RelationTypes, UpdateRelation(r, type) PROVE IInv'
    <2> DEFINE new == [from |-> r.from, to |-> r.to, type |-> type]
               edges == (relations \ {r}) \cup {new}
    <2>1. r \in Relations /\ new \in Relations /\ new.from = r.from /\ new.to = r.to
      BY <1>2 DEF Relations
    <2>2. edges \in SUBSET Relations /\ CommitRelations(r, edges, Snapshot(r.from))
      BY <1>2, <1>5, <2>1 DEF UpdateRelation, ReplaceRelation
    <2>3. \A e \in edges : Accepted(e.from) /\ Accepted(e.to)
      BY <1>2, <2>1
    <2> QED
      BY <1>1, <1>2, <2>1, <2>2, <2>3
  <1> QED
    BY <1>3, <1>4, <1>5 DEF RelationStep

\* The invariant is inductive.
THEOREM NextIInv == IInv /\ [Next]_vars => IInv'
  <1> SUFFICES ASSUME IInv, [Next]_vars PROVE IInv'
    OBVIOUS
  <1>1. CASE RebuildGraph \/ UNCHANGED vars
    <2>1. /\ UNCHANGED <<units, change, relations, index, calls>>
          /\ dirty' \in BOOLEAN
      BY <1>1 DEF IInv, TypeOK, RebuildGraph, vars, units
    <2>2. calls' \subseteq Calls /\ CallsKnowTheirMemory' /\ RevisionIdentifiesText'
      BY <2>1 DEF IInv, TypeOK, CallsKnowTheirMemory, RevisionIdentifiesText, Exists, units
    <2> QED
      BY <2>1, <2>2, CallsPreserve
  <1> QED
    BY <1>1, ClientStepPreserves, ReviewStepPreserves, TrashStepPreserves, RelationStepPreserves
    DEF Next

\* The invariant holds in every reachable state.
THEOREM Invariance == Spec => []IInv
  BY InitIInv, NextIInv, PTL DEF Spec

-----------------------------------------------------------------------------
(* The invariants one by one                                               *)

\* Every variable keeps its type; a baseline is never taken from the trash.
THEOREM TypeCorrectness == Spec => []TypeOK
  BY Invariance, PTL DEF IInv

\* memory_units.status and memory_changes agree after every transaction, so the
\* arms the tools keep for impossible combinations are unreachable.
THEOREM StatusAgreesWithReview == Spec => []ReviewMatchesStatus
  BY Invariance, PTL DEF IInv

\* A reviewer reads in after_state the text and status he decides on.
THEOREM ReviewShowsWorkingText == Spec => []AfterShowsWorkingText
  BY Invariance, PTL DEF IInv

\* search_memory answers from what the tables say.
THEOREM SearchStaysCurrent == Spec => []SearchIndexCurrent
  BY Invariance, PTL DEF IInv

\* If the revision a client saw is still current, nothing it saw has changed.
THEOREM RevisionCheckSuffices == Spec => []RevisionIdentifiesText
  BY Invariance, PTL DEF IInv

\* Relations join accepted memories only, whatever is restored and in which order.
THEOREM RelationsStayAccepted == Spec => []RelationsJoinAccepted
  BY Invariance, PTL DEF IInv
=============================================================================
