----------------------- MODULE MemoryReviewRefinement -----------------------
(***************************************************************************)
(* What the steps of MemoryReview may do, for every value of the constants: *)
(* what marks the AGE graph dirty, what makes a memory active, and that every *)
(* step is a step or a stutter of ReviewLedger.  All of it rests on the    *)
(* inductive invariant of MemoryReviewProofs, the first on one more        *)
(* invariant: the relations of a baseline touch the memory the baseline    *)
(* belongs to.                                                             *)
(***************************************************************************)
EXTENDS MemoryReviewProofs

\* before_state was read by memory_state(), which lists the relations of one memory.
BaselinesTouch ==
  \A m \in Memories :
    change[m].before # NoState =>
      \A r \in change[m].before.relations : m \in {r.from, r.to}

\* Whatever a step writes to a change row, its baseline is the one that was
\* there, a snapshot of the working state of the same memory, or none.
BaselineKept(m) ==
  \/ change'[m].before \in {change[m].before, NoState}
  \/ change'[m].before = Snapshot(m)

\* memory_state() lists relations of its memory only.
LEMMA SnapshotTouches ==
  ASSUME NEW m, NEW r \in Snapshot(m).relations
  PROVE  m \in {r.from, r.to}
  BY DEF Snapshot, Touching

\* No transaction of any kind takes a baseline from anywhere else.
LEMMA StepKeepsBaselines ==
  ASSUME IInv, [Next]_vars, NEW m \in Memories
  PROVE  BaselineKept(m)
  <1> USE DEF IInv, TypeOK, BaselineKept
  <1>0. \A k \in calls : k.memory \in Memories
    BY DEF Calls
  <1>1. ASSUME NEW S \in SUBSET Memories, CloseChange(S) PROVE BaselineKept(m)
    BY <1>1 DEF CloseChange, NoChange
  <1>2. ASSUME NEW n \in Memories, RecordEdit(n, Snapshot(n)) PROVE BaselineKept(m)
    BY <1>2 DEF RecordEdit
  <1>3. CASE change' = change
    BY <1>3
  <1>4. CASE ClientStep
    <2>1. ASSUME NEW n \in Memories, NEW t \in Texts, View(n) \/ BeginCreate(n, t)
          PROVE  BaselineKept(m)
      BY <1>3, <2>1 DEF View, BeginCreate
    <2>2. ASSUME NEW k \in calls, Forget(k) \/ ClassifyDelete(k) PROVE BaselineKept(m)
      BY <1>3, <2>2 DEF Forget, ClassifyDelete
    <2>3. ASSUME NEW k \in calls, FinishCreate(k) PROVE BaselineKept(m)
      BY <1>0, <2>3 DEF FinishCreate
    <2>4. ASSUME NEW k \in calls, NEW t \in Texts,
                 ReplaceFields(k, t) \/ EditKeywords(k, t) \/ HttpUpdate(k, t)
          PROVE  BaselineKept(m)
      BY <1>0, <1>2, <2>4 DEF ReplaceFields, EditKeywords, HttpUpdate
    <2>5. ASSUME NEW k \in calls, DeletePendingCreate(k) \/ DeleteActive(k)
          PROVE  BaselineKept(m)
      BY <1>0, <2>5 DEF DeletePendingCreate, DeleteActive
    <2>6. ASSUME NEW k \in calls, DeleteOpenChange(k) PROVE BaselineKept(m)
      BY <1>0, <2>6 DEF DeleteOpenChange
    <2>7. ASSUME NEW n \in Memories, View(n) PROVE BaselineKept(m)
      BY <1>3, <2>7 DEF View
    <2> QED
      BY <1>4, <2>1, <2>2, <2>3, <2>4, <2>5, <2>6, <2>7 DEF ClientStep
  <1>5. CASE ReviewStep
    <2>1. ASSUME NEW n \in Memories,
                 ApproveCreate(n) \/ ApproveChange(n) \/ RejectCreate(n) \/ RejectChange(n)
          PROVE  BaselineKept(m)
      BY <1>1, <2>1 DEF ApproveCreate, ApproveChange, RejectCreate, RejectChange, HardDelete
    <2> QED
      BY <1>5, <2>1 DEF ReviewStep
  <1>6. CASE TrashStep
    <2>1. ASSUME NEW n \in Memories, RestoreActive(n) \/ DeleteTrash(n) PROVE BaselineKept(m)
      BY <1>1, <2>1 DEF RestoreActive, DeleteTrash, HardDelete
    <2>2. ASSUME NEW n \in Memories, RestorePending(n) PROVE BaselineKept(m)
      BY <2>2 DEF RestorePending
    <2>3. ASSUME NEW S \in SUBSET Memories, DeleteExpiredTrash(S) PROVE BaselineKept(m)
      BY <1>1, <2>3 DEF DeleteExpiredTrash, HardDelete
    <2> QED
      BY <1>6, <2>1, <2>2, <2>3 DEF TrashStep
  <1>7. CASE RelationStep
    <2>0. \A r \in relations \cup Relations : r.from \in Memories
      BY DEF Relations
    <2>1. ASSUME NEW r \in Relations, AddRelation(r) PROVE BaselineKept(m)
      BY <1>2, <2>0, <2>1 DEF AddRelation, InsertRelation, CommitRelations
    <2>2. ASSUME NEW r \in relations, DeleteRelation(r) PROVE BaselineKept(m)
      BY <1>2, <2>0, <2>2 DEF DeleteRelation, RemoveRelation, CommitRelations
    <2>3. ASSUME NEW r \in relations, NEW type \in RelationTypes, UpdateRelation(r, type)
          PROVE  BaselineKept(m)
      BY <1>2, <2>0, <2>3 DEF UpdateRelation, ReplaceRelation, CommitRelations
    <2> QED
      BY <1>7, <2>1, <2>2, <2>3 DEF RelationStep
  <1> QED
    BY <1>3, <1>4, <1>5, <1>6, <1>7 DEF Next, RebuildGraph, vars

\* Baselines keep to the relations of their memory.
LEMMA BaselinesTouchNext == IInv /\ BaselinesTouch /\ [Next]_vars => BaselinesTouch'
  <1> SUFFICES ASSUME IInv, BaselinesTouch, [Next]_vars,
                      NEW m \in Memories, change'[m].before # NoState,
                      NEW r \in change'[m].before.relations
               PROVE  m \in {r.from, r.to}
    BY DEF BaselinesTouch
  <1> QED
    BY StepKeepsBaselines, SnapshotTouches DEF BaselineKept, BaselinesTouch

\* Together with the inductive invariant this holds in every reachable state.
THEOREM BaselinesInvariance == Spec => [](IInv /\ BaselinesTouch)
  <1>1. Init => BaselinesTouch
    BY DEF Init, NoChange, BaselinesTouch
  <1> QED
    BY <1>1, BaselinesTouchNext, Invariance, PTL DEF Spec

-----------------------------------------------------------------------------
(* What the graph shows changes in dirty transactions only                 *)

\* The graph shows active memories and the relations between them: a step that
\* keeps the active memories, their texts and those relations keeps the graph.
LEMMA GraphSame ==
  ASSUME \A m \in Memories : status'[m] = "active" <=> status[m] = "active",
         \A m \in Memories : status[m] = "active" => text'[m] = text[m],
         \A r : (r.from \in Memories /\ r.to \in Memories
                   /\ status[r.from] = "active" /\ status[r.to] = "active")
                => (r \in relations' <=> r \in relations)
  PROVE  GraphView' = GraphView
  <1> DEFINE nodes == {m \in Memories : status[m] = "active"}
             labels == {<<m, text[m].category, text[m].title, text[m].body>> : m \in nodes}
             edges == {r \in relations : {r.from, r.to} \subseteq nodes}
  <1>1. nodes' = nodes
    OBVIOUS
  <1>2. labels' = labels
    <2>1. \A m \in nodes : text'[m] = text[m]
      OBVIOUS
    <2> HIDE DEF nodes
    <2> QED
      BY <1>1, <2>1
  <1>3. edges' = edges
    <2>1. \A r : {r.from, r.to} \subseteq nodes => (r \in relations' <=> r \in relations)
      OBVIOUS
    <2> HIDE DEF nodes
    <2> QED
      BY <1>1, <2>1
  <1> HIDE DEF nodes, labels, edges
  <1>4. GraphView = [nodes |-> labels, edges |-> edges]
    BY DEF GraphView, nodes, labels, edges
  <1>5. GraphView' = [nodes |-> labels', edges |-> edges']
    BY DEF GraphView, nodes, labels, edges
  <1> QED
    BY <1>2, <1>3, <1>4, <1>5

\* A step that writes neither units nor relations does not show in the graph.
LEMMA UntouchedGraph ==
  ASSUME UNCHANGED <<status, text, relations>>
  PROVE  GraphView' = GraphView
  BY GraphSame

\* A step that is about one memory which is not active before or after it,
\* and which keeps the relations of the others, does not show in the graph.
LEMMA InactiveGraph ==
  ASSUME TypeOK, NEW m \in Memories, status[m] # "active", status'[m] # "active",
         \A n \in Memories \ {m} : status'[n] = status[n] /\ text'[n] = text[n],
         \A r : m \notin {r.from, r.to} => (r \in relations' <=> r \in relations)
  PROVE  GraphView' = GraphView
  BY GraphSame

\* Every transaction that shows in the graph marks it dirty.
THEOREM StepMarksDirty ==
  IInv /\ BaselinesTouch /\ [Next]_vars => (GraphView' # GraphView => dirty') \/ UNCHANGED vars
  <1> SUFFICES ASSUME IInv, BaselinesTouch, Next
               PROVE  dirty' \/ GraphView' = GraphView
    OBVIOUS
  <1> USE DEF IInv, TypeOK
  <1>0. \A k \in calls : k.memory \in Memories
    BY DEF Calls
  <1>1. ASSUME UNCHANGED <<status, text, relations>> PROVE GraphView' = GraphView
    BY <1>1, UntouchedGraph
  <1>2. ASSUME NEW m \in Memories, NEW t \in Texts, WriteText(m, t), status[m] # "active"
        PROVE  GraphView' = GraphView
    BY <1>2, InactiveGraph DEF WriteText
  <1>3. ASSUME NEW m \in Memories, MoveToTrash(m), status[m] # "active"
        PROVE  GraphView' = GraphView
    BY <1>3, InactiveGraph DEF MoveToTrash
  <1>4. CASE ClientStep
    <2>1. ASSUME NEW m \in Memories, View(m) PROVE GraphView' = GraphView
      BY <1>1, <2>1 DEF View, units
    <2>2. ASSUME NEW m \in Memories, NEW t \in Texts, BeginCreate(m, t)
          PROVE  GraphView' = GraphView
      BY <1>1, <2>2 DEF BeginCreate, units
    <2>3. ASSUME NEW k \in calls, Forget(k) \/ ClassifyDelete(k) PROVE GraphView' = GraphView
      BY <1>1, <2>3 DEF Forget, ClassifyDelete, units
    <2>4. ASSUME NEW k \in calls, FinishCreate(k) PROVE GraphView' = GraphView
      <3>1. status[k.memory] = "absent"
        BY <2>4 DEF CallsKnowTheirMemory, FinishCreate
      <3> QED
        BY <1>0, <2>4, <3>1, InactiveGraph DEF FinishCreate
    <2>5. ASSUME NEW k \in calls, NEW t \in Texts,
                 ReplaceFields(k, t) \/ EditKeywords(k, t) \/ HttpUpdate(k, t)
          PROVE  dirty' \/ GraphView' = GraphView
      BY <1>0, <1>2, <2>5 DEF ReplaceFields, EditKeywords, HttpUpdate
    <2>6. ASSUME NEW k \in calls, DeletePendingCreate(k) \/ DeleteActive(k)
          PROVE  dirty' \/ GraphView' = GraphView
      BY <1>0, <1>3, <2>6 DEF DeletePendingCreate, DeleteActive
    <2>7. ASSUME NEW k \in calls, DeleteOpenChange(k) PROVE dirty' \/ GraphView' = GraphView
      BY <1>0, <1>1, <1>3, <2>7 DEF DeleteOpenChange, units
    <2> QED
      BY <1>4, <2>1, <2>2, <2>3, <2>4, <2>5, <2>6, <2>7 DEF ClientStep
  <1>5. CASE ReviewStep
    <2>1. ASSUME NEW m \in Memories, ApproveCreate(m) \/ RejectCreate(m) \/ RejectChange(m)
          PROVE  dirty'
      BY <2>1 DEF ApproveCreate, RejectCreate, RejectChange
    <2>2. ASSUME NEW m \in Memories, ApproveChange(m) PROVE dirty' \/ GraphView' = GraphView
      BY <1>1, <2>2 DEF ApproveChange, units
    <2> QED
      BY <1>5, <2>1, <2>2 DEF ReviewStep
  <1>6. CASE TrashStep
    <2>1. ASSUME NEW m \in Memories, RestoreActive(m) \/ DeleteTrash(m) PROVE dirty'
      BY <2>1 DEF RestoreActive, DeleteTrash
    <2>2. ASSUME NEW S \in SUBSET Memories, DeleteExpiredTrash(S) PROVE dirty'
      BY <2>2 DEF DeleteExpiredTrash
    <2>3. ASSUME NEW m \in Memories, RestorePending(m) PROVE GraphView' = GraphView
      <3> DEFINE before == change[m].before
      <3>1. status[m] = "trashed" /\ before # NoState /\ before.status = "pending"
        BY <2>3 DEF RestorePending, Trash, ReviewMatchesStatus
      <3>2. \A r \in before.relations : m \in {r.from, r.to}
        BY <3>1 DEF BaselinesTouch
      <3>3. RestoreSnapshot(m, before)
        BY <2>3 DEF RestorePending
      <3> HIDE DEF before
      <3>4. \A r : m \notin {r.from, r.to} => (r \in relations' <=> r \in relations)
        BY <3>2, <3>3 DEF RestoreSnapshot, Touching
      <3> QED
        BY <3>1, <3>3, <3>4, InactiveGraph DEF RestoreSnapshot
    <2> QED
      BY <1>6, <2>1, <2>2, <2>3 DEF TrashStep
  <1>7. CASE RelationStep
    BY <1>7 DEF RelationStep, AddRelation, InsertRelation, DeleteRelation, UpdateRelation,
                RemoveRelation, ReplaceRelation, CommitRelations
  <1>8. CASE RebuildGraph
    BY <1>1, <1>8 DEF RebuildGraph, units
  <1> QED
    BY <1>4, <1>5, <1>6, <1>7, <1>8 DEF Next

\* memory_graph_meta.dirty: no transaction that changes what the AGE graph
\* shows leaves the graph marked clean, whatever the memories and relations.
THEOREM GraphMarkedDirty == Spec => VisibleChangeMarksDirty
  <1>1. IInv /\ BaselinesTouch /\ [Next]_vars => [GraphView' # GraphView => dirty']_vars
    BY StepMarksDirty
  <1> QED
    BY <1>1, BaselinesInvariance, PTL DEF Spec, VisibleChangeMarksDirty

-----------------------------------------------------------------------------
(* What makes a memory active                                              *)

\* The step makes m active only by an approval or from a baseline.
ReviewedActivation(m) ==
  status[m] # "active" /\ status'[m] = "active" =>
    \/ status[m] = "pending" /\ change[m].action = "create"
    \/ change[m].before.status = "active" /\ text'[m] = change[m].before.text

\* Putting a baseline back makes no memory active but one whose baseline was.
LEMMA RestoreActivates ==
  ASSUME IInv, NEW m \in Memories, NEW n \in Memories, NEW before, before = change[n].before,
         RestoreSnapshot(n, before)
  PROVE  ReviewedActivation(m)
  BY DEF RestoreSnapshot, ReviewedActivation, IInv, TypeOK

\* No transaction of any kind makes a memory active that no reviewer saw.
LEMMA StepActivates ==
  ASSUME IInv, Next, NEW m \in Memories
  PROVE  ReviewedActivation(m)
  <1> USE DEF IInv, TypeOK
  <1>0. \A k \in calls : k.memory \in Memories
    BY DEF Calls
  <1>1. ASSUME status' = status PROVE ReviewedActivation(m)
    BY <1>1 DEF ReviewedActivation
  <1>2. ASSUME NEW S \in SUBSET Memories, HardDelete(S) PROVE ReviewedActivation(m)
    BY <1>2 DEF HardDelete, ReviewedActivation
  <1>3. CASE ClientStep
    <2>1. ASSUME NEW n \in Memories, View(n) PROVE ReviewedActivation(m)
      BY <1>1, <2>1 DEF View, units
    <2>2. ASSUME NEW n \in Memories, NEW t \in Texts, BeginCreate(n, t)
          PROVE  ReviewedActivation(m)
      BY <1>1, <2>2 DEF BeginCreate, units
    <2>3. ASSUME NEW k \in calls, Forget(k) \/ ClassifyDelete(k) PROVE ReviewedActivation(m)
      BY <1>1, <2>3 DEF Forget, ClassifyDelete, units
    <2>4. ASSUME NEW k \in calls, FinishCreate(k) PROVE ReviewedActivation(m)
      BY <1>0, <2>4 DEF FinishCreate, ReviewedActivation
    <2>5. ASSUME NEW k \in calls, NEW t \in Texts,
                 ReplaceFields(k, t) \/ EditKeywords(k, t) \/ HttpUpdate(k, t)
          PROVE  ReviewedActivation(m)
      BY <1>1, <2>5 DEF ReplaceFields, EditKeywords, HttpUpdate, WriteText
    <2>6. ASSUME NEW k \in calls,
                 DeletePendingCreate(k) \/ DeleteActive(k) \/ DeleteOpenChange(k)
          PROVE  ReviewedActivation(m)
      BY <1>0, <2>6
      DEF DeletePendingCreate, DeleteActive, DeleteOpenChange, MoveToTrash, units, ReviewedActivation
    <2> QED
      BY <1>3, <2>1, <2>2, <2>3, <2>4, <2>5, <2>6 DEF ClientStep
  <1>4. CASE ReviewStep
    <2>1. ASSUME NEW n \in Memories, ApproveCreate(n) PROVE ReviewedActivation(m)
      BY <2>1 DEF ApproveCreate, ReviewedActivation
    <2>2. ASSUME NEW n \in Memories, ApproveChange(n) PROVE ReviewedActivation(m)
      BY <1>1, <1>2, <2>2 DEF ApproveChange, units
    <2>3. ASSUME NEW n \in Memories, RejectCreate(n) PROVE ReviewedActivation(m)
      BY <1>2, <2>3 DEF RejectCreate
    <2>4. ASSUME NEW n \in Memories, RejectChange(n) PROVE ReviewedActivation(m)
      BY <2>4, RestoreActivates DEF RejectChange
    <2> QED
      BY <1>4, <2>1, <2>2, <2>3, <2>4 DEF ReviewStep
  <1>5. CASE TrashStep
    <2>1. ASSUME NEW n \in Memories, RestoreActive(n) \/ RestorePending(n)
          PROVE  ReviewedActivation(m)
      BY <2>1, RestoreActivates DEF RestoreActive, RestorePending
    <2>2. ASSUME NEW n \in Memories, DeleteTrash(n) PROVE ReviewedActivation(m)
      BY <1>2, <2>2 DEF DeleteTrash
    <2>3. ASSUME NEW S \in SUBSET Memories, DeleteExpiredTrash(S) PROVE ReviewedActivation(m)
      BY <1>2, <2>3 DEF DeleteExpiredTrash
    <2> QED
      BY <1>5, <2>1, <2>2, <2>3 DEF TrashStep
  <1>6. CASE RelationStep
    BY <1>1, <1>6 DEF RelationStep, AddRelation, InsertRelation, DeleteRelation,
                      UpdateRelation, RemoveRelation, ReplaceRelation, CommitRelations
  <1>7. CASE RebuildGraph
    BY <1>1, <1>7 DEF RebuildGraph, units
  <1> QED
    BY <1>3, <1>4, <1>5, <1>6, <1>7 DEF Next

\* approve_change, reject_change and restore_trash are the only ways to become
\* active, and each leads to what a reviewer accepts now or accepted before,
\* whatever sequence of edits, deletions and restores came first.
THEOREM ReviewGuardsActivation == Spec => ActivationIsReviewed
  <1> DEFINE A == \A m \in Memories :
       status[m] # "active" /\ status'[m] = "active" =>
         \/ status[m] = "pending" /\ change[m].action = "create"
         \/ change[m].before.status = "active" /\ text'[m] = change[m].before.text
  <1>1. ASSUME IInv, [Next]_vars PROVE [A]_vars
    BY <1>1, StepActivates DEF ReviewedActivation
  <1>2. ActivationIsReviewed <=> [][A]_vars
    BY DEF ActivationIsReviewed
  <1> HIDE DEF A
  <1> QED
    BY <1>1, <1>2, Invariance, PTL DEF Spec

-----------------------------------------------------------------------------
(* The refinement: a step maps to a proposal, an acceptance, a rejection   *)

\* The working values and the open items the mapping of MemoryReview shows.
WorkingText(m) == IF Live(m) THEN text[m] ELSE NoText
Open == {m \in Memories : change[m].action # "none"}

\* A new database maps to an empty ledger.
LEMMA MappedInit == Init => Ledger!Init
  BY DEF Init, Ledger!Init, ConfirmedText, NoChange, Live

\* A step that moves at most one working text, leaves that memory open and
\* every confirmed text alone, is a proposal.
LEMMA ProposeSimulation ==
  ASSUME NEW m \in Memories, NEW t \in Texts \cup {NoText}, WorkingText(m)' = t,
         \A n \in Memories : ConfirmedText(n)' = ConfirmedText(n),
         \A n \in Memories \ {m} : WorkingText(n)' = WorkingText(n),
         Open' = Open \cup {m}
  PROVE  Ledger!Next
  <1>1. Ledger!Propose(m, t)
    BY DEF Ledger!Propose, WorkingText, Open
  <1> QED
    BY <1>1 DEF Ledger!Next

\* A step that closes changes and leaves every working text alone is an
\* acceptance, if the closed memories have their working text confirmed.
LEMMA AcceptSimulation ==
  ASSUME NEW S \in SUBSET Open,
         \A n \in S : ConfirmedText(n)' = WorkingText(n),
         \A n \in Memories \ S : ConfirmedText(n)' = ConfirmedText(n),
         \A n \in Memories : WorkingText(n)' = WorkingText(n),
         Open' = Open \ S
  PROVE  Ledger!Next
  <1>1. Ledger!Accept(S)
    BY DEF Ledger!Accept, WorkingText, Open
  <1> QED
    BY <1>1 DEF Ledger!Next, Open

\* A step that closes one change and leads back to the confirmed text is a
\* rejection.
LEMMA RejectSimulation ==
  ASSUME NEW m \in Open,
         WorkingText(m)' = ConfirmedText(m),
         \A n \in Memories : ConfirmedText(n)' = ConfirmedText(n),
         \A n \in Memories \ {m} : WorkingText(n)' = WorkingText(n),
         Open' = Open \ {m}
  PROVE  Ledger!Next
  <1>1. Ledger!Reject(m)
    BY DEF Ledger!Reject, WorkingText, Open
  <1> QED
    BY <1>1 DEF Ledger!Next, Open

-----------------------------------------------------------------------------
(* Each kind of write simulates a step of the ledger                       *)

\* A step that leaves units and changes alone is a stutter of the ledger.
LEMMA StutterSimulation ==
  ASSUME UNCHANGED <<status, text, change>>
  PROVE  UNCHANGED Ledger!vars
  BY DEF Ledger!vars, ConfirmedText, Live

\* An edit of a text is a proposal: the baseline, and so the confirmed text, stays.
LEMMA RewriteSimulates ==
  ASSUME IInv, NEW m \in Memories, NEW t \in Texts,
         \/ status[m] = "pending" /\ change[m].action = "create"
         \/ status[m] = "active" /\ change[m].action \in {"none", "update"},
         WriteText(m, t), RecordEdit(m, Snapshot(m))
  PROVE  Ledger!Next
  <1> USE ConstantsAssumption DEF IInv, TypeOK
  <1>1. Snapshot(m) # NoState /\ Snapshot(m).status = status[m] /\ Snapshot(m).text = text[m]
    BY SnapshotTyped DEF Live, Snapshot
  <1>2. \A n \in Memories : ConfirmedText(n)' = ConfirmedText(n)
    BY <1>1 DEF WriteText, RecordEdit, ConfirmedText, ReviewMatchesStatus
  <1>3. /\ WorkingText(m)' = t
        /\ \A n \in Memories \ {m} : WorkingText(n)' = WorkingText(n)
    BY DEF WriteText, WorkingText, Live
  <1>4. Open' = Open \cup {m}
    BY DEF RecordEdit, Open
  <1> QED
    BY <1>2, <1>3, <1>4, ProposeSimulation

\* A deletion proposes that the memory be not there, and keeps the confirmed text.
LEMMA MoveToTrashSimulates ==
  ASSUME IInv, NEW m \in Memories, NEW before \in Snapshots,
         \/ /\ status[m] = "pending" \/ (status[m] = "active" /\ change[m].action = "none")
            /\ before = Snapshot(m)
         \/ change[m].action \in {"update", "delete"} /\ before = change[m].before,
         MoveToTrash(m),
         change' = [change EXCEPT ![m] =
           [action |-> "delete", before |-> before, after |-> Snapshot(m)']]
  PROVE  Ledger!Next
  <1> USE ConstantsAssumption DEF IInv, TypeOK
  <1>1. before # NoState
    OBVIOUS
  <1>2. before = Snapshot(m) => before.status = status[m] /\ before.text = text[m]
    BY DEF Snapshot
  <1>3. \A n \in Memories : ConfirmedText(n)' = ConfirmedText(n)
    BY <1>1, <1>2 DEF MoveToTrash, ConfirmedText, ReviewMatchesStatus
  <1>4. /\ WorkingText(m)' = NoText
        /\ \A n \in Memories \ {m} : WorkingText(n)' = WorkingText(n)
    BY DEF MoveToTrash, WorkingText, Live
  <1>5. Open' = Open \cup {m}
    BY DEF Open
  <1> QED
    BY <1>3, <1>4, <1>5, ProposeSimulation

\* A creation is a proposal for a memory with nothing confirmed.
LEMMA FinishCreateSimulates ==
  ASSUME IInv, NEW k \in calls, FinishCreate(k)
  PROVE  Ledger!Next
  <1> USE ConstantsAssumption DEF IInv, TypeOK
  <1> DEFINE m == k.memory
  <1>1. m \in Memories /\ k.text \in Texts
    BY DEF Calls
  <1>2. status[m] = "absent" /\ text[m] = NoText /\ change[m] = NoChange
    BY <1>1 DEF CallsKnowTheirMemory, TextOfRows, ReviewMatchesStatus, FinishCreate, Exists
  <1>3. \A n \in Memories : ConfirmedText(n)' = ConfirmedText(n)
    BY <1>1, <1>2 DEF FinishCreate, ConfirmedText, NoChange
  <1>4. /\ WorkingText(m)' = k.text
        /\ \A n \in Memories \ {m} : WorkingText(n)' = WorkingText(n)
    BY <1>1 DEF FinishCreate, WorkingText, Live
  <1>5. Open' = Open \cup {m}
    BY <1>1 DEF FinishCreate, Open
  <1> QED
    BY <1>1, <1>3, <1>4, <1>5, ProposeSimulation

\* A relation operation proposes the text the FROM memory already has.
LEMMA CommitRelationsSimulates ==
  ASSUME IInv, NEW r \in Relations, NEW edges, Accepted(r.from),
         CommitRelations(r, edges, Snapshot(r.from))
  PROVE  Ledger!Next
  <1> USE ConstantsAssumption DEF IInv, TypeOK
  <1> DEFINE m == r.from
  <1>1. m \in Memories
    BY DEF Relations
  <1>2. Snapshot(m).status = status[m] /\ Snapshot(m).text = text[m]
    BY DEF Snapshot
  <1>3. status[m] = "active" => Snapshot(m) # NoState
    BY <1>1, SnapshotTyped DEF Live
  <1>4. change[m].action = "none" => status[m] = "active"
    BY <1>1 DEF Accepted, ReviewMatchesStatus
  <1>5. \A n \in Memories : ConfirmedText(n)' = ConfirmedText(n)
    BY <1>1, <1>2, <1>3, <1>4 DEF CommitRelations, RecordEdit, ConfirmedText
  <1>6. \A n \in Memories : WorkingText(n)' = WorkingText(n)
    BY DEF CommitRelations, WorkingText, Live
  <1>7. WorkingText(m) \in Texts \cup {NoText}
    BY <1>1 DEF WorkingText
  <1>8. Open' = Open \cup {m}
    BY <1>1 DEF CommitRelations, RecordEdit, Open
  <1> QED
    BY <1>1, <1>5, <1>6, <1>7, <1>8, ProposeSimulation

\* Emptying the trash accepts the deletions in it.
LEMMA HardDeleteSimulates ==
  ASSUME IInv, NEW S \in SUBSET Memories, HardDelete(S),
         \A m \in S : status[m] = "trashed"
  PROVE  Ledger!Next
  <1> USE ConstantsAssumption DEF IInv, TypeOK
  <1>1. S \in SUBSET Open
    BY DEF ReviewMatchesStatus, Open
  <1>2. \A n \in S : ConfirmedText(n)' = WorkingText(n)
    BY DEF HardDelete, CloseChange, NoChange, ConfirmedText, WorkingText, Live
  <1>3. \A n \in Memories \ S : ConfirmedText(n)' = ConfirmedText(n)
    BY DEF HardDelete, CloseChange, ConfirmedText
  <1>4. \A n \in Memories : WorkingText(n)' = WorkingText(n)
    BY DEF HardDelete, WorkingText, Live
  <1>5. Open' = Open \ S
    BY DEF HardDelete, CloseChange, NoChange, Open
  <1> QED
    BY <1>1, <1>2, <1>3, <1>4, <1>5, AcceptSimulation

\* The rejection of a creation leads back to nothing.
LEMMA RejectCreateSimulates ==
  ASSUME IInv, NEW m \in Memories, RejectCreate(m)
  PROVE  Ledger!Next
  <1> USE ConstantsAssumption DEF IInv, TypeOK
  <1>1. m \in Open /\ change[m].before = NoState
    BY DEF RejectCreate, Reviewable, Exists, ReviewMatchesStatus, Open, NoChange
  <1>2. \A n \in Memories : ConfirmedText(n)' = ConfirmedText(n)
    BY <1>1 DEF RejectCreate, HardDelete, CloseChange, NoChange, ConfirmedText, Open
  <1>3. /\ WorkingText(m)' = ConfirmedText(m)
        /\ \A n \in Memories \ {m} : WorkingText(n)' = WorkingText(n)
    BY <1>1 DEF RejectCreate, HardDelete, WorkingText, Live, ConfirmedText, Open
  <1>4. Open' = Open \ {m}
    BY DEF RejectCreate, HardDelete, CloseChange, NoChange, Open
  <1> QED
    BY <1>1, <1>2, <1>3, <1>4, RejectSimulation

\* Rejections and returns from the trash of what was active.
LEMMA RestoreSimulates ==
  ASSUME IInv, NEW m \in Memories, NEW before, before = change[m].before, before # NoState,
         change[m].action # "none", before.status = "active",
         RestoreSnapshot(m, before), CloseChange({m})
  PROVE  Ledger!Next
  <1> USE ConstantsAssumption DEF IInv, TypeOK
  <1>1. ConfirmedText(m) = before.text
    BY DEF ConfirmedText
  <1>2. \A n \in Memories : ConfirmedText(n)' = ConfirmedText(n)
    BY <1>1 DEF RestoreSnapshot, CloseChange, NoChange, ConfirmedText
  <1>3. /\ WorkingText(m)' = ConfirmedText(m)
        /\ \A n \in Memories \ {m} : WorkingText(n)' = WorkingText(n)
    BY <1>1 DEF RestoreSnapshot, WorkingText, Live
  <1>4. m \in Open /\ Open' = Open \ {m}
    BY DEF CloseChange, NoChange, Open
  <1> QED
    BY <1>2, <1>3, <1>4, RejectSimulation

\* A deleted creation that returns from the trash is proposed again.
LEMMA RestorePendingSimulates ==
  ASSUME IInv, NEW m \in Memories, RestorePending(m)
  PROVE  Ledger!Next
  <1> USE ConstantsAssumption DEF IInv, TypeOK
  <1> DEFINE before == change[m].before
  <1>1. before \in Snapshots /\ before.status = "pending" /\ change[m].action = "delete"
    BY DEF RestorePending, Trash, ReviewMatchesStatus, Changes
  <1>2. before.text \in Texts
    BY <1>1 DEF Snapshots
  <1>3. \A n \in Memories : ConfirmedText(n)' = ConfirmedText(n)
    BY <1>1 DEF RestorePending, RestoreSnapshot, ConfirmedText
  <1>4. /\ WorkingText(m)' = before.text
        /\ \A n \in Memories \ {m} : WorkingText(n)' = WorkingText(n)
    BY <1>1 DEF RestorePending, RestoreSnapshot, WorkingText, Live
  <1>5. Open' = Open \cup {m}
    BY DEF RestorePending, Open
  <1> QED
    BY <1>2, <1>3, <1>4, <1>5, ProposeSimulation

\* An approval confirms the working text.
LEMMA ApproveSimulates ==
  ASSUME IInv, NEW m \in Memories, change[m].action # "none", Live(m), CloseChange({m}), text' = text,
         \/ status' = status
         \/ status' = [status EXCEPT ![m] = "active"]
  PROVE  Ledger!Next
  <1> USE DEF IInv, TypeOK
  <1>1. ConfirmedText(m)' = WorkingText(m)
    BY DEF CloseChange, NoChange, ConfirmedText, WorkingText
  <1>2. \A n \in Memories \ {m} : ConfirmedText(n)' = ConfirmedText(n)
    BY DEF CloseChange, ConfirmedText
  <1>3. \A n \in Memories : WorkingText(n)' = WorkingText(n)
    BY DEF WorkingText, Live
  <1>4. {m} \in SUBSET Open /\ Open' = Open \ {m}
    BY DEF CloseChange, NoChange, Open
  <1> QED
    BY <1>1, <1>2, <1>3, <1>4, AcceptSimulation

-----------------------------------------------------------------------------
(* Every step simulates a step of the ledger or a stutter                  *)

\* The tools and HTTP updates only propose.
LEMMA ClientStepSimulates ==
  ASSUME IInv, ClientStep
  PROVE  Ledger!Next \/ UNCHANGED Ledger!vars
  <1> USE ConstantsAssumption
  <1>0. /\ \A k \in calls : k.memory \in Memories
        /\ \A m \in Memories : change[m].action \in {"update", "delete"} => change[m].before \in Snapshots
    <2>1. \A m \in Memories : change[m].action \in {"update", "delete"} => change[m].before # NoState
      BY DEF IInv, ReviewMatchesStatus, TypeOK, Statuses, Exists, NoChange
    <2> QED
      BY <2>1 DEF IInv, TypeOK, Calls, Changes
  <1>1. ASSUME NEW m \in Memories, View(m) PROVE UNCHANGED Ledger!vars
    BY <1>1, StutterSimulation DEF View, units
  <1>2. ASSUME NEW m \in Memories, NEW t \in Texts, BeginCreate(m, t) PROVE UNCHANGED Ledger!vars
    BY <1>2, StutterSimulation DEF BeginCreate, units
  <1>3. ASSUME NEW k \in calls, Forget(k) \/ ClassifyDelete(k) PROVE UNCHANGED Ledger!vars
    BY <1>3, StutterSimulation DEF Forget, ClassifyDelete, units
  <1>4. ASSUME NEW k \in calls, FinishCreate(k) PROVE Ledger!Next
    BY <1>4, FinishCreateSimulates
  <1>5. ASSUME NEW k \in calls, NEW t \in Texts, ReplaceFields(k, t) \/ EditKeywords(k, t)
        PROVE  Ledger!Next
    BY <1>0, <1>5, RewriteSimulates DEF ReplaceFields, EditKeywords, EditLocked
  <1>6. ASSUME NEW k \in calls, NEW t \in Texts, HttpUpdate(k, t) PROVE Ledger!Next
    <2>1. change[k.memory].action \in {"none", "update"}
      BY <1>0, <1>6 DEF HttpUpdate, IInv, ReviewMatchesStatus, NoChange
    <2> QED
      BY <1>0, <1>6, <2>1, RewriteSimulates DEF HttpUpdate
  <1>7. ASSUME NEW k \in calls, DeletePendingCreate(k) \/ DeleteActive(k) PROVE Ledger!Next
    <2>1. Snapshot(k.memory) \in Snapshots
      BY <1>0, <1>7, SnapshotTyped DEF DeletePendingCreate, DeleteActive, IInv, Live
    <2> QED
      BY <1>0, <1>7, <2>1, MoveToTrashSimulates DEF DeletePendingCreate, DeleteActive
  <1>8. ASSUME NEW k \in calls, DeleteOpenChange(k) PROVE Ledger!Next \/ UNCHANGED Ledger!vars
    <2>1. CASE status[k.memory] = "trashed" /\ change[k.memory].action = "delete"
      BY <1>8, <2>1, StutterSimulation DEF DeleteOpenChange, units
    <2>2. CASE ~(status[k.memory] = "trashed" /\ change[k.memory].action = "delete")
      <3>1. change[k.memory].action \in {"update", "delete"}
        BY <1>0, <1>8, <2>2
        DEF DeleteOpenChange, IInv, TypeOK, ReviewMatchesStatus, Statuses, Exists, NoChange
      <3> QED
        BY <1>0, <1>8, <2>2, <3>1, MoveToTrashSimulates DEF DeleteOpenChange
    <2> QED
      BY <2>1, <2>2
  <1> QED
    BY <1>1, <1>2, <1>3, <1>4, <1>5, <1>6, <1>7, <1>8 DEF ClientStep

\* Decisions accept or reject.
LEMMA ReviewStepSimulates ==
  ASSUME IInv, ReviewStep
  PROVE  Ledger!Next
  <1>0. \A m \in Memories :
          Reviewable(m) /\ change[m].action # "create" =>
            /\ status[m] = "active" /\ change[m].action = "update"
            /\ change[m].before # NoState /\ change[m].before.status = "active"
    BY DEF Reviewable, IInv, TypeOK, ReviewMatchesStatus, Exists, NoChange
  <1>1. ASSUME NEW m \in Memories, ApproveCreate(m) PROVE Ledger!Next
    BY <1>1, ApproveSimulates DEF ApproveCreate, Live
  <1>2. ASSUME NEW m \in Memories, ApproveChange(m) PROVE Ledger!Next
    BY <1>0, <1>2, ApproveSimulates DEF ApproveChange, units, Live
  <1>3. ASSUME NEW m \in Memories, RejectCreate(m) PROVE Ledger!Next
    BY <1>3, RejectCreateSimulates
  <1>4. ASSUME NEW m \in Memories, RejectChange(m) PROVE Ledger!Next
    BY <1>0, <1>4, RestoreSimulates DEF RejectChange
  <1> QED
    BY <1>1, <1>2, <1>3, <1>4 DEF ReviewStep

\* The trash accepts, rejects, or proposes again.
LEMMA TrashStepSimulates ==
  ASSUME IInv, TrashStep
  PROVE  Ledger!Next
  <1>0. \A m \in Trash :
          /\ m \in Memories /\ status[m] = "trashed"
          /\ change[m].action = "delete" /\ change[m].before # NoState
    BY DEF Trash, IInv, ReviewMatchesStatus
  <1>1. ASSUME NEW m \in Memories, RestoreActive(m) PROVE Ledger!Next
    BY <1>0, <1>1, RestoreSimulates DEF RestoreActive
  <1>2. ASSUME NEW m \in Memories, RestorePending(m) PROVE Ledger!Next
    BY <1>2, RestorePendingSimulates
  <1>3. ASSUME NEW m \in Memories, DeleteTrash(m) PROVE Ledger!Next
    BY <1>0, <1>3, HardDeleteSimulates DEF DeleteTrash
  <1>4. ASSUME NEW S \in SUBSET Memories, DeleteExpiredTrash(S) PROVE Ledger!Next
    BY <1>0, <1>4, HardDeleteSimulates DEF DeleteExpiredTrash
  <1> QED
    BY <1>1, <1>2, <1>3, <1>4 DEF TrashStep

\* Relation operations only propose.
LEMMA RelationStepSimulates ==
  ASSUME IInv, RelationStep
  PROVE  Ledger!Next
  <1>0. /\ relations \subseteq Relations
        /\ \A e \in relations : Accepted(e.from)
    BY DEF IInv, TypeOK, RelationsJoinAccepted
  <1>1. ASSUME NEW r \in Relations, AddRelation(r) PROVE Ledger!Next
    <2>1. Accepted(r.from) /\ CommitRelations(r, relations \cup {r}, Snapshot(r.from))
      BY <1>1 DEF AddRelation, InsertRelation, RelationAllowed, Accepted
    <2> QED
      BY <2>1, CommitRelationsSimulates
  <1>2. ASSUME NEW r \in relations, DeleteRelation(r) PROVE Ledger!Next
    <2>1. CommitRelations(r, relations \ {r}, Snapshot(r.from))
      BY <1>2 DEF DeleteRelation, RemoveRelation
    <2> QED
      BY <1>0, <2>1, CommitRelationsSimulates
  <1>3. ASSUME NEW r \in relations, NEW type \in RelationTypes, UpdateRelation(r, type)
        PROVE  Ledger!Next
    <2>1. PICK edges : CommitRelations(r, edges, Snapshot(r.from))
      BY <1>3 DEF UpdateRelation, ReplaceRelation
    <2> QED
      BY <1>0, <2>1, CommitRelationsSimulates
  <1> QED
    BY <1>1, <1>2, <1>3 DEF RelationStep

\* Every step of the review is a step of the ledger or leaves it alone.
THEOREM StepSimulation == IInv /\ [Next]_vars => [Ledger!Next]_(Ledger!vars)
  <1> SUFFICES ASSUME IInv, [Next]_vars PROVE Ledger!Next \/ UNCHANGED Ledger!vars
    OBVIOUS
  <1>1. CASE RebuildGraph \/ UNCHANGED vars
    BY <1>1, StutterSimulation DEF RebuildGraph, vars, units
  <1> QED
    BY <1>1, ClientStepSimulates, ReviewStepSimulates, TrashStepSimulates, RelationStepSimulates
    DEF Next

\* DB_PLAN.md calls before_state the last confirmed state: for any set of
\* memories, texts and clients, the transactions implement the ledger, in
\* which nothing but a reviewer's decision moves the confirmed text.
THEOREM Refinement == Spec => ImplementsLedger
  <1>1. Init => Ledger!Init
    BY MappedInit
  <1>2. IInv /\ [Next]_vars => [Ledger!Next]_(Ledger!vars)
    BY StepSimulation
  <1> QED
    BY <1>1, <1>2, Invariance, PTL DEF Spec, ImplementsLedger, Ledger!Spec

\* The ledger leaves no undecided text behind: what nobody has to decide on is
\* what was confirmed.
THEOREM LedgerSettles == Ledger!Spec => []Ledger!Settled
  <1>1. Ledger!Init => Ledger!Settled
    BY DEF Ledger!Init, Ledger!Settled
  <1>2. Ledger!Settled /\ [Ledger!Next]_(Ledger!vars) => Ledger!Settled'
    <2> SUFFICES ASSUME Ledger!Settled, [Ledger!Next]_(Ledger!vars)
                 PROVE  Ledger!Settled'
      OBVIOUS
    <2>1. ASSUME NEW i \in Memories, NEW v \in Texts \cup {NoText}, Ledger!Propose(i, v)
          PROVE  Ledger!Settled'
      BY <2>1 DEF Ledger!Settled, Ledger!Propose
    <2>2. ASSUME NEW S \in SUBSET Memories, Ledger!Accept(S)
          PROVE  Ledger!Settled'
      BY <2>2 DEF Ledger!Settled, Ledger!Accept
    <2>3. ASSUME NEW i \in Memories, Ledger!Reject(i)
          PROVE  Ledger!Settled'
      BY <2>3, ZenonT(60) DEF Ledger!Settled, Ledger!Reject
    <2>4. CASE UNCHANGED Ledger!vars
      BY <2>4 DEF Ledger!Settled, Ledger!vars
    <2> QED
      BY <2>1, <2>2, <2>3, <2>4 DEF Ledger!Next
  <1> QED
    BY <1>1, <1>2, PTL DEF Ledger!Spec

\* So does the review, in terms of its own tables.
THEOREM ReviewSettles == Spec => []Ledger!Settled
  <1> QED
    BY Refinement, LedgerSettles, PTL DEF ImplementsLedger

-----------------------------------------------------------------------------
(* The review keeps to what MemoryRows says of the rows of memory_units:   *)
(* every transaction is a step of MemoryRows or leaves the rows alone.     *)

RowsStep == RowTable!RowsNext \/ UNCHANGED units

\* Each kind of write to a row, as a step of MemoryRows.
LEMMA UpdateIsRowsStep ==
  ASSUME TypeOK, NEW m \in Memories, Exists(m),
         NEW s \in {"pending", "active", "trashed"}, status[m] = "active" => s # "pending",
         NEW t \in Texts,
         status' = [status EXCEPT ![m] = s], text' = [text EXCEPT ![m] = t], Bump({m})
  PROVE  RowsStep
  <1>1. revision' = [revision EXCEPT ![m] = @ + 1]
    BY DEF TypeOK, Bump
  <1>2. RowTable!UpdateRow(m, s, t)
    BY <1>1 DEF RowTable!UpdateRow, RowTable!Stored, Exists
  <1> QED
    BY <1>2 DEF RowsStep, RowTable!RowsNext

LEMMA DeleteIsRowsStep ==
  ASSUME NEW S \in SUBSET Memories, \A m \in S : Exists(m), HardDelete(S)
  PROVE  RowsStep
  <1>1. RowTable!DeleteRows(S)
    BY DEF HardDelete, RowTable!DeleteRows, RowTable!Stored, Exists
  <1> QED
    BY <1>1 DEF RowsStep, RowTable!RowsNext

LEMMA RelationIsRowsStep ==
  ASSUME IInv, NEW r \in Relations, NEW edges, NEW before, CommitRelations(r, edges, before),
         Exists(r.from), Exists(r.to)
  PROVE  RowsStep
  <1>1. {r.from, r.to} \in SUBSET Memories
    BY DEF Relations
  <1>2. RowTable!TouchRows({r.from, r.to})
    BY <1>1 DEF CommitRelations, Bump, RowTable!TouchRows, RowTable!Stored, Exists
  <1> QED
    BY <1>1, <1>2 DEF RowsStep, RowTable!RowsNext

LEMMA ClientIsRowsStep ==
  ASSUME IInv, ClientStep
  PROVE  RowsStep
  <1>0. /\ TypeOK
        /\ \A k \in calls : k.memory \in Memories /\ k.text \in Texts
        /\ \A m \in Memories : Exists(m) => text[m] \in Texts
        /\ \A m \in Memories : change[m].action # "none" => Exists(m)
    BY DEF IInv, TypeOK, TextOfRows, Exists, Calls, ReviewMatchesStatus, NoChange
  <1>1. CASE UNCHANGED units
    BY <1>1 DEF RowsStep
  <1>2. ASSUME NEW m \in Memories, View(m) \/ \E t \in Texts : BeginCreate(m, t) PROVE RowsStep
    BY <1>1, <1>2 DEF View, BeginCreate
  <1>3. ASSUME NEW k \in calls, Forget(k) \/ ClassifyDelete(k) PROVE RowsStep
    BY <1>1, <1>3 DEF Forget, ClassifyDelete
  <1>4. ASSUME NEW k \in calls, FinishCreate(k) PROVE RowsStep
    <2>1. status[k.memory] = "absent"
      BY <1>4 DEF IInv, CallsKnowTheirMemory, FinishCreate
    <2>2. RowTable!InsertRow(k.memory, k.text)
      BY <1>0, <1>4, <2>1 DEF FinishCreate, RowTable!InsertRow
    <2> QED
      BY <1>0, <2>2 DEF RowsStep, RowTable!RowsNext
  <1>5. ASSUME NEW k \in calls, NEW t \in Texts,
               ReplaceFields(k, t) \/ EditKeywords(k, t) \/ HttpUpdate(k, t)
        PROVE  RowsStep
    <2>1. status[k.memory] \in {"pending", "active"} /\ WriteText(k.memory, t)
      BY <1>5 DEF ReplaceFields, EditKeywords, HttpUpdate, EditLocked
    <2>2. status' = [status EXCEPT ![k.memory] = status[k.memory]]
      BY <1>0, <2>1 DEF WriteText, TypeOK
    <2> QED
      BY <1>0, <2>1, <2>2, UpdateIsRowsStep DEF WriteText, Exists
  <1>6. ASSUME NEW k \in calls, Exists(k.memory), MoveToTrash(k.memory) PROVE RowsStep
    <2>1. text' = [text EXCEPT ![k.memory] = text[k.memory]]
      BY <1>0, <1>6 DEF MoveToTrash, TypeOK
    <2> QED
      BY <1>0, <1>6, <2>1, UpdateIsRowsStep DEF MoveToTrash
  <1>7. ASSUME NEW k \in calls, DeletePendingCreate(k) \/ DeleteActive(k) PROVE RowsStep
    BY <1>6, <1>7 DEF DeletePendingCreate, DeleteActive, Exists
  <1>8. ASSUME NEW k \in calls, DeleteOpenChange(k) PROVE RowsStep
    BY <1>0, <1>1, <1>6, <1>8 DEF DeleteOpenChange
  <1> QED
    BY <1>2, <1>3, <1>4, <1>5, <1>7, <1>8 DEF ClientStep

LEMMA RestoreIsRowsStep ==
  ASSUME IInv, NEW m \in Memories, Exists(m), change[m].before # NoState,
         status[m] = "active" => change[m].before.status = "active",
         RestoreSnapshot(m, change[m].before)
  PROVE  RowsStep
  <1>1. /\ change[m].before.status \in {"pending", "active", "trashed"}
        /\ change[m].before.text \in Texts
        /\ status[m] = "active" => change[m].before.status # "pending"
    BY DEF IInv, TypeOK, Changes, Snapshots
  <1> QED
    BY <1>1, UpdateIsRowsStep DEF IInv, RestoreSnapshot

LEMMA ReviewIsRowsStep ==
  ASSUME IInv, ReviewStep
  PROVE  RowsStep
  <1>1. ASSUME NEW m \in Memories, ApproveCreate(m) PROVE RowsStep
    <2>1. text' = [text EXCEPT ![m] = text[m]] /\ text[m] \in Texts
      BY <1>1 DEF ApproveCreate, Reviewable, IInv, TypeOK, TextOfRows
    <2> QED
      BY <1>1, <2>1, UpdateIsRowsStep DEF IInv, ApproveCreate, Reviewable
  <1>2. ASSUME NEW m \in Memories, ApproveChange(m) PROVE RowsStep
    BY <1>2, DeleteIsRowsStep DEF ApproveChange, Reviewable, RowsStep
  <1>3. ASSUME NEW m \in Memories, RejectCreate(m) PROVE RowsStep
    BY <1>3, DeleteIsRowsStep DEF RejectCreate, Reviewable
  <1>4. ASSUME NEW m \in Memories, RejectChange(m) PROVE RowsStep
    <2>1. status[m] = "active" => change[m].before.status = "active"
      BY <1>4 DEF RejectChange, Reviewable, IInv, ReviewMatchesStatus, NoChange
    <2> QED
      BY <1>4, <2>1, RestoreIsRowsStep DEF RejectChange, Reviewable
  <1> QED
    BY <1>1, <1>2, <1>3, <1>4 DEF ReviewStep

LEMMA TrashIsRowsStep ==
  ASSUME IInv, TrashStep
  PROVE  RowsStep
  <1>0. \A m \in Trash : /\ m \in Memories /\ Exists(m) /\ status[m] # "active"
                         /\ change[m].before # NoState
    BY DEF Trash, Exists, IInv, ReviewMatchesStatus
  <1>1. ASSUME NEW m \in Memories, RestoreActive(m) \/ RestorePending(m) PROVE RowsStep
    BY <1>0, <1>1, RestoreIsRowsStep DEF RestoreActive, RestorePending
  <1>2. ASSUME NEW m \in Memories, DeleteTrash(m) PROVE RowsStep
    BY <1>0, <1>2, DeleteIsRowsStep DEF DeleteTrash
  <1>3. ASSUME NEW S \in SUBSET Memories, DeleteExpiredTrash(S) PROVE RowsStep
    BY <1>0, <1>3, DeleteIsRowsStep DEF DeleteExpiredTrash
  <1> QED
    BY <1>1, <1>2, <1>3 DEF TrashStep

\* Relations join accepted memories, which exist.
LEMMA RelationStepIsRowsStep ==
  ASSUME IInv, RelationStep
  PROVE  RowsStep
  <1>0. \A r \in relations : r \in Relations /\ Exists(r.from) /\ Exists(r.to)
    BY DEF IInv, TypeOK, RelationsJoinAccepted, Accepted, Exists
  <1>1. ASSUME NEW r \in Relations, AddRelation(r) PROVE RowsStep
    BY <1>1, RelationIsRowsStep DEF AddRelation, InsertRelation
  <1>2. ASSUME NEW r \in relations, DeleteRelation(r) PROVE RowsStep
    BY <1>0, <1>2, RelationIsRowsStep DEF DeleteRelation, RemoveRelation
  <1>3. ASSUME NEW r \in relations, NEW type \in RelationTypes, UpdateRelation(r, type)
        PROVE  RowsStep
    BY <1>0, <1>3, RelationIsRowsStep DEF UpdateRelation, ReplaceRelation
  <1> QED
    BY <1>1, <1>2, <1>3 DEF RelationStep

\* Every step of the review is a step of the rows or a stutter.
LEMMA StepIsRowsStep == IInv /\ [Next]_vars => [RowTable!RowsNext]_(RowTable!rows)
  <1> SUFFICES ASSUME IInv, [Next]_vars PROVE RowsStep
    BY DEF RowsStep, units, RowTable!rows
  <1> QED
    BY ClientIsRowsStep, ReviewIsRowsStep, TrashIsRowsStep, RelationStepIsRowsStep
    DEF Next, RebuildGraph, RowsStep, units, vars

\* MemoryReview implements MemoryRows: what the embedding tasks assume of the
\* revision of a row holds whatever agents, reviewers and the sweep do.
THEOREM RowsImplemented == Spec => ImplementsRows
  <1>1. Init => RowTable!RowsInit
    BY DEF Init, RowTable!RowsInit
  <1> QED
    BY <1>1, StepIsRowsStep, Invariance, PTL DEF Spec, ImplementsRows, RowTable!RowsSpec

=============================================================================
