------------------------- MODULE RelationRaceProofs -------------------------
(***************************************************************************)
(* What MemoryReview promises holds as well if other transactions commit   *)
(* between the read of before_state and the rest of a relation operation.  *)
(*                                                                         *)
(* The inductive invariant of MemoryReviewProofs needs one companion,      *)
(* PendingKnown: what a relation transaction has read is still fit to be   *)
(* a baseline, or its memory is in the trash and stays there, because the  *)
(* row of the relation is locked.                                          *)
(***************************************************************************)
EXTENDS RelationRace, MemoryReviewProofs

\* Once accepted, a memory stays so until it is destroyed.
Kept(m) == Accepted(m) \/ status[m] = "gone"

\* This could be stored as the baseline of an active memory.
Fit(before) ==
  /\ before \in Snapshots /\ before.status = "active"
  /\ \A e \in before.relations, n \in Memories : n \in {e.from, e.to} => Kept(n)

\* What a relation transaction knows of the rows it does not hold.
PendingKnown ==
  \A p \in pending :
    /\ p.op \in {"add", "update", "delete"} /\ p.relation \in Relations
    /\ Kept(p.relation.from) /\ Kept(p.relation.to)
    /\ p.op # "add" => p.relation \in relations
    /\ \/ Fit(p.before)
       \/ p.op # "add" /\ status[p.relation.from] = "trashed"

RaceInv == IInv /\ PendingKnown

-----------------------------------------------------------------------------
(* What other transactions may do in between                               *)

\* Putting a baseline back takes no accepted memory from those who rely on it.
LEMMA RestoreKeeps ==
  ASSUME IInv, NEW m \in Memories, Kept(m), NEW n \in Memories, NEW before,
         before = change[n].before, before # NoState, RestoreSnapshot(n, before),
         \A o \in Memories \ {n} : change'[o] = change[o],
         before.status = "active" \/ status[n] = "trashed"
  PROVE  Kept(m)'
  <1>1. CASE m = n
    <2>1. before.status = "active"
      BY <1>1 DEF Kept, Accepted, IInv, ReviewMatchesStatus, Exists, NoChange
    <2> QED
      BY <1>1, <2>1 DEF Kept, Accepted, RestoreSnapshot, IInv, TypeOK
  <1>2. CASE m # n
    BY <1>2 DEF Kept, Accepted, RestoreSnapshot, IInv, TypeOK
  <1> QED
    BY <1>1, <1>2

\* A memory that a reviewer has accepted stays accepted until it is destroyed,
\* whatever clients, reviewers and the worker do.
LEMMA AcceptedLasts ==
  ASSUME IInv, NEW m \in Memories, Kept(m),
         ClientStep \/ ReviewStep \/ TrashStep \/ RebuildGraph \/ UNCHANGED vars
  PROVE  Kept(m)'
  <1> USE DEF IInv, TypeOK
  <1>0. \A k \in calls : k.memory \in Memories
    BY DEF Calls
  <1>1. ASSUME UNCHANGED <<status, change>> PROVE Kept(m)'
    BY <1>1 DEF Kept, Accepted
  <1>2. ASSUME NEW S \in SUBSET Memories, HardDelete(S) PROVE Kept(m)'
    BY <1>2 DEF HardDelete, CloseChange, Kept, Accepted
  <1>3. ASSUME NEW n \in Memories, UNCHANGED status, RecordEdit(n, Snapshot(n)) PROVE Kept(m)'
    BY <1>3 DEF RecordEdit, Kept, Accepted, ReviewMatchesStatus
  <1>4. ASSUME NEW n \in Memories, Exists(n), MoveToTrash(n), NEW before,
               before # NoState, status[n] = "active" => before.status = "active",
               status[n] = "trashed" => before = change[n].before,
               NEW after,
               change' = [change EXCEPT ![n] =
                 [action |-> "delete", before |-> before, after |-> after]]
        PROVE  Kept(m)'
    BY <1>4 DEF MoveToTrash, Kept, Accepted, ReviewMatchesStatus, Exists, NoChange
  <1>5. CASE ClientStep
    <2>1. ASSUME NEW n \in Memories, View(n) PROVE Kept(m)'
      BY <1>1, <2>1 DEF View, units
    <2>2. ASSUME NEW n \in Memories, NEW t \in Texts, BeginCreate(n, t) PROVE Kept(m)'
      BY <1>1, <2>2 DEF BeginCreate, units
    <2>3. ASSUME NEW k \in calls, Forget(k) \/ ClassifyDelete(k) PROVE Kept(m)'
      BY <1>1, <2>3 DEF Forget, ClassifyDelete, units
    <2>4. ASSUME NEW k \in calls, FinishCreate(k) PROVE Kept(m)'
      <3>1. status[k.memory] = "absent"
        BY <2>4 DEF CallsKnowTheirMemory, FinishCreate
      <3> QED
        BY <1>0, <2>4, <3>1 DEF FinishCreate, Kept, Accepted
    <2>5. ASSUME NEW k \in calls, NEW t \in Texts,
                 ReplaceFields(k, t) \/ EditKeywords(k, t) \/ HttpUpdate(k, t)
          PROVE  Kept(m)'
      BY <1>0, <1>3, <2>5 DEF ReplaceFields, EditKeywords, HttpUpdate, WriteText
    <2>6. ASSUME NEW k \in calls, DeletePendingCreate(k) \/ DeleteActive(k)
          PROVE  Kept(m)'
      <3>1. Snapshot(k.memory) # NoState
        BY <1>0, <2>6, SnapshotTyped, ConstantsAssumption
        DEF DeletePendingCreate, DeleteActive, Live
      <3> QED
        BY <1>0, <1>4, <2>6, <3>1 DEF DeletePendingCreate, DeleteActive, Snapshot, Exists
    <2>7. ASSUME NEW k \in calls, DeleteOpenChange(k) PROVE Kept(m)'
      <3>1. CASE status[k.memory] = "trashed" /\ change[k.memory].action = "delete"
        BY <1>1, <2>7, <3>1 DEF DeleteOpenChange, units
      <3>2. CASE ~(status[k.memory] = "trashed" /\ change[k.memory].action = "delete")
        <4>1. /\ status[k.memory] = "active" => change[k.memory].before.status = "active"
              /\ Exists(k.memory)
          BY <1>0, <2>7, <3>2 DEF DeleteOpenChange, ReviewMatchesStatus, NoChange, Exists
        <4> QED
          BY <1>0, <1>4, <2>7, <3>2, <4>1 DEF DeleteOpenChange
      <3> QED
        BY <3>1, <3>2
    <2> QED
      BY <1>5, <2>1, <2>2, <2>3, <2>4, <2>5, <2>6, <2>7 DEF ClientStep
  <1>6. CASE ReviewStep
    <2>1. ASSUME NEW n \in Memories, ApproveCreate(n) \/ ApproveChange(n) PROVE Kept(m)'
      <3>0. \/ status' = [status EXCEPT ![n] = "active"]
            \/ status' = status
        BY <2>1 DEF ApproveCreate, ApproveChange, units, Reviewable, ReviewMatchesStatus, Exists, NoChange
      <3>1. status[n] # "trashed" /\ CloseChange({n})
        BY <2>1 DEF ApproveCreate, ApproveChange, Reviewable, ReviewMatchesStatus, Exists, NoChange
      <3>2. status[m] = "trashed" => change'[m] = change[m]
        BY <3>1 DEF CloseChange
      <3> QED
        BY <3>0, <3>2 DEF Kept, Accepted
    <2>2. ASSUME NEW n \in Memories, RejectCreate(n) PROVE Kept(m)'
      BY <1>2, <2>2 DEF RejectCreate
    <2>3. ASSUME NEW n \in Memories, RejectChange(n) PROVE Kept(m)'
      <3>1. change[n].before.status = "active"
        BY <2>3 DEF RejectChange, Reviewable, ReviewMatchesStatus, Exists, NoChange
      <3> QED
        BY <2>3, <3>1, RestoreKeeps DEF RejectChange, CloseChange
    <2> QED
      BY <1>6, <2>1, <2>2, <2>3 DEF ReviewStep
  <1>7. CASE TrashStep
    <2>0. \A n \in Trash : status[n] = "trashed" /\ change[n].before # NoState
      BY DEF Trash, ReviewMatchesStatus
    <2>1. ASSUME NEW n \in Memories, RestoreActive(n) PROVE Kept(m)'
      BY <2>0, <2>1, RestoreKeeps DEF RestoreActive, CloseChange
    <2>2. ASSUME NEW n \in Memories, RestorePending(n) PROVE Kept(m)'
      BY <2>0, <2>2, RestoreKeeps DEF RestorePending
    <2>3. ASSUME NEW n \in Memories, DeleteTrash(n) PROVE Kept(m)'
      BY <1>2, <2>3 DEF DeleteTrash
    <2>4. ASSUME NEW S \in SUBSET Memories, DeleteExpiredTrash(S) PROVE Kept(m)'
      BY <1>2, <2>4 DEF DeleteExpiredTrash
    <2> QED
      BY <1>7, <2>1, <2>2, <2>3, <2>4 DEF TrashStep
  <1> QED
    BY <1>1, <1>5, <1>6, <1>7 DEF RebuildGraph, vars, units

\* The relation row that a transaction has locked stays, and so does a memory
\* in the trash that it is attached to: a restore would have to delete the row.
LEMMA LockedRowsStay ==
  ASSUME IInv, NEW r \in relations, NEW p \in pending, p.op # "add", p.relation = r,
         \/ ClientStep
         \/ \E m \in Memories : ApproveCreate(m) \/ ApproveChange(m)
         \/ RowStep
         \/ RebuildGraph
         \/ UNCHANGED vars
  PROVE  /\ r \in relations'
         /\ status[r.from] = "trashed" => status'[r.from] = "trashed"
  <1> USE DEF IInv, TypeOK
  <1>0. r \in Relations /\ r.from \in Memories /\ \A k \in calls : k.memory \in Memories
    BY DEF Relations, Calls
  <1>1. CASE ClientStep
    <2>1. ASSUME NEW k \in calls, FinishCreate(k)
          PROVE  /\ r \in relations'
                 /\ status[r.from] = "trashed" => status'[r.from] = "trashed"
      <3>1. status[k.memory] = "absent"
        BY <2>1 DEF CallsKnowTheirMemory, FinishCreate
      <3> QED
        BY <1>0, <2>1, <3>1 DEF FinishCreate
    <2>2. ASSUME NEW k \in calls, NEW t \in Texts,
                 ReplaceFields(k, t) \/ EditKeywords(k, t) \/ HttpUpdate(k, t)
          PROVE  relations' = relations /\ status' = status
      BY <2>2 DEF ReplaceFields, EditKeywords, HttpUpdate, WriteText
    <2>3. ASSUME NEW k \in calls, DeletePendingCreate(k) \/ DeleteActive(k) \/ DeleteOpenChange(k)
          PROVE  /\ relations' = relations
                 /\ status' \in {status, [status EXCEPT ![k.memory] = "trashed"]}
      BY <2>3 DEF DeletePendingCreate, DeleteActive, DeleteOpenChange, MoveToTrash, units
    <2>4. ASSUME NEW k \in calls, Forget(k) \/ ClassifyDelete(k)
          PROVE  relations' = relations /\ status' = status
      BY <2>4 DEF Forget, ClassifyDelete, units
    <2>5. ASSUME NEW m \in Memories, NEW t \in Texts, BeginCreate(m, t)
          PROVE  relations' = relations /\ status' = status
      BY <2>5 DEF BeginCreate, units
    <2>6. ASSUME NEW m \in Memories, View(m)
          PROVE  relations' = relations /\ status' = status
      BY <2>6 DEF View, units
    <2> QED
      BY <1>0, <1>1, <2>1, <2>2, <2>3, <2>4, <2>5, <2>6 DEF ClientStep
  <1>2. ASSUME NEW m \in Memories, ApproveCreate(m) \/ ApproveChange(m)
        PROVE  /\ r \in relations'
               /\ status[r.from] = "trashed" => status'[r.from] = "trashed"
    BY <1>0, <1>2
    DEF ApproveCreate, ApproveChange, units, Reviewable, ReviewMatchesStatus, Exists, NoChange
  <1>3. CASE RowStep
    <2>1. ASSUME NEW S \in SUBSET Memories, RowsFree(S), HardDelete(S)
          PROVE  r \in relations' /\ status'[r.from] = status[r.from]
      BY <1>0, <2>1 DEF RowsFree, HardDelete
    <2>2. ASSUME NEW m \in Memories, RowsFree({m}), NEW before, RestoreSnapshot(m, before)
          PROVE  r \in relations' /\ status'[r.from] = status[r.from]
      BY <1>0, <2>2 DEF RowsFree, RestoreSnapshot, Touching
    <2>3. ASSUME NEW m \in Memories, RowsFree({m}), RejectCreate(m) \/ DeleteTrash(m)
          PROVE  r \in relations' /\ status'[r.from] = status[r.from]
      BY <2>1, <2>3 DEF RejectCreate, DeleteTrash
    <2>4. ASSUME NEW m \in Memories, RowsFree({m}),
                 RejectChange(m) \/ RestoreActive(m) \/ RestorePending(m)
          PROVE  r \in relations' /\ status'[r.from] = status[r.from]
      BY <2>2, <2>4 DEF RejectChange, RestoreActive, RestorePending
    <2>5. ASSUME NEW S \in SUBSET Memories, RowsFree(S), DeleteExpiredTrash(S)
          PROVE  r \in relations' /\ status'[r.from] = status[r.from]
      BY <2>1, <2>5 DEF DeleteExpiredTrash
    <2> QED
      BY <1>3, <2>3, <2>4, <2>5 DEF RowStep
  <1> QED
    BY <1>0, <1>1, <1>2, <1>3 DEF RebuildGraph, vars, units

\* What was read stays fit as long as accepted memories stay so.
LEMMA FitLasts ==
  ASSUME NEW before, Fit(before), \A m \in Memories : Kept(m) => Kept(m)'
  PROVE  Fit(before)'
  BY DEF Fit

\* While others work, what a relation transaction knows stays true.
LEMMA OthersKeepPending ==
  ASSUME IInv, PendingKnown, UNCHANGED pending,
         \/ ClientStep
         \/ \E m \in Memories : ApproveCreate(m) \/ ApproveChange(m)
         \/ RowStep
         \/ RebuildGraph
         \/ UNCHANGED vars
  PROVE  PendingKnown'
  <1>1. ClientStep \/ ReviewStep \/ TrashStep \/ RebuildGraph \/ UNCHANGED vars
    BY DEF RowStep, ReviewStep, TrashStep
  <1>2. \A m \in Memories : Kept(m) => Kept(m)'
    BY <1>1, AcceptedLasts
  <1> SUFFICES ASSUME NEW p \in pending
               PROVE  /\ p.op \in {"add", "update", "delete"} /\ p.relation \in Relations
                      /\ Kept(p.relation.from)' /\ Kept(p.relation.to)'
                      /\ p.op # "add" => p.relation \in relations'
                      /\ \/ Fit(p.before)'
                         \/ p.op # "add" /\ status'[p.relation.from] = "trashed"
    BY DEF PendingKnown
  <1>3. /\ p.op \in {"add", "update", "delete"} /\ p.relation \in Relations
        /\ Kept(p.relation.from) /\ Kept(p.relation.to)
        /\ p.op # "add" => p.relation \in relations
        /\ Fit(p.before) \/ (p.op # "add" /\ status[p.relation.from] = "trashed")
    BY DEF PendingKnown
  <1>4. p.relation.from \in Memories /\ p.relation.to \in Memories
    BY <1>3 DEF Relations
  <1>5. p.op # "add" =>
          /\ p.relation \in relations'
          /\ status[p.relation.from] = "trashed" => status'[p.relation.from] = "trashed"
    BY <1>3, LockedRowsStay
  <1>6. Fit(p.before) => Fit(p.before)'
    BY <1>2, FitLasts
  <1> QED
    BY <1>2, <1>3, <1>4, <1>5, <1>6

-----------------------------------------------------------------------------
(* The relation transaction itself                                         *)

\* The state of an accepted memory as a transaction reads it when it begins: fit,
\* or that of a memory in the trash.
LEMMA ReadIsKnown ==
  ASSUME IInv, NEW m \in Memories, Accepted(m)
  PROVE  Fit(Snapshot(m)) \/ status[m] = "trashed"
  <1> USE ConstantsAssumption DEF IInv
  <1> SUFFICES ASSUME status[m] = "active" PROVE Fit(Snapshot(m))
    BY DEF Accepted
  <1>1. Snapshot(m) \in Snapshots /\ Snapshot(m).status = "active"
    BY SnapshotTyped DEF Live, Snapshot
  <1>2. \A e \in Snapshot(m).relations, n \in Memories : n \in {e.from, e.to} => Kept(n)
    BY DEF RelationsJoinAccepted, Snapshot, Touching, Kept
  <1> QED
    BY <1>1, <1>2 DEF Fit

\* A transaction begins.
LEMMA BeginPreserves ==
  ASSUME RaceInv,
         \/ \E r \in Relations : BeginAdd(r)
         \/ \E r \in relations, op \in {"update", "delete"} : BeginEdit(op, r)
  PROVE  RaceInv'
  <1>1. UNCHANGED vars
    BY DEF BeginAdd, BeginEdit, Begin
  <1>2. IInv'
    BY <1>1, NextIInv DEF RaceInv
  <1>3. PICK r \in Relations, op \in {"add", "update", "delete"} :
          /\ pending' = {[op |-> op, relation |-> r, before |-> Snapshot(r.from)]}
          /\ Accepted(r.from) /\ Accepted(r.to)
          /\ op # "add" => r \in relations
          /\ op = "add" => status[r.from] = "active"
    <2>1. ASSUME NEW r \in Relations, BeginAdd(r)
          PROVE  /\ pending' = {[op |-> "add", relation |-> r, before |-> Snapshot(r.from)]}
                 /\ Accepted(r.from) /\ Accepted(r.to) /\ status[r.from] = "active"
      BY <2>1 DEF BeginAdd, Begin, RelationAllowed, Accepted
    <2>2. ASSUME NEW r \in relations, NEW op \in {"update", "delete"}, BeginEdit(op, r)
          PROVE  /\ r \in Relations
                 /\ pending' = {[op |-> op, relation |-> r, before |-> Snapshot(r.from)]}
                 /\ Accepted(r.from) /\ Accepted(r.to)
      BY <2>2 DEF BeginEdit, Begin, RaceInv, IInv, TypeOK, RelationsJoinAccepted
    <2> QED
      BY <2>1, <2>2
  <1>4. r.from \in Memories
    BY DEF Relations
  <1>5. Fit(Snapshot(r.from)) \/ status[r.from] = "trashed"
    BY <1>3, <1>4, ReadIsKnown DEF RaceInv
  <1>6. /\ \A m : Kept(m) => Kept(m)'
        /\ Fit(Snapshot(r.from)) => Fit(Snapshot(r.from))'
        /\ Snapshot(r.from)' = Snapshot(r.from)
    BY <1>1 DEF vars, Kept, Accepted, Fit, Snapshot, Touching
  <1>7. PendingKnown'
    <2> DEFINE before == Snapshot(r.from)
    <2>1. Kept(r.from)' /\ Kept(r.to)'
      BY <1>3, <1>6 DEF Kept
    <2>2. op # "add" => r \in relations'
      BY <1>1, <1>3 DEF vars
    <2>3. Fit(before)' \/ (op # "add" /\ status'[r.from] = "trashed")
      BY <1>1, <1>3, <1>5, <1>6 DEF vars
    <2>4. before' = before
      BY <1>6
    <2> QED
      BY <1>3, <2>1, <2>2, <2>3, <2>4 DEF PendingKnown
  <1> QED
    BY <1>2, <1>7 DEF RaceInv

\* The rest of the transaction keeps the invariant.  What it has read becomes
\* the baseline only of a memory that has no open change; then the memory is
\* active, so it was not in the trash at that time either.
LEMMA FinishKeepsIInv ==
  ASSUME RaceInv, NEW p \in pending, NEW edges \in SUBSET Relations,
         Accepted(p.relation.from), Accepted(p.relation.to),
         \A e \in edges : Accepted(e.from) /\ Accepted(e.to),
         CommitRelations(p.relation, edges, p.before)
  PROVE  IInv'
  <1> DEFINE r == p.relation
  <1>1. r \in Relations /\ r.from \in Memories /\ IInv
    BY DEF RaceInv, PendingKnown, Relations
  <1>2. CASE change[r.from].action = "none"
    <2>1. status[r.from] # "trashed"
      BY <1>1, <1>2 DEF IInv, ReviewMatchesStatus
    <2>2. Fit(p.before)
      BY <2>1 DEF RaceInv, PendingKnown
    <2>3. p.before \in Snapshots /\ p.before.status = "active"
      BY <2>2 DEF Fit
    <2>4. \A e \in p.before.relations, n \in Memories :
            n \in {e.from, e.to} => Accepted(n) \/ status[n] = "gone"
      BY <2>2 DEF Fit, Kept
    <2> QED
      BY <1>1, <2>3, <2>4, CommitRelationsPreserves
  <1>3. CASE change[r.from].action # "none"
    <2> DEFINE before == change[r.from].before
    <2>1. before \in Snapshots /\ before.status = "active"
      BY <1>1, <1>3, ConstantsAssumption
      DEF Accepted, IInv, TypeOK, ReviewMatchesStatus, Changes, NoChange
    <2>2. CommitRelations(r, edges, before)
      BY <1>3 DEF CommitRelations, RecordEdit
    <2>3. \A e \in before.relations, n \in Memories :
            n \in {e.from, e.to} => Accepted(n) \/ status[n] = "gone"
      BY <1>1, <2>1, ConstantsAssumption DEF IInv, RelationsJoinAccepted
    <2> QED
      BY <1>1, <2>1, <2>2, <2>3, CommitRelationsPreserves
  <1> QED
    BY <1>2, <1>3

\* A transaction commits or fails.
LEMMA FinishPreserves ==
  ASSUME RaceInv, NEW p \in pending, pending' = {},
         FinishAdd(p) \/ FinishUpdate(p) \/ FinishDelete(p) \/ Abort(p)
  PROVE  RaceInv'
  <1> DEFINE r == p.relation
  <1>1. /\ r \in Relations /\ IInv
        /\ Kept(r.from) /\ Kept(r.to) /\ (p.op # "add" => r \in relations)
        /\ relations \subseteq Relations
        /\ \A e \in relations : Accepted(e.from) /\ Accepted(e.to)
    BY DEF RaceInv, PendingKnown, IInv, TypeOK, RelationsJoinAccepted
  <1>2. ASSUME FinishAdd(p) PROVE IInv'
    <2>1. Accepted(r.from) /\ Accepted(r.to)
      BY <1>1, <1>2 DEF FinishAdd, InsertRelation, Kept, Exists
    <2>2. CommitRelations(r, relations \cup {r}, p.before)
      BY <1>2 DEF FinishAdd, InsertRelation
    <2> QED
      BY <1>1, <2>1, <2>2, FinishKeepsIInv
  <1>3. ASSUME FinishDelete(p) PROVE IInv'
    <2>1. r \in relations /\ CommitRelations(r, relations \ {r}, p.before)
      BY <1>1, <1>3 DEF FinishDelete, RemoveRelation
    <2> QED
      BY <1>1, <2>1, FinishKeepsIInv
  <1>4. ASSUME FinishUpdate(p) PROVE IInv'
    <2>1. r \in relations
      BY <1>1, <1>4 DEF FinishUpdate
    <2>2. PICK type \in RelationTypes : ReplaceRelation(r, type, p.before)
      BY <1>4 DEF FinishUpdate
    <2> DEFINE new == [from |-> r.from, to |-> r.to, type |-> type]
               edges == (relations \ {r}) \cup {new}
    <2>3. new \in Relations /\ new.from = r.from /\ new.to = r.to
      BY <1>1 DEF Relations
    <2>4. edges \in SUBSET Relations /\ CommitRelations(r, edges, p.before)
      BY <1>1, <2>2, <2>3 DEF ReplaceRelation
    <2>5. \A e \in edges : Accepted(e.from) /\ Accepted(e.to)
      BY <1>1, <2>1, <2>3
    <2> QED
      BY <1>1, <2>1, <2>4, <2>5, FinishKeepsIInv
  <1>5. ASSUME Abort(p) PROVE IInv'
    BY <1>1, <1>5, NextIInv DEF Abort
  <1> QED
    BY <1>2, <1>3, <1>4, <1>5 DEF RaceInv, PendingKnown

\* The invariant holds in every reachable state at the finer granularity too.
THEOREM RaceInvariance == RaceSpec => []RaceInv
  <1>1. RaceInit => RaceInv
    BY InitIInv DEF RaceInit, RaceInv, PendingKnown
  <1>2. RaceInv /\ [RaceNext]_raceVars => RaceInv'
    <2> SUFFICES ASSUME RaceInv, [RaceNext]_raceVars PROVE RaceInv'
      OBVIOUS
    <2>1. ASSUME UNCHANGED pending,
                 \/ ClientStep
                 \/ \E m \in Memories : ApproveCreate(m) \/ ApproveChange(m)
                 \/ RowStep
                 \/ RebuildGraph
                 \/ UNCHANGED vars
          PROVE  RaceInv'
      <3>1. Next \/ UNCHANGED vars
        BY <2>1 DEF Next, RowStep, ReviewStep, TrashStep
      <3> QED
        BY <2>1, <3>1, NextIInv, OthersKeepPending DEF RaceInv
    <2> QED
      BY <2>1, BeginPreserves, FinishPreserves DEF RaceNext, raceVars
  <1> QED
    BY <1>1, <1>2, PTL DEF RaceSpec

\* Whatever commits between the read of before_state and the rest of a relation
\* operation, the status of each memory and its open change agree.
THEOREM RaceStatusAgrees == RaceSpec => []ReviewMatchesStatus
  BY RaceInvariance, PTL DEF RaceInv, IInv

\* No baseline that a relation operation has read too early brings back a
\* relation to a memory that no reviewer has accepted.
THEOREM RaceRelationsAccepted == RaceSpec => []RelationsJoinAccepted
  BY RaceInvariance, PTL DEF RaceInv, IInv
=============================================================================
