---------------------------- MODULE RelationRace ----------------------------
(***************************************************************************)
(* The relation operations at the granularity of their statements.         *)
(*                                                                         *)
(* A relation transaction runs at READ COMMITTED and reads before_state    *)
(* without a lock on any memory: add_memory_relation holds no lock at all  *)
(* by then, update_ and delete_memory_relation only that of the relation   *)
(* row.  Other transactions commit between this read and the rest, which   *)
(* locks the memories by touch_relation_endpoints_revision and stays one   *)
(* action.  All other operations are those of MemoryReview; the ones that  *)
(* delete relation rows wait for the locked row.                           *)
(***************************************************************************)
EXTENDS MemoryReview

VARIABLE pending   (* the relation transactions that have read before_state *)

raceVars == <<vars, pending>>

RaceInit == Init /\ pending = {}

Begin(op, r) ==
  /\ pending = {}   \* bound: one relation transaction at a time
  /\ pending' = {[op |-> op, relation |-> r, before |-> Snapshot(r.from)]}
  /\ UNCHANGED vars

\* ensure_active_endpoints() and the memory_state() that becomes before_state.
BeginAdd(r) == RelationAllowed(r) /\ Begin("add", r)

\* relation_owner(), which locks the relation row, and the same memory_state().
BeginEdit(op, r) == r \in relations /\ Begin(op, r)

\* The rest of add_memory_relation(), _update and _delete.
FinishAdd(p) == p.op = "add" /\ InsertRelation(p.relation, p.before)

FinishUpdate(p) ==
  /\ p.op = "update"
  /\ \E type \in RelationTypes : ReplaceRelation(p.relation, type, p.before)

FinishDelete(p) == p.op = "delete" /\ RemoveRelation(p.relation, p.before)

\* The transaction fails: the relation exists already, an endpoint is gone, a
\* connection is lost.
Abort(p) == UNCHANGED vars

\* Mutant: relation_owner() reads without FOR UPDATE.
RowsFreeAlways(S) == S \subseteq Memories

\* No relation row of the memories in S is locked.
RowsFree(S) ==
  \A p \in pending : p.op # "add" => p.relation.from \notin S /\ p.relation.to \notin S

\* The operations that delete the relation rows of a memory, or set them anew.
RowStep ==
  \/ \E m \in Memories :
       /\ RowsFree({m})
       /\ \/ RejectCreate(m) \/ RejectChange(m)
          \/ RestoreActive(m) \/ RestorePending(m) \/ DeleteTrash(m)
  \/ \E S \in SUBSET Memories : RowsFree(S) /\ DeleteExpiredTrash(S)

RaceNext ==
  \/ \E r \in Relations : BeginAdd(r)
  \/ \E r \in relations, op \in {"update", "delete"} : BeginEdit(op, r)
  \/ \E p \in pending :
       /\ FinishAdd(p) \/ FinishUpdate(p) \/ FinishDelete(p) \/ Abort(p)
       /\ pending' = {}
  \/ /\ \/ ClientStep
        \/ \E m \in Memories : ApproveCreate(m) \/ ApproveChange(m)
        \/ RowStep
        \/ RebuildGraph
     /\ UNCHANGED pending

RaceSpec == RaceInit /\ [][RaceNext]_raceVars
=============================================================================
