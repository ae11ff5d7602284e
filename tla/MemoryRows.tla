----------------------------- MODULE MemoryRows -----------------------------
(***************************************************************************)
(* The rows of memory_units as the derived tables see them: what the       *)
(* embedding tasks rely on and the review, whatever else it does, keeps to *)
(* (MemoryReview, ImplementsRows).  A row is inserted as pending; every    *)
(* later write advances its revision, by the trigger                       *)
(* bump_memory_units_revision or by the relation operations; a deleted row *)
(* never comes back, and a memory once active is never pending again       *)
(* without having been in the trash.                                       *)
(***************************************************************************)
EXTENDS Naturals

CONSTANTS Memories, Texts, NoText

VARIABLES status, text, revision

rows == <<status, text, revision>>

Stored == {m \in Memories : status[m] \in {"pending", "active", "trashed"}}
Active == {m \in Memories : status[m] = "active"}

RowsInit ==
  /\ status = [m \in Memories |-> "absent"]
  /\ text = [m \in Memories |-> NoText]
  /\ revision = [m \in Memories |-> 0]

InsertRow(m, t) ==
  /\ status[m] = "absent"
  /\ status' = [status EXCEPT ![m] = "pending"]
  /\ text' = [text EXCEPT ![m] = t]
  /\ revision' = [revision EXCEPT ![m] = 1]

UpdateRow(m, s, t) ==
  /\ m \in Stored
  /\ status[m] = "active" => s # "pending"
  /\ status' = [status EXCEPT ![m] = s]
  /\ text' = [text EXCEPT ![m] = t]
  /\ revision' = [revision EXCEPT ![m] = @ + 1]

\* touch_relation_endpoints_revision().
TouchRows(S) ==
  /\ S \subseteq Stored
  /\ revision' = [m \in Memories |-> IF m \in S THEN revision[m] + 1 ELSE revision[m]]
  /\ UNCHANGED <<status, text>>

DeleteRows(S) ==
  /\ S \subseteq Stored
  /\ status' = [m \in Memories |-> IF m \in S THEN "gone" ELSE status[m]]
  /\ text' = [m \in Memories |-> IF m \in S THEN NoText ELSE text[m]]
  /\ UNCHANGED revision

RowsNext ==
  \/ \E m \in Memories, t \in Texts :
       InsertRow(m, t) \/ \E s \in {"pending", "active", "trashed"} : UpdateRow(m, s, t)
  \/ \E S \in SUBSET Memories : TouchRows(S) \/ DeleteRows(S)

RowsSpec == RowsInit /\ [][RowsNext]_rows
=============================================================================
