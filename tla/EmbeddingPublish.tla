-------------------------- MODULE EmbeddingPublish --------------------------
(***************************************************************************)
(* The embedding tasks of the server: the refresh spawned by an approval   *)
(* and the backfill worker.                                                *)
(*                                                                         *)
(* A task reads the current table, the state of its memory, registers a    *)
(* generation target, generates vectors for seconds or minutes while it    *)
(* holds no lock, and publishes them in a transaction that compares all it *)
(* has read.  Each of these is one action; agents and reviewers change the *)
(* rows in between, as MemoryRows allows.                                  *)
(***************************************************************************)
EXTENDS MemoryRows, FiniteSets

CONSTANTS
  Refreshers,      (* bound: refresh tasks running at a time                    *)
  Backfill,        (* the backfill worker, serial                               *)
  Unembeddable,    (* memories whose generation never succeeds                  *)
  Dimensions,
  FirstDimension,  (* of the table the database was set up with                 *)
  NoTask, NoVector, NoTarget,
  MaxRevision      (* bound: no row is written past this revision               *)

Tasks == Refreshers \cup {Backfill}

TableIds == [oid : Nat, dimension : Dimensions]
Vectors == [revision : Nat, text : Texts, dimension : Dimensions]

TaskStates ==
  [stage : {"spawned"}, memory : Memories]
    \cup
  [stage : {"started"}, memory : Memories, table : TableIds, revision : {0}, text : {NoText}]
    \cup
  [stage : {"read", "registered"}, memory : Memories, table : TableIds,
   revision : Nat, text : Texts]

ASSUME EmbeddingAssumption ==
  /\ Backfill \notin Refreshers
  /\ NoTarget \notin Tasks
  /\ NoText \notin Texts
  /\ NoVector \notin Vectors
  /\ NoTask \notin TaskStates
  /\ FirstDimension \in Dimensions
  /\ Unembeddable \subseteq Memories
  /\ MaxRevision \in Nat

VARIABLES
  edited,    (* active memories with an open update                             *)
  table,     (* memory_embeddings: its oid and dimension                        *)
  vectors,   (* the vectors of each memory: source_revision, the text they are
                made of, embedding_dimension                                    *)
  target,    (* memory_embedding_targets: generations are unique, so the task
                that registered last stands for the generation                  *)
  task,      (* what each task has read so far                                  *)
  todo       (* what is left of the backfill's list                             *)

publishVars == <<rows, edited, table, vectors, target, task, todo>>

PublishInit ==
  /\ RowsInit
  /\ edited = {}
  /\ table = [oid |-> 1, dimension |-> FirstDimension]
  /\ vectors = [m \in Memories |-> NoVector]
  /\ target = [m \in Memories |-> NoTarget]
  /\ task = [w \in Tasks |-> NoTask]
  /\ todo = {}

-----------------------------------------------------------------------------
(* Agents and reviewers                                                    *)

Room(S) == \A m \in S : revision[m] < MaxRevision

Create(m, t) == InsertRow(m, t) /\ UNCHANGED edited

\* An edit of the category leaves alone what the vectors are made of.
Edit(m, t) ==
  /\ status[m] \in {"pending", "active"}
  /\ UpdateRow(m, status[m], t)
  /\ edited' = IF status[m] = "active" THEN edited \cup {m} ELSE edited

\* A relation operation: both ends are written, the FROM memory has a change.
Relate(from, to) ==
  /\ from # to
  /\ TouchRows({from, to})
  /\ edited' = edited \cup ({from} \cap Active)

\* A rejection brings back the text of the baseline, whatever it was.
Reject(m, t) ==
  /\ m \in edited
  /\ UpdateRow(m, "active", t)
  /\ edited' = edited \ {m}

Trash(m) ==
  /\ status[m] \in {"pending", "active"}
  /\ UpdateRow(m, "trashed", text[m])
  /\ edited' = edited \ {m}

Return(m, s, t) ==
  /\ status[m] = "trashed"
  /\ UpdateRow(m, s, t)
  /\ UNCHANGED edited

\* Writes that spawn no refresh and leave the derived tables alone.
RowStep ==
  /\ \/ \E m \in Memories, t \in Texts : Create(m, t)
     \/ \E m \in Memories : Room({m}) /\
          \/ Trash(m)
          \/ \E t \in Texts : Edit(m, t) \/ Reject(m, t)
          \/ \E s \in {"pending", "active"}, t \in Texts : Return(m, s, t)
     \/ \E from, to \in Memories : Room({from, to}) /\ Relate(from, to)
  /\ UNCHANGED <<table, vectors, target, task, todo>>

\* DELETE FROM memory_units cascades to the vectors and the target.
Destroy(m) ==
  /\ m \in Stored
  /\ DeleteRows({m})
  /\ edited' = edited \ {m}
  /\ vectors' = [vectors EXCEPT ![m] = NoVector]
  /\ target' = [target EXCEPT ![m] = NoTarget]
  /\ UNCHANGED <<table, task, todo>>

\* approve() of a creation or an update, which spawns a refresh once it has
\* committed.
Approve(w, m) ==
  /\ task[w] = NoTask
  /\ \/ status[m] = "pending" /\ Room({m}) /\ UpdateRow(m, "active", text[m]) /\ UNCHANGED edited
     \/ m \in edited /\ edited' = edited \ {m} /\ UNCHANGED rows
  /\ task' = [task EXCEPT ![w] = [stage |-> "spawned", memory |-> m]]
  /\ UNCHANGED <<table, vectors, target, todo>>

-----------------------------------------------------------------------------
(* The tasks                                                               *)

\* Mutant: an inner join with the vectors.
GapsJoined == {m \in Active : vectors[m] # NoVector /\ vectors[m].dimension # table.dimension}

\* list_embedding_backfill_memory_uuids(): no vectors, or not of this table's
\* dimension.  Its LIMIT 50 is taken to be enough.
Gaps == {m \in Active : vectors[m] = NoVector \/ vectors[m].dimension # table.dimension}

Scan ==
  /\ task[Backfill] = NoTask /\ todo = {}
  /\ todo' = Gaps
  /\ UNCHANGED <<rows, edited, table, vectors, target, task>>

\* A task begins with read_current_embedding_config().
Started(m) == [stage |-> "started", memory |-> m, table |-> table,
               revision |-> 0, text |-> NoText]

Take(m) ==
  /\ task[Backfill] = NoTask /\ m \in todo
  /\ task' = [task EXCEPT ![Backfill] = Started(m)]
  /\ todo' = todo \ {m}
  /\ UNCHANGED <<rows, edited, table, vectors, target>>

ReadTable(w) ==
  /\ task[w] # NoTask /\ task[w].stage = "spawned"
  /\ task' = [task EXCEPT ![w] = Started(task[w].memory)]
  /\ UNCHANGED <<rows, edited, table, vectors, target, todo>>

\* Mutant: a memory that is gone is read as one without text.
ReadStateOrNothing(w) ==
  LET m == task[w].memory IN
  /\ task[w] # NoTask /\ task[w].stage = "started"
  /\ task' = [task EXCEPT ![w].stage = "read", ![w].revision = revision[m], ![w].text = text[m]]
  /\ UNCHANGED <<rows, edited, table, vectors, target, todo>>

\* load_current_memory_state().
ReadState(w) ==
  LET m == task[w].memory IN
  /\ task[w] # NoTask /\ task[w].stage = "started"
  /\ m \in Stored
  /\ task' = [task EXCEPT ![w].stage = "read", ![w].revision = revision[m], ![w].text = text[m]]
  /\ UNCHANGED <<rows, edited, table, vectors, target, todo>>

\* register_embedding_target(): a new generation for the row that was read.
Register(w) ==
  LET m == task[w].memory IN
  /\ task[w] # NoTask /\ task[w].stage = "read"
  /\ m \in Active /\ revision[m] = task[w].revision
  /\ target' = [target EXCEPT ![m] = w]
  /\ task' = [task EXCEPT ![w].stage = "registered"]
  /\ UNCHANGED <<rows, edited, table, vectors, todo>>

VectorOf(k) ==
  [revision |-> k.revision, text |-> k.text, dimension |-> k.table.dimension]

\* Mutant: the memory is locked, its state is not compared with the source.
SourceUnseen(w) == TRUE

\* Mutant: no table identity travels with the source.
SourceCurrentInAnyTable(w) ==
  LET k == task[w] IN
  /\ revision[k.memory] = k.revision /\ text[k.memory] = k.text
  /\ target[k.memory] = w

\* validate_embedding_source(): table, state and generation are those of the
\* task.  The state contains relations too, whose removal with the memory at
\* their other end is one more refusal: Drop.
SourceCurrent(w) ==
  LET k == task[w] IN
  /\ table.oid = k.table.oid
  /\ revision[k.memory] = k.revision /\ text[k.memory] = k.text
  /\ target[k.memory] = w

\* Mutant: no comparison, and the revision of the row instead of the source's.
PublishUnchecked(w) ==
  LET m == task[w].memory IN
  /\ task[w] # NoTask /\ task[w].stage = "registered"
  /\ m \in Active \ Unembeddable
  /\ vectors' = [vectors EXCEPT ![m] = [VectorOf(task[w]) EXCEPT !.revision = revision[m]]]
  /\ task' = [task EXCEPT ![w] = NoTask]
  /\ UNCHANGED <<rows, edited, table, target, todo>>

\* refresh_memory_embedding() after a successful generate_chunks().
Publish(w) ==
  LET m == task[w].memory IN
  /\ task[w] # NoTask /\ task[w].stage = "registered"
  /\ m \in Active \ Unembeddable
  /\ SourceCurrent(w)
  /\ vectors' = [vectors EXCEPT ![m] = VectorOf(task[w])]
  /\ task' = [task EXCEPT ![w] = NoTask]
  /\ UNCHANGED <<rows, edited, table, target, todo>>

\* The task ends without vectors: the provider failed, a check refused, a
\* connection broke.  It is logged and not repeated.
Drop(w) ==
  /\ task[w] # NoTask
  /\ task' = [task EXCEPT ![w] = NoTask]
  /\ UNCHANGED <<rows, edited, table, vectors, target, todo>>

\* The server stops and starts again: tasks and list were in memory only.
Restart ==
  /\ task' = [w \in Tasks |-> NoTask]
  /\ todo' = {}
  /\ UNCHANGED <<rows, edited, table, vectors, target>>

TaskStep ==
  \/ \E w \in Refreshers, m \in Memories : Approve(w, m)
  \/ Scan
  \/ \E m \in Memories : Take(m)
  \/ \E w \in Tasks : ReadTable(w) \/ ReadState(w) \/ Register(w) \/ Publish(w) \/ Drop(w)
  \/ Restart

PublishNext ==
  \/ RowStep
  \/ \E m \in Memories : Destroy(m)
  \/ TaskStep

PublishSpec == PublishInit /\ [][PublishNext]_publishVars

(***************************************************************************)
(* Fairness.  The worker loop always goes on: it scans, takes what it has  *)
(* listed and ends every task.  Restarts, the provider and the database    *)
(* spoil its work at times, not for ever: a step for a memory that can be  *)
(* embedded, and that can be taken again and again, is taken at last.      *)
(* Agents, reviewers and refreshes owe nothing.                            *)
(***************************************************************************)
BackfillOf(m, Step(_)) ==
  task[Backfill] # NoTask /\ task[Backfill].memory = m /\ Step(Backfill)

Fairness ==
  /\ WF_publishVars(Scan)
  /\ WF_publishVars(\E m \in Memories : Take(m))
  /\ WF_publishVars(Drop(Backfill))
  /\ \A m \in Memories \ Unembeddable :
       /\ SF_publishVars(Take(m))
       /\ SF_publishVars(BackfillOf(m, ReadState))
       /\ SF_publishVars(BackfillOf(m, Register))
       /\ SF_publishVars(BackfillOf(m, Publish))

FairSpec == PublishSpec /\ Fairness

-----------------------------------------------------------------------------
(* Properties                                                              *)

\* Every variable keeps its type; in particular a task that has read its memory
\* holds a text and never what a destroyed row leaves behind.
PublishTypeOK ==
  /\ status \in [Memories -> {"absent", "pending", "active", "trashed", "gone"}]
  /\ text \in [Memories -> Texts \cup {NoText}]
  /\ revision \in [Memories -> Nat]
  /\ edited \subseteq Memories
  /\ table \in TableIds
  /\ vectors \in [Memories -> Vectors \cup {NoVector}]
  /\ target \in [Memories -> Tasks \cup {NoTarget}]
  /\ task \in [Tasks -> TaskStates \cup {NoTask}]
  /\ todo \subseteq Memories

\* The vectors of a memory are made of the text its row had at the revision
\* they are marked with: if the revision is still the current one, so is the
\* text.  A migration and every future staleness check rest on this mark.
VectorsOfTheirRevision ==
  \A m \in Memories :
    vectors[m] # NoVector =>
      /\ vectors[m].revision <= revision[m]
      /\ vectors[m].revision = revision[m] => vectors[m].text = text[m]

\* Whoever publishes late never replaces newer vectors by older ones, however
\* the generations of two tasks overlap.
VectorsNeverGoBack ==
  [][\A m \in Memories :
       vectors[m] # NoVector /\ vectors'[m] # NoVector
         => vectors'[m].revision >= vectors[m].revision]_publishVars

\* The backfill closes every gap it can close: an active memory without vectors
\* gets them, or ceases to be active, failures, restarts and memories that can
\* never be embedded notwithstanding.
BackfillFillsGaps ==
  \A m \in Memories \ Unembeddable :
    m \in Active /\ vectors[m] = NoVector ~> m \notin Active \/ vectors[m] # NoVector

\* DB_PLAN.md:133: what a failed write of memory_embeddings leaves behind is
\* made up for by a later rebuild.  Once a memory stays active with no change
\* open, its vectors are those of its text in the end.
VectorsCatchUp ==
  \A m \in Memories \ Unembeddable :
    <>[](m \in Active \ edited)
      => []<>(vectors[m] # NoVector /\ vectors[m].text = text[m])
=============================================================================
