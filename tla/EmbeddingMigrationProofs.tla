---------------------- MODULE EmbeddingMigrationProofs ----------------------
(***************************************************************************)
(* The safety of the embedding tasks, and of a migration that runs beside  *)
(* them and the writers, for any number of memories, tasks, revisions,     *)
(* dimensions and migrations.                                              *)
(***************************************************************************)
EXTENDS EmbeddingMigration, TLAPS

-----------------------------------------------------------------------------
(* Writers and embedding tasks                                             *)

\* A row that is stored has a text; one that is not there yet has no revision.
RowsSound ==
  \A m \in Memories :
    /\ m \in Stored => text[m] \in Texts
    /\ status[m] = "absent" => revision[m] = 0

\* The inductive invariant.  The property of the vectors needs no history of
\* the tasks: what a task has read is compared again when it publishes.
PublishInv == PublishTypeOK /\ RowsSound /\ VectorsOfTheirRevision

THEOREM PublishInitInv == PublishInit => PublishInv
  BY EmbeddingAssumption
  DEF PublishInit, RowsInit, PublishInv, PublishTypeOK, RowsSound, VectorsOfTheirRevision,
      TableIds, Stored

-----------------------------------------------------------------------------
(* What a step of the rows does to the invariant                           *)

RowsTyped ==
  /\ status \in [Memories -> {"absent", "pending", "active", "trashed", "gone"}]
  /\ text \in [Memories -> Texts \cup {NoText}]
  /\ revision \in [Memories -> Nat]

\* A row that is written gets a revision it has never had; a row left alone
\* keeps its text.
RowAdvances(m) ==
  \/ revision'[m] = revision[m] + 1
  \/ revision'[m] = revision[m] /\ text'[m] = text[m] /\ status'[m] = status[m]

LEMMA InsertAdvances ==
  ASSUME RowsTyped, RowsSound, NEW m \in Memories, NEW t \in Texts, InsertRow(m, t)
  PROVE  RowsTyped' /\ RowsSound' /\ \A n \in Memories : RowAdvances(n)
  BY DEF RowsTyped, RowsSound, InsertRow, RowAdvances, Stored

LEMMA UpdateAdvances ==
  ASSUME RowsTyped, RowsSound, NEW m \in Memories, NEW s \in {"pending", "active", "trashed"},
         NEW t \in Texts, UpdateRow(m, s, t)
  PROVE  RowsTyped' /\ RowsSound' /\ \A n \in Memories : RowAdvances(n)
  BY DEF RowsTyped, RowsSound, UpdateRow, RowAdvances, Stored

LEMMA TouchAdvances ==
  ASSUME RowsTyped, RowsSound, NEW S \in SUBSET Memories, TouchRows(S)
  PROVE  RowsTyped' /\ RowsSound' /\ \A n \in Memories : RowAdvances(n)
  BY DEF RowsTyped, RowsSound, TouchRows, RowAdvances, Stored

LEMMA RowStepAdvances ==
  ASSUME PublishInv, RowStep
  PROVE  /\ RowsTyped' /\ RowsSound' /\ edited' \subseteq Memories
         /\ \A n \in Memories : RowAdvances(n)
  <1>0. RowsTyped /\ RowsSound /\ edited \subseteq Memories
    BY DEF PublishInv, PublishTypeOK, RowsTyped
  <1>1. ASSUME NEW m \in Memories, NEW t \in Texts, Create(m, t)
        PROVE  RowsTyped' /\ RowsSound' /\ edited' \subseteq Memories
               /\ \A n \in Memories : RowAdvances(n)
    BY <1>0, <1>1, InsertAdvances DEF Create
  <1>2. ASSUME NEW m \in Memories, NEW t \in Texts, Edit(m, t) \/ Reject(m, t)
        PROVE  RowsTyped' /\ RowsSound' /\ edited' \subseteq Memories
               /\ \A n \in Memories : RowAdvances(n)
    BY <1>0, <1>2, UpdateAdvances DEF Edit, Reject
  <1>3. ASSUME NEW m \in Memories, Trash(m)
        PROVE  RowsTyped' /\ RowsSound' /\ edited' \subseteq Memories
               /\ \A n \in Memories : RowAdvances(n)
    <2>1. text[m] \in Texts
      BY <1>0, <1>3 DEF Trash, RowsSound, Stored
    <2> QED
      BY <1>0, <1>3, <2>1, UpdateAdvances DEF Trash
  <1>4. ASSUME NEW m \in Memories, NEW s \in {"pending", "active"}, NEW t \in Texts,
               Return(m, s, t)
        PROVE  RowsTyped' /\ RowsSound' /\ edited' \subseteq Memories
               /\ \A n \in Memories : RowAdvances(n)
    BY <1>0, <1>4, UpdateAdvances DEF Return
  <1>5. ASSUME NEW from \in Memories, NEW to \in Memories, Relate(from, to)
        PROVE  RowsTyped' /\ RowsSound' /\ edited' \subseteq Memories
               /\ \A n \in Memories : RowAdvances(n)
    <2>1. {from, to} \in SUBSET Memories
      OBVIOUS
    <2> QED
      BY <1>0, <1>5, <2>1, TouchAdvances DEF Relate
  <1> QED
    BY <1>1, <1>2, <1>3, <1>4, <1>5 DEF RowStep

\* Vectors that are left alone stay those of their revision while rows advance.
LEMMA AdvancingKeepsVectors ==
  ASSUME PublishInv, RowsTyped', \A n \in Memories : RowAdvances(n), vectors' = vectors
  PROVE  VectorsOfTheirRevision'
  BY DEF PublishInv, PublishTypeOK, VectorsOfTheirRevision, RowAdvances, RowsTyped, Vectors

-----------------------------------------------------------------------------
(* The steps                                                               *)

LEMMA DestroyPreserves ==
  ASSUME PublishInv, NEW m \in Memories, Destroy(m)
  PROVE  PublishInv'
  <1> USE DEF PublishInv
  <1>0. /\ status' = [n \in Memories |-> IF n = m THEN "gone" ELSE status[n]]
        /\ text' = [n \in Memories |-> IF n = m THEN NoText ELSE text[n]]
        /\ revision' = revision
    BY DEF Destroy, DeleteRows, PublishTypeOK
  <1>1. PublishTypeOK'
    BY <1>0 DEF Destroy, PublishTypeOK
  <1>2. RowsSound'
    BY <1>0 DEF PublishTypeOK, RowsSound, Stored
  <1>3. VectorsOfTheirRevision'
    BY <1>0 DEF Destroy, PublishTypeOK, VectorsOfTheirRevision
  <1> QED
    BY <1>1, <1>2, <1>3

LEMMA ApprovePreserves ==
  ASSUME PublishInv, NEW w \in Refreshers, NEW m \in Memories, Approve(w, m)
  PROVE  PublishInv'
  <1>0. RowsTyped /\ RowsSound
    BY DEF PublishInv, PublishTypeOK, RowsTyped
  <1>1. RowsTyped' /\ RowsSound' /\ (\A n \in Memories : RowAdvances(n)) /\ edited' \subseteq Memories
    <2>1. CASE status[m] = "pending" /\ UpdateRow(m, "active", text[m]) /\ UNCHANGED edited
      BY <1>0, <2>1, UpdateAdvances DEF RowsSound, Stored, PublishInv, PublishTypeOK
    <2>2. CASE edited' = edited \ {m} /\ UNCHANGED rows
      BY <1>0, <2>2 DEF rows, RowsTyped, RowsSound, Stored, RowAdvances, PublishInv, PublishTypeOK
    <2> QED
      BY <2>1, <2>2 DEF Approve
  <1>2. [stage |-> "spawned", memory |-> m] \in TaskStates
    BY DEF TaskStates
  <1>3. PublishTypeOK'
    BY <1>1, <1>2 DEF Approve, PublishInv, PublishTypeOK, RowsTyped, Tasks
  <1>4. VectorsOfTheirRevision'
    BY <1>1, AdvancingKeepsVectors DEF Approve
  <1> QED
    BY <1>1, <1>3, <1>4 DEF PublishInv

\* The remaining steps of a task leave the rows alone.
LEMMA TaskStepPreserves ==
  ASSUME PublishInv, UNCHANGED <<rows, edited, table>>,
         task' \in [Tasks -> TaskStates \cup {NoTask}],
         target' \in [Memories -> Tasks \cup {NoTarget}],
         todo' \subseteq Memories,
         vectors' = vectors
  PROVE  PublishInv'
  BY DEF PublishInv, PublishTypeOK, RowsSound, VectorsOfTheirRevision, rows, Stored

LEMMA PublishPreserves ==
  ASSUME PublishInv, NEW w \in Tasks, Publish(w)
  PROVE  /\ PublishInv'
         /\ task[w] \in TaskStates
         /\ vectors' = [vectors EXCEPT ![task[w].memory] = VectorOf(task[w])]
         /\ task[w].memory \in Memories
         /\ task[w].revision = revision[task[w].memory]
  <1> USE DEF PublishInv
  <1>1. /\ task[w] \in TaskStates
        /\ task[w].stage = "registered"
        /\ SourceCurrent(w)
        /\ vectors' = [vectors EXCEPT ![task[w].memory] = VectorOf(task[w])]
        /\ UNCHANGED <<status, text, revision, edited, table, target, todo>>
    BY DEF Publish, PublishTypeOK, rows
  <1>2. /\ task[w].memory \in Memories /\ task[w].table \in TableIds
        /\ task[w].revision \in Nat /\ task[w].text \in Texts
    BY <1>1 DEF TaskStates
  <1>3. VectorOf(task[w]) \in Vectors
    BY <1>2 DEF VectorOf, Vectors, TableIds
  <1>4. PublishTypeOK'
    BY <1>1, <1>3, ZenonT(60) DEF Publish, PublishTypeOK
  <1>5. VectorsOfTheirRevision'
    BY <1>1, <1>2 DEF VectorsOfTheirRevision, SourceCurrent, VectorOf, PublishTypeOK
  <1>6. RowsSound'
    BY <1>1 DEF RowsSound, Stored
  <1> QED
    BY <1>1, <1>2, <1>4, <1>5, <1>6 DEF SourceCurrent

THEOREM PublishNextInv == PublishInv /\ [PublishNext]_publishVars => PublishInv'
  <1> SUFFICES ASSUME PublishInv, [PublishNext]_publishVars PROVE PublishInv'
    OBVIOUS
  <1>0. /\ task \in [Tasks -> TaskStates \cup {NoTask}]
        /\ target \in [Memories -> Tasks \cup {NoTarget}]
        /\ todo \subseteq Memories /\ Backfill \in Tasks
        /\ table \in TableIds
    BY DEF PublishInv, PublishTypeOK, Tasks
  <1>1. CASE UNCHANGED publishVars
    BY <1>1, <1>0, TaskStepPreserves DEF publishVars
  <1>2. CASE RowStep
    <2>1. PublishTypeOK'
      BY <1>2, RowStepAdvances DEF RowStep, RowsTyped, PublishInv, PublishTypeOK
    <2>2. VectorsOfTheirRevision'
      BY <1>2, RowStepAdvances, AdvancingKeepsVectors DEF RowStep
    <2> QED
      BY <1>2, <2>1, <2>2, RowStepAdvances DEF PublishInv
  <1>3. ASSUME NEW m \in Memories, Destroy(m) PROVE PublishInv'
    BY <1>3, DestroyPreserves
  <1>4. ASSUME NEW w \in Refreshers, NEW m \in Memories, Approve(w, m) PROVE PublishInv'
    BY <1>4, ApprovePreserves
  <1>5. CASE Scan
    BY <1>0, <1>5, TaskStepPreserves DEF Scan, Gaps, Active
  <1>6. ASSUME NEW m \in Memories, Take(m) PROVE PublishInv'
    <2>1. Started(m) \in TaskStates
      BY <1>0 DEF Started, TaskStates
    <2> QED
      BY <1>0, <1>6, <2>1, TaskStepPreserves DEF Take
  <1>7. ASSUME NEW w \in Tasks, ReadState(w) PROVE PublishInv'
    <2>1. task[w] \in TaskStates /\ task[w].stage = "started" /\ task[w].memory \in Stored
      BY <1>0, <1>7 DEF ReadState
    <2>2. /\ task[w].memory \in Memories /\ task[w].table \in TableIds
          /\ revision[task[w].memory] \in Nat /\ text[task[w].memory] \in Texts
      BY <2>1 DEF TaskStates, PublishInv, PublishTypeOK, RowsSound
    <2>3. [[[task[w] EXCEPT !.stage = "read"] EXCEPT !.revision = revision[task[w].memory]]
             EXCEPT !.text = text[task[w].memory]] \in TaskStates
      BY <2>1, <2>2 DEF TaskStates
    <2>4. task' \in [Tasks -> TaskStates \cup {NoTask}]
      BY <1>0, <1>7, <2>3 DEF ReadState
    <2> QED
      BY <1>0, <1>7, <2>4, TaskStepPreserves DEF ReadState
  <1>8. ASSUME NEW w \in Tasks, Register(w) PROVE PublishInv'
    <2>1. task[w] \in TaskStates /\ task[w].stage = "read"
      BY <1>0, <1>8 DEF Register
    <2>2. [task[w] EXCEPT !.stage = "registered"] \in TaskStates /\ task[w].memory \in Memories
      BY <2>1 DEF TaskStates
    <2>3. task' \in [Tasks -> TaskStates \cup {NoTask}] /\ target' \in [Memories -> Tasks \cup {NoTarget}]
      BY <1>0, <1>8, <2>2 DEF Register
    <2> QED
      BY <1>0, <1>8, <2>3, TaskStepPreserves DEF Register
  <1>9. ASSUME NEW w \in Tasks, Publish(w) PROVE PublishInv'
    BY <1>9, PublishPreserves
  <1>10. ASSUME NEW w \in Tasks, Drop(w) PROVE PublishInv'
    BY <1>0, <1>10, TaskStepPreserves DEF Drop
  <1>11. CASE Restart
    BY <1>0, <1>11, TaskStepPreserves DEF Restart
  <1>12. ASSUME NEW w \in Tasks, ReadTable(w) PROVE PublishInv'
    <2>1. task[w] \in TaskStates /\ task[w].memory \in Memories
      BY <1>0, <1>12 DEF ReadTable, TaskStates
    <2>2. Started(task[w].memory) \in TaskStates
      BY <1>0, <2>1 DEF Started, TaskStates
    <2> QED
      BY <1>0, <1>12, <2>2, TaskStepPreserves DEF ReadTable
  <1> QED
    BY <1>1, <1>2, <1>3, <1>4, <1>5, <1>6, <1>7, <1>8, <1>9, <1>10, <1>11,
       <1>12
    DEF PublishNext, TaskStep

THEOREM PublishInvariance == PublishSpec => []PublishInv
  BY PublishInitInv, PublishNextInv, PTL DEF PublishSpec

-----------------------------------------------------------------------------
(* The properties                                                          *)

\* Every variable of the embedding tasks keeps its type.
THEOREM PublishTypeCorrectness == PublishSpec => []PublishTypeOK
  <1>1. PublishInv => PublishTypeOK
    BY DEF PublishInv
  <1> QED
    BY <1>1, PublishInvariance, PTL

\* Vectors that carry the current revision are made of the current text.
THEOREM VectorsTellTheirText == PublishSpec => []VectorsOfTheirRevision
  <1>1. PublishInv => VectorsOfTheirRevision
    BY DEF PublishInv
  <1> QED
    BY <1>1, PublishInvariance, PTL

\* No step replaces vectors by older ones: vectors are never newer than the row,
\* and what is published has the revision of the row.
LEMMA StepNeverGoesBack ==
  ASSUME PublishInv, [PublishNext]_publishVars, NEW m \in Memories,
         vectors[m] # NoVector, vectors'[m] # NoVector
  PROVE  vectors'[m].revision >= vectors[m].revision
  <1>0. vectors[m].revision \in Nat /\ revision[m] \in Nat /\ vectors[m].revision <= revision[m]
    BY DEF PublishInv, PublishTypeOK, Vectors, VectorsOfTheirRevision
  <1>1. CASE vectors'[m] = vectors[m]
    BY <1>0, <1>1
  <1>2. ASSUME NEW w \in Tasks, Publish(w) PROVE vectors'[m].revision >= vectors[m].revision
    <2>1. CASE task[w].memory = m
      <3>1. vectors'[m] = VectorOf(task[w])
        BY <1>2, <2>1, PublishPreserves DEF PublishInv, PublishTypeOK
      <3> QED
        BY <1>0, <1>2, <2>1, <3>1, PublishPreserves DEF VectorOf
    <2>2. CASE task[w].memory # m
      BY <1>1, <1>2, <2>2, PublishPreserves DEF PublishInv, PublishTypeOK
    <2> QED
      BY <2>1, <2>2
  <1>3. ASSUME NEW n \in Memories, Destroy(n) PROVE vectors'[m] = vectors[m]
    BY <1>3 DEF Destroy, PublishInv, PublishTypeOK
  <1> QED
    BY <1>1, <1>2, <1>3
    DEF PublishNext, publishVars, RowStep, TaskStep, Approve, Scan, Take, ReadTable, ReadState,
        Register, Drop, Restart

THEOREM VectorsOnlyGoForward == PublishSpec => VectorsNeverGoBack
  <1>1. PublishInv /\ [PublishNext]_publishVars
          => [\A m \in Memories :
                vectors[m] # NoVector /\ vectors'[m] # NoVector
                  => vectors'[m].revision >= vectors[m].revision]_publishVars
    BY StepNeverGoesBack
  <1> QED
    BY <1>1, PublishInvariance, PTL DEF PublishSpec, VectorsNeverGoBack

-----------------------------------------------------------------------------
(* The migration beside them                                               *)

Stages == {"none", "filling", "verified"}

MigrationTypeOK ==
  /\ migration \in
       [stage : Stages, dimension : Dimensions, pass : {1, 2}, cursor : Nat,
        repair : SUBSET Memories, source : Sources \cup {NoTask}, failed : BOOLEAN,
        versions : SUBSET (Memories \X Nat)]
  /\ next \in [Memories -> Vectors \cup {NoVector}]

\* A task knows the dimension of the table it knows, and no table of the future.
TasksKnowTables ==
  \A w \in Tasks :
    task[w] # NoTask /\ task[w].stage # "spawned" =>
      /\ task[w].table.oid <= table.oid
      /\ task[w].table.oid = table.oid => task[w].table = table

\* The next table, leftovers of earlier runs included, is true to its marks.
NextOfTheirRevision ==
  \A m \in Memories :
    next[m] # NoVector =>
      /\ next[m].revision <= revision[m]
      /\ next[m].revision = revision[m] => next[m].text = text[m]

NextOfOneDimension ==
  \A m \in Memories :
    migration.stage # "none" /\ next[m] # NoVector
      => next[m].dimension = migration.dimension

\* What the command has read of a memory, which may be written or destroyed
\* while its vectors are generated.
SourceOfRevision ==
  LET k == migration.source IN
  k # NoTask =>
    /\ k.revision <= revision[k.memory]
    /\ k.memory \in Stored /\ k.revision = revision[k.memory] => k.text = text[k.memory]

\* Once reviewed, the next table holds what the review has listed, no more and
\* no less: nothing writes to it until the swap.
VerifiedIsListed ==
  migration.stage = "verified" =>
    \A m \in Memories :
      /\ \A r \in Nat :
           <<m, r>> \in migration.versions => next[m] # NoVector /\ next[m].revision = r
      /\ next[m] # NoVector => \E r \in Nat : <<m, r>> \in migration.versions

\* The inductive invariant.
MigrationInv ==
  /\ PublishInv
  /\ MigrationTypeOK
  /\ TasksKnowTables
  /\ TableOfOneDimension
  /\ NextOfTheirRevision
  /\ NextOfOneDimension
  /\ SourceOfRevision
  /\ VerifiedIsListed

\* The parts that speak of the migration alone.
NextParts ==
  /\ MigrationTypeOK
  /\ NextOfTheirRevision
  /\ NextOfOneDimension
  /\ SourceOfRevision
  /\ VerifiedIsListed

LEMMA NoMigrationTyped ==
  NoMigration \in
       [stage : Stages, dimension : Dimensions, pass : {1, 2}, cursor : Nat,
        repair : SUBSET Memories, source : Sources \cup {NoTask}, failed : BOOLEAN,
        versions : SUBSET (Memories \X Nat)]
  BY EmbeddingAssumption DEF NoMigration, Stages

THEOREM MigrationInitInv == MigrationInit => MigrationInv
  <1> SUFFICES ASSUME MigrationInit PROVE MigrationInv
    OBVIOUS
  <1>1. PublishInv
    BY PublishInitInv DEF MigrationInit
  <1>2. MigrationTypeOK
    BY NoMigrationTyped DEF MigrationInit, MigrationTypeOK
  <1>3. TasksKnowTables /\ TableOfOneDimension
    BY DEF MigrationInit, PublishInit, TasksKnowTables, TableOfOneDimension
  <1>4. NextOfTheirRevision /\ NextOfOneDimension
    BY DEF MigrationInit, NextOfTheirRevision, NextOfOneDimension
  <1>5. SourceOfRevision /\ VerifiedIsListed
    BY SMTT(40) DEF MigrationInit, NoMigration, SourceOfRevision, VerifiedIsListed
  <1> QED
    BY <1>1, <1>2, <1>3, <1>4, <1>5 DEF MigrationInv

-----------------------------------------------------------------------------
(* The steps of writers and tasks                                          *)

\* Rows of other transactions only advance.
LEMMA RowsOnlyAdvance ==
  ASSUME PublishInv, RowStep \/ TaskStep
  PROVE  RowsTyped' /\ \A n \in Memories : RowAdvances(n)
  <1>0. RowsTyped /\ RowsSound
    BY DEF PublishInv, PublishTypeOK, RowsTyped
  <1>1. CASE RowStep
    BY <1>1, RowStepAdvances
  <1>2. CASE UNCHANGED rows
    BY <1>0, <1>2 DEF rows, RowsTyped, RowAdvances
  <1>3. ASSUME NEW w \in Refreshers, NEW m \in Memories, Approve(w, m)
        PROVE  RowsTyped' /\ \A n \in Memories : RowAdvances(n)
    <2>1. CASE status[m] = "pending" /\ UpdateRow(m, "active", text[m])
      BY <1>0, <2>1, UpdateAdvances DEF RowsSound, Stored
    <2> QED
      BY <1>2, <1>3, <2>1 DEF Approve
  <1> QED
    BY <1>1, <1>2, <1>3
    DEF TaskStep, Scan, Take, ReadTable, ReadState, Register, Publish, Drop, Restart

\* While rows advance and the migration rests, what it has stays true.
LEMMA AdvancingKeepsNext ==
  ASSUME MigrationInv, RowsTyped', \A n \in Memories : RowAdvances(n), UNCHANGED <<next, migration>>
  PROVE  NextParts'
  <1> USE DEF MigrationInv
  <1>0. RowsTyped
    BY DEF PublishInv, PublishTypeOK, RowsTyped
  <1>1. MigrationTypeOK' /\ NextOfOneDimension' /\ VerifiedIsListed'
    BY DEF MigrationTypeOK, NextOfOneDimension, VerifiedIsListed
  <1>2. NextOfTheirRevision'
    BY <1>0 DEF NextOfTheirRevision, MigrationTypeOK, Vectors, RowsTyped, RowAdvances
  <1>3. SourceOfRevision'
    <2>1. migration.source \in Sources \cup {NoTask}
      BY DEF MigrationTypeOK
    <2> SUFFICES ASSUME migration.source # NoTask PROVE SourceOfRevision'
      BY DEF SourceOfRevision
    <2>2. migration.source.memory \in Memories /\ migration.source.revision \in Nat
      BY <2>1 DEF Sources
    <2> QED
      BY <1>0, <2>2 DEF SourceOfRevision, RowsTyped, RowAdvances, Stored
  <1> QED
    BY <1>1, <1>2, <1>3 DEF NextParts

\* The tasks keep to their tables: they begin with the current one, and publish
\* into the one they began with.
LEMMA TasksKeepTables ==
  ASSUME MigrationInv, RowStep \/ TaskStep
  PROVE  TasksKnowTables' /\ TableOfOneDimension'
  <1> USE DEF MigrationInv
  <1>0. /\ task \in [Tasks -> TaskStates \cup {NoTask}] /\ table \in TableIds
        /\ vectors \in [Memories -> Vectors \cup {NoVector}]
        /\ Backfill \in Tasks /\ Refreshers \subseteq Tasks
        /\ table.oid <= table.oid
    BY DEF PublishInv, PublishTypeOK, Tasks, TableIds
  <1>1. ASSUME NEW w \in Tasks, NEW m \in Memories, task' = [task EXCEPT ![w] = Started(m)],
               table' = table
        PROVE  TasksKnowTables'
    BY <1>0, <1>1 DEF TasksKnowTables, Started
  <1>2. ASSUME NEW w \in Tasks, task' = [task EXCEPT ![w] = NoTask], table' = table
        PROVE  TasksKnowTables'
    BY <1>0, <1>2 DEF TasksKnowTables
  <1>3. ASSUME task' = task, table' = table PROVE TasksKnowTables'
    BY <1>3 DEF TasksKnowTables
  <1>4. ASSUME vectors' = vectors, table' = table PROVE TableOfOneDimension'
    BY <1>4 DEF TableOfOneDimension
  <1>5. CASE RowStep
    BY <1>3, <1>4, <1>5 DEF RowStep
  <1>6. ASSUME NEW w \in Refreshers, NEW m \in Memories, Approve(w, m)
        PROVE  TasksKnowTables' /\ TableOfOneDimension'
    <2>1. TasksKnowTables'
      BY <1>0, <1>6 DEF Approve, TasksKnowTables
    <2> QED
      BY <1>4, <1>6, <2>1 DEF Approve
  <1>7. CASE Scan
    BY <1>3, <1>4, <1>7 DEF Scan
  <1>8. ASSUME NEW m \in Memories, Take(m) PROVE TasksKnowTables' /\ TableOfOneDimension'
    BY <1>0, <1>1, <1>4, <1>8 DEF Take
  <1>9. ASSUME NEW w \in Tasks, ReadState(w) PROVE TasksKnowTables' /\ TableOfOneDimension'
    <2>1. task[w] \in TaskStates
      BY <1>0, <1>9 DEF ReadState
    <2>2. TasksKnowTables'
      BY <1>0, <1>9, <2>1 DEF ReadState, TasksKnowTables, TaskStates
    <2> QED
      BY <1>4, <1>9, <2>2 DEF ReadState
  <1>10. ASSUME NEW w \in Tasks, Register(w) PROVE TasksKnowTables' /\ TableOfOneDimension'
    <2>1. task[w] \in TaskStates
      BY <1>0, <1>10 DEF Register
    <2>2. TasksKnowTables'
      BY <1>0, <1>10, <2>1 DEF Register, TasksKnowTables, TaskStates
    <2> QED
      BY <1>4, <1>10, <2>2 DEF Register
  <1>11. ASSUME NEW w \in Tasks, Publish(w) PROVE TasksKnowTables' /\ TableOfOneDimension'
    <2>1. TasksKnowTables'
      BY <1>2, <1>11 DEF Publish
    <2>2. VectorOf(task[w]).dimension = table.dimension /\ table' = table
      BY <1>11 DEF Publish, SourceCurrent, VectorOf, TasksKnowTables
    <2>3. TableOfOneDimension'
      BY <1>0, <1>11, <2>2, PublishPreserves DEF TableOfOneDimension
    <2> QED
      BY <2>1, <2>3
  <1>12. ASSUME NEW w \in Tasks, Drop(w) PROVE TasksKnowTables' /\ TableOfOneDimension'
    BY <1>2, <1>4, <1>12 DEF Drop
  <1>13. CASE Restart
    BY <1>4, <1>13 DEF Restart, TasksKnowTables
  <1>14. ASSUME NEW w \in Tasks, ReadTable(w) PROVE TasksKnowTables' /\ TableOfOneDimension'
    <2>1. task[w].memory \in Memories
      BY <1>0, <1>14 DEF ReadTable, TaskStates
    <2> QED
      BY <1>0, <1>1, <1>4, <1>14, <2>1 DEF ReadTable
  <1> QED
    BY <1>5, <1>6, <1>7, <1>8, <1>9, <1>10, <1>11, <1>12, <1>13, <1>14 DEF TaskStep

\* A row is destroyed with all its vectors, while no reviewed table waits.
LEMMA DestroyMigratedPreserves ==
  ASSUME MigrationInv, NEW m \in Memories, DestroyMigrated(m)
  PROVE  MigrationInv'
  <1> USE DEF MigrationInv
  <1>0. /\ status' = [n \in Memories |-> IF n = m THEN "gone" ELSE status[n]]
        /\ text' = [n \in Memories |-> IF n = m THEN NoText ELSE text[n]]
        /\ UNCHANGED <<revision, migration, task, table>>
        /\ vectors' = [vectors EXCEPT ![m] = NoVector]
        /\ next' = [next EXCEPT ![m] = NoVector]
        /\ migration.stage # "verified"
    BY DEF DestroyMigrated, Running, Destroy, DeleteRows, PublishInv, PublishTypeOK
  <1>1. PublishInv'
    BY DestroyPreserves DEF DestroyMigrated
  <1>2. MigrationTypeOK' /\ NextOfTheirRevision' /\ NextOfOneDimension' /\ VerifiedIsListed'
    BY <1>0 DEF MigrationTypeOK, NextOfTheirRevision, NextOfOneDimension, VerifiedIsListed
  <1>3. TasksKnowTables' /\ TableOfOneDimension'
    BY <1>0 DEF TasksKnowTables, TableOfOneDimension, PublishInv, PublishTypeOK
  <1>4. SourceOfRevision'
    <2>1. migration.source \in Sources \cup {NoTask}
      BY DEF MigrationTypeOK
    <2>2. migration.source # NoTask => migration.source.memory \in Memories
      BY <2>1 DEF Sources
    <2> QED
      BY <1>0, <2>2 DEF SourceOfRevision, Stored
  <1> QED
    BY <1>1, <1>2, <1>3, <1>4

-----------------------------------------------------------------------------
(* The steps of the migration                                              *)

\* All steps but the swap leave the tables in use alone.
LEMMA RestingTables ==
  ASSUME MigrationInv, UNCHANGED publishVars
  PROVE  PublishInv' /\ TasksKnowTables' /\ TableOfOneDimension'
  <1>1. PublishInv'
    BY PublishNextInv DEF MigrationInv
  <1> QED
    BY <1>1 DEF MigrationInv, TasksKnowTables, TableOfOneDimension, publishVars

LEMMA BeginPreserves ==
  ASSUME MigrationInv, NEW d \in Dimensions, BeginMigration(d)
  PROVE  MigrationInv'
  <1>1. migration' = [NoMigration EXCEPT !.stage = "filling", !.dimension = d]
    BY DEF BeginMigration
  <1>2. /\ migration'.stage = "filling" /\ migration'.source = NoTask
    BY <1>1 DEF NoMigration
  <1>3. MigrationTypeOK'
    BY <1>1, NoMigrationTyped DEF BeginMigration, MigrationTypeOK, Stages
  <1>4. NextOfTheirRevision' /\ NextOfOneDimension' /\ SourceOfRevision' /\ VerifiedIsListed'
    BY <1>2 DEF BeginMigration, NextOfTheirRevision, NextOfOneDimension, SourceOfRevision,
                VerifiedIsListed
  <1> QED
    BY <1>3, <1>4, RestingTables DEF BeginMigration, MigrationInv

LEMMA ReadSourcePreserves ==
  ASSUME MigrationInv, ReadSource
  PROVE  MigrationInv'
  <1> USE DEF MigrationInv
  <1>0. UNCHANGED <<publishVars, next>> /\ UNCHANGED <<status, text, revision>>
    BY DEF ReadSource, publishVars, rows
  <1>1. PICK m \in Ahead :
          migration' =
            [migration EXCEPT
               !.cursor = m,
               !.source = IF migration.pass = 1 \/ m \in migration.repair
                          THEN [memory |-> m, revision |-> revision[m], text |-> text[m]]
                          ELSE NoTask]
    BY DEF ReadSource
  <1>2. /\ m \in Memories /\ m \in Nat /\ text[m] \in Texts /\ revision[m] \in Nat
    BY MigrationAssumption
    DEF Ahead, Active, Stored, PublishInv, PublishTypeOK, RowsSound
  <1>3. [memory |-> m, revision |-> revision[m], text |-> text[m]] \in Sources
    BY <1>2 DEF Sources
  <1>4. MigrationTypeOK'
    BY <1>0, <1>1, <1>2, <1>3 DEF MigrationTypeOK
  <1>5. /\ migration'.stage = migration.stage /\ migration'.dimension = migration.dimension
        /\ migration'.versions = migration.versions
        /\ migration'.source \in
             {NoTask, [memory |-> m, revision |-> revision[m], text |-> text[m]]}
    BY <1>1 DEF MigrationTypeOK
  <1>6. NextOfTheirRevision' /\ NextOfOneDimension' /\ VerifiedIsListed'
    BY <1>0, <1>5 DEF NextOfTheirRevision, NextOfOneDimension, VerifiedIsListed
  <1>7. SourceOfRevision'
    BY <1>0, <1>2, <1>5 DEF SourceOfRevision, Stored
  <1> QED
    BY <1>0, <1>4, <1>6, <1>7, RestingTables

LEMMA StoreChunksPreserves ==
  ASSUME MigrationInv, StoreChunks
  PROVE  MigrationInv'
  <1> USE DEF MigrationInv
  <1> DEFINE k == migration.source
             v == [revision |-> k.revision, text |-> k.text, dimension |-> migration.dimension]
  <1>0. /\ UNCHANGED publishVars /\ UNCHANGED <<status, text, revision>>
        /\ k \in Sources
        /\ k.memory \in Stored /\ k.revision = revision[k.memory]
        /\ next' = [next EXCEPT ![k.memory] = v]
        /\ migration' = [migration EXCEPT !.source = NoTask]
        /\ migration.stage = "filling"
    BY DEF StoreChunks, publishVars, rows, MigrationTypeOK, Active, Stored, Running
  <1>1. k.memory \in Memories /\ k.revision \in Nat /\ k.text \in Texts /\ v \in Vectors
    BY <1>0 DEF Sources, Vectors, MigrationTypeOK
  <1>2. k.text = text[k.memory]
    BY <1>0, EmbeddingAssumption, MigrationAssumption DEF SourceOfRevision
  <1>3. MigrationTypeOK'
    BY <1>0, <1>1 DEF MigrationTypeOK
  <1>4. /\ migration'.stage = "filling" /\ migration'.source = NoTask
        /\ migration'.dimension = migration.dimension
    BY <1>0 DEF MigrationTypeOK
  <1>5. NextOfTheirRevision'
    BY <1>0, <1>1, <1>2 DEF NextOfTheirRevision, MigrationTypeOK, PublishInv, PublishTypeOK
  <1>6. NextOfOneDimension' /\ SourceOfRevision' /\ VerifiedIsListed'
    BY <1>0, <1>1, <1>4
    DEF NextOfOneDimension, SourceOfRevision, VerifiedIsListed, MigrationTypeOK
  <1> QED
    BY <1>0, <1>3, <1>5, <1>6, RestingTables

LEMMA MissChunksPreserves ==
  ASSUME MigrationInv, MissChunks
  PROVE  MigrationInv'
  <1> USE DEF MigrationInv
  <1>0. UNCHANGED <<publishVars, next>> /\ UNCHANGED <<status, text, revision>>
    BY DEF MissChunks, publishVars, rows
  <1>1. MigrationTypeOK'
    BY DEF MissChunks, MigrationTypeOK
  <1>2. /\ migration'.source = NoTask /\ migration'.stage = migration.stage
        /\ migration'.dimension = migration.dimension
        /\ migration'.versions = migration.versions
    BY DEF MissChunks, MigrationTypeOK
  <1>3. NextOfTheirRevision' /\ NextOfOneDimension' /\ SourceOfRevision' /\ VerifiedIsListed'
    BY <1>0, <1>2 DEF NextOfTheirRevision, NextOfOneDimension, SourceOfRevision, VerifiedIsListed
  <1> QED
    BY <1>0, <1>1, <1>3, RestingTables

\* The review lists exactly what the next table holds.
LEMMA VerifyPreserves ==
  ASSUME MigrationInv, Verify
  PROVE  MigrationInv'
  <1> USE DEF MigrationInv
  <1>0. /\ UNCHANGED <<publishVars, next>> /\ UNCHANGED <<status, text, revision>>
        /\ Stale = {} /\ migration.source = NoTask
        /\ migration' = [migration EXCEPT !.stage = "verified", !.versions = Versions]
    BY DEF Verify, Scanned, publishVars, rows
  <1>1. Versions \in SUBSET (Memories \X Nat)
    BY DEF Versions, Active, PublishInv, PublishTypeOK
  <1>2. MigrationTypeOK'
    BY <1>0, <1>1 DEF MigrationTypeOK, Stages
  <1>3. /\ migration'.source = NoTask /\ migration'.stage = "verified"
        /\ migration'.dimension = migration.dimension
        /\ migration'.versions = Versions
        /\ migration.stage = "filling"
    BY <1>0 DEF MigrationTypeOK, Verify, Scanned, Running
  <1>4. NextOfTheirRevision' /\ NextOfOneDimension' /\ SourceOfRevision'
    BY <1>0, <1>3 DEF NextOfTheirRevision, NextOfOneDimension, SourceOfRevision
  <1>5. ASSUME NEW m \in Memories
        PROVE  /\ \A r \in Nat : <<m, r>> \in Versions => next[m] # NoVector /\ next[m].revision = r
               /\ next[m] # NoVector => \E r \in Nat : <<m, r>> \in Versions
    <2>1. m \in Active => next[m] # NoVector /\ next[m].revision = revision[m]
      BY <1>0 DEF Stale
    <2>2. m \notin Active => next[m] = NoVector
      BY <1>0 DEF Stale
    <2>3. revision[m] \in Nat
      BY DEF PublishInv, PublishTypeOK
    <2>4. \A r : <<m, r>> \in Versions <=> m \in Active /\ r = revision[m]
      BY DEF Versions
    <2> QED
      BY <2>1, <2>2, <2>3, <2>4
  <1>6. VerifiedIsListed'
    BY <1>0, <1>3, <1>5 DEF VerifiedIsListed
  <1> QED
    BY <1>0, <1>2, <1>4, <1>6, RestingTables

LEMMA RepairPreserves ==
  ASSUME MigrationInv, Repair
  PROVE  MigrationInv'
  <1> USE DEF MigrationInv
  <1>0. /\ UNCHANGED publishVars /\ UNCHANGED <<status, text, revision>>
        /\ next' = [m \in Memories |-> IF m \in Stale THEN NoVector ELSE next[m]]
        /\ migration' = [migration EXCEPT !.pass = 2, !.cursor = 0, !.repair = Stale]
        /\ migration.stage = "filling" /\ migration.source = NoTask
    BY DEF Repair, Scanned, Running, publishVars, rows
  <1>1. Stale \subseteq Memories
    BY DEF Stale, Active
  <1>2. MigrationTypeOK'
    BY <1>0, <1>1 DEF MigrationTypeOK
  <1>3. /\ migration'.source = NoTask /\ migration'.stage = "filling"
        /\ migration'.dimension = migration.dimension
    BY <1>0 DEF MigrationTypeOK
  <1>4. NextOfTheirRevision' /\ NextOfOneDimension' /\ SourceOfRevision' /\ VerifiedIsListed'
    BY <1>0, <1>3 DEF NextOfTheirRevision, NextOfOneDimension, SourceOfRevision, VerifiedIsListed
  <1> QED
    BY <1>0, <1>2, <1>4, RestingTables

LEMMA FailPreserves ==
  ASSUME MigrationInv, FailMigration
  PROVE  MigrationInv'
  <1> USE DEF MigrationInv
  <1>0. /\ UNCHANGED <<publishVars, next>> /\ UNCHANGED <<status, text, revision>>
        /\ migration' = NoMigration
    BY DEF FailMigration, publishVars, rows
  <1>1. MigrationTypeOK'
    BY <1>0, NoMigrationTyped DEF MigrationTypeOK
  <1>2. NextOfTheirRevision' /\ NextOfOneDimension' /\ SourceOfRevision' /\ VerifiedIsListed'
    BY <1>0
    DEF NoMigration, NextOfTheirRevision, NextOfOneDimension, SourceOfRevision, VerifiedIsListed
  <1> QED
    BY <1>0, <1>1, <1>2, RestingTables

\* What the swap puts in place, by the review and the versions still the same.
LEMMA SwapComplete ==
  ASSUME MigrationInv, Swap, NEW m \in Memories
  PROVE  IF m \in Active
         THEN /\ vectors'[m] # NoVector
              /\ vectors'[m].revision = revision[m] /\ vectors'[m].text = text[m]
         ELSE vectors'[m] = NoVector
  <1> USE DEF MigrationInv
  <1>0. Versions = migration.versions /\ vectors' = next /\ migration.stage = "verified"
    BY DEF Swap, Running
  <1>1. revision[m] \in Nat
    BY DEF PublishInv, PublishTypeOK
  <1>2. \A r : <<m, r>> \in Versions <=> m \in Active /\ r = revision[m]
    BY DEF Versions
  <1>3. CASE m \in Active
    BY <1>0, <1>1, <1>2, <1>3 DEF VerifiedIsListed, NextOfTheirRevision
  <1>4. CASE m \notin Active
    BY <1>0, <1>2, <1>4 DEF VerifiedIsListed
  <1> QED
    BY <1>3, <1>4

LEMMA SwapPreserves ==
  ASSUME MigrationInv, Swap
  PROVE  MigrationInv'
  <1> USE DEF MigrationInv
  <1>0. /\ UNCHANGED <<status, text, revision, edited, target, task, todo>>
        /\ table' = [oid |-> table.oid + 1, dimension |-> migration.dimension]
        /\ vectors' = next
        /\ next' = [m \in Memories |-> NoVector]
        /\ migration' = NoMigration
        /\ migration.stage = "verified"
        /\ table.oid \in Nat
    BY DEF Swap, rows, Running, PublishInv, PublishTypeOK, TableIds
  <1>1. PublishInv'
    <2>1. PublishTypeOK'
      BY <1>0 DEF PublishInv, PublishTypeOK, MigrationTypeOK, TableIds
    <2>2. RowsSound' /\ VectorsOfTheirRevision'
      BY <1>0 DEF PublishInv, RowsSound, Stored, VectorsOfTheirRevision, NextOfTheirRevision
    <2> QED
      BY <2>1, <2>2 DEF PublishInv
  <1>2. MigrationTypeOK'
    BY <1>0, NoMigrationTyped DEF MigrationTypeOK
  <1>3. TasksKnowTables'
    <2> SUFFICES ASSUME NEW w \in Tasks, task[w] # NoTask /\ task[w].stage # "spawned"
                 PROVE  task[w].table.oid <= table.oid + 1 /\ task[w].table.oid # table.oid + 1
      BY <1>0 DEF TasksKnowTables
    <2>1. task[w].table.oid \in Nat /\ task[w].table.oid <= table.oid
      BY DEF TasksKnowTables, PublishInv, PublishTypeOK, TaskStates, TableIds
    <2> QED
      BY <1>0, <2>1
  <1>4. TableOfOneDimension'
    BY <1>0 DEF TableOfOneDimension, NextOfOneDimension
  <1>5. NextOfTheirRevision' /\ NextOfOneDimension' /\ SourceOfRevision' /\ VerifiedIsListed'
    BY <1>0
    DEF NoMigration, NextOfTheirRevision, NextOfOneDimension, SourceOfRevision, VerifiedIsListed
  <1> QED
    BY <1>1, <1>2, <1>3, <1>4, <1>5

-----------------------------------------------------------------------------
(* The theorems                                                            *)

THEOREM MigrationNextInv == MigrationInv /\ [MigrationNext]_migrationVars => MigrationInv'
  <1> SUFFICES ASSUME MigrationInv, [MigrationNext]_migrationVars PROVE MigrationInv'
    OBVIOUS
  <1>1. CASE UNCHANGED migrationVars
    <2>1. UNCHANGED <<publishVars, next, migration>> /\ UNCHANGED <<status, text, revision>>
      BY <1>1 DEF migrationVars, publishVars, rows
    <2>2. NextParts'
      BY <2>1
      DEF MigrationInv, NextParts, MigrationTypeOK, NextOfTheirRevision, NextOfOneDimension,
          SourceOfRevision, VerifiedIsListed, Stored
    <2> QED
      BY <2>1, <2>2, RestingTables DEF MigrationInv, NextParts
  <1>2. CASE (RowStep \/ TaskStep) /\ UNCHANGED <<next, migration>>
    <2>1. PublishInv'
      BY <1>2, PublishNextInv DEF MigrationInv, PublishNext
    <2>2. NextParts'
      BY <1>2, RowsOnlyAdvance, AdvancingKeepsNext DEF MigrationInv
    <2> QED
      BY <1>2, <2>1, <2>2, TasksKeepTables DEF MigrationInv, NextParts
  <1>3. ASSUME NEW m \in Memories, DestroyMigrated(m) PROVE MigrationInv'
    BY <1>3, DestroyMigratedPreserves
  <1>4. CASE MigrationStep
    BY <1>4, BeginPreserves, ReadSourcePreserves, StoreChunksPreserves, MissChunksPreserves,
       VerifyPreserves, RepairPreserves, SwapPreserves, FailPreserves
    DEF MigrationStep
  <1> QED
    BY <1>1, <1>2, <1>3, <1>4 DEF MigrationNext

THEOREM MigrationInvariance == MigrationSpec => []MigrationInv
  BY MigrationInitInv, MigrationNextInv, PTL DEF MigrationSpec

\* The current table never holds a vector of another dimension than its own.
THEOREM OneDimension == MigrationSpec => []TableOfOneDimension
  <1>1. MigrationInv => TableOfOneDimension
    BY DEF MigrationInv
  <1> QED
    BY <1>1, MigrationInvariance, PTL

\* Only a swap changes the identity of the table, and it is complete.
THEOREM SwapsAreComplete == MigrationSpec => SwapIsComplete
  <1>1. MigrationInv /\ [MigrationNext]_migrationVars
          => [table'.oid # table.oid =>
                \A m \in Memories :
                  IF m \in Active
                  THEN /\ vectors'[m] # NoVector
                       /\ vectors'[m].revision = revision[m] /\ vectors'[m].text = text[m]
                  ELSE vectors'[m] = NoVector]_migrationVars
    <2> SUFFICES ASSUME MigrationInv, MigrationNext, table'.oid # table.oid PROVE Swap
      BY SwapComplete
    <2> QED
      BY DEF MigrationNext, MigrationStep, DestroyMigrated, Destroy, RowStep, TaskStep, Approve,
             Scan, Take, ReadTable, ReadState, Register, Publish, Drop, Restart,
             BeginMigration, ReadSource, StoreChunks, MissChunks, Verify, Repair, FailMigration, publishVars
  <1> QED
    BY <1>1, MigrationInvariance, PTL DEF MigrationSpec, SwapIsComplete

=============================================================================
