------------------------- MODULE EmbeddingMigration -------------------------
(***************************************************************************)
(* The change of dimension by prepare-embedding-next, with the embedding   *)
(* tasks of EmbeddingPublish and all writers going on.                     *)
(*                                                                         *)
(* The command holds an advisory lock, so one migration runs at a time.    *)
(* It fills memory_embeddings_next memory by memory in the order of the    *)
(* uuids, reviews the whole, repairs once what has changed meanwhile,      *)
(* builds the index, and swaps the tables in one transaction if the set of *)
(* active memories and their revisions are still those it reviewed.  Every *)
(* step may fail or the process die; the next run starts from nothing.     *)
(***************************************************************************)
EXTENDS EmbeddingPublish

CONSTANT MaxTables   (* bound: tables created by successful swaps, and the first *)

VARIABLES
  next,      (* memory_embeddings_next, the vectors of each memory              *)
  migration  (* the progress of the running command                             *)

migrationVars == <<publishVars, next, migration>>

NoMigration ==
  [stage |-> "none", dimension |-> FirstDimension, pass |-> 1, cursor |-> 0,
   repair |-> {}, source |-> NoTask, failed |-> FALSE, versions |-> {}]

Sources == [memory : Memories, revision : Nat, text : Texts]

ASSUME MigrationAssumption ==
  /\ Memories \subseteq Nat \ {0}   \* uuids are ordered
  /\ MaxTables \in Nat
  /\ NoTask \notin Sources

MigrationInit ==
  /\ PublishInit
  /\ next = [m \in Memories |-> NoVector]
  /\ migration = NoMigration

Running(stage) == migration.stage = stage

-----------------------------------------------------------------------------
\* create_memory_embeddings_next() drops what an earlier run has left; it
\* refuses the dimension of the current table.
BeginMigration(d) ==
  /\ Running("none")
  /\ table.oid < MaxTables
  /\ d # table.dimension
  /\ next' = [m \in Memories |-> NoVector]
  /\ migration' = [NoMigration EXCEPT !.stage = "filling", !.dimension = d]
  /\ UNCHANGED publishVars

Ahead == {m \in Active : m > migration.cursor}

\* The next active memory by uuid: text and revision in one statement.  The
\* repairing pass skips what it need not make again.
ReadSource ==
  /\ Running("filling") /\ migration.source = NoTask
  /\ \E m \in Ahead :
       /\ \A n \in Ahead : m <= n
       /\ migration' =
            [migration EXCEPT
               !.cursor = m,
               !.source = IF migration.pass = 1 \/ m \in migration.repair
                          THEN [memory |-> m, revision |-> revision[m], text |-> text[m]]
                          ELSE NoTask]
  /\ UNCHANGED <<publishVars, next>>

\* store_chunks(), under FOR SHARE on the row of the memory.
StoreChunks ==
  LET k == migration.source IN
  /\ Running("filling") /\ k # NoTask
  /\ k.memory \in Active \ Unembeddable /\ revision[k.memory] = k.revision
  /\ next' = [next EXCEPT ![k.memory] =
       [revision |-> k.revision, text |-> k.text, dimension |-> migration.dimension]]
  /\ migration' = [migration EXCEPT !.source = NoTask]
  /\ UNCHANGED publishVars

\* No vectors for this memory: its row has changed or the provider failed.  The
\* scan goes on, the run is lost.
MissChunks ==
  /\ Running("filling") /\ migration.source # NoTask
  /\ migration' = [migration EXCEPT !.source = NoTask, !.failed = TRUE]
  /\ UNCHANGED <<publishVars, next>>

\* The stale memories of the review of the whole table, in one snapshot.
Stale ==
  {m \in Active : next[m] = NoVector \/ next[m].revision # revision[m]}
    \cup {m \in Memories \ Active : next[m] # NoVector}

Versions == {<<m, revision[m]>> : m \in Active}

Scanned == Running("filling") /\ migration.source = NoTask /\ Ahead = {} /\ ~migration.failed

\* All is well: the index is built, which keeps rows from leaving the table.
Verify ==
  /\ Scanned /\ Stale = {}
  /\ migration' = [migration EXCEPT !.stage = "verified", !.versions = Versions]
  /\ UNCHANGED <<publishVars, next>>

\* The first review found stale memories: they are made again, once.
Repair ==
  /\ Scanned /\ migration.pass = 1 /\ Stale # {}
  /\ next' = [m \in Memories |-> IF m \in Stale THEN NoVector ELSE next[m]]
  /\ migration' = [migration EXCEPT !.pass = 2, !.cursor = 0, !.repair = Stale]
  /\ UNCHANGED publishVars

\* Mutant: the versions are not compared again under the locks.
SwapUnseen ==
  /\ Running("verified")
  /\ table' = [oid |-> table.oid + 1, dimension |-> migration.dimension]
  /\ vectors' = next
  /\ next' = [m \in Memories |-> NoVector]
  /\ migration' = NoMigration
  /\ UNCHANGED <<rows, edited, target, task, todo>>

\* The transaction that renames the tables and updates the configuration.
Swap ==
  /\ Running("verified")
  /\ Versions = migration.versions
  /\ table' = [oid |-> table.oid + 1, dimension |-> migration.dimension]
  /\ vectors' = next
  /\ next' = [m \in Memories |-> NoVector]
  /\ migration' = NoMigration
  /\ UNCHANGED <<rows, edited, target, task, todo>>

\* Any error and any crash: locks and transaction go, the next table stays.
FailMigration ==
  /\ ~Running("none")
  /\ migration' = NoMigration
  /\ UNCHANGED <<publishVars, next>>

\* The foreign key cascade into the next table waits for the index build.
DestroyMigrated(m) ==
  /\ ~Running("verified")
  /\ Destroy(m)
  /\ next' = [next EXCEPT ![m] = NoVector]
  /\ UNCHANGED migration

MigrationStep ==
  \/ \E d \in Dimensions : BeginMigration(d)
  \/ ReadSource
  \/ StoreChunks
  \/ MissChunks
  \/ Verify
  \/ Repair
  \/ Swap
  \/ FailMigration

MigrationNext ==
  \/ MigrationStep
  \/ \E m \in Memories : DestroyMigrated(m)
  \/ (RowStep \/ TaskStep) /\ UNCHANGED <<next, migration>>

MigrationSpec == MigrationInit /\ [][MigrationNext]_migrationVars

-----------------------------------------------------------------------------
(* Properties                                                              *)

\* The vectors of a table are all of its dimension: a task that has begun with
\* the old table never publishes into the new one, or every distance computed
\* with them would be an error.
TableOfOneDimension ==
  \A m \in Memories : vectors[m] # NoVector => vectors[m].dimension = table.dimension

\* A swap loses nothing and revives nothing: at that moment every active memory
\* has vectors of its current revision and text, and no other memory has any,
\* whatever was edited, approved, trashed or destroyed during the migration.
SwapIsComplete ==
  [][table'.oid # table.oid =>
       \A m \in Memories :
         IF m \in Active
         THEN /\ vectors'[m] # NoVector
              /\ vectors'[m].revision = revision[m] /\ vectors'[m].text = text[m]
         ELSE vectors'[m] = NoVector]_migrationVars
=============================================================================
