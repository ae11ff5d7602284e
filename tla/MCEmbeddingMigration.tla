------------------------ MODULE MCEmbeddingMigration ------------------------
(***************************************************************************)
(* The instance of EmbeddingMigration for TLC.  The uuids are numbers, for *)
(* their order is the order of the scan, so there is no symmetry in them.  *)
(***************************************************************************)
EXTENDS EmbeddingMigration

\* Bound: one task beside the migration.  Tasks meet only in the targets, which
\* a migration leaves alone; EmbeddingPublish runs with two.
OneTask == \A v, w \in Tasks : task[v] # NoTask /\ task[w] # NoTask => v = w
=============================================================================
