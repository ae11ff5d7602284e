------------------------- MODULE MCEmbeddingPublish -------------------------
(***************************************************************************)
(* The instances of EmbeddingPublish for TLC.                              *)
(***************************************************************************)
EXTENDS EmbeddingPublish
=============================================================================
