--------------------------- MODULE MCSimilarity ---------------------------
(***************************************************************************)
(* An instance of Similarity: three checks on two threads, one of them     *)
(* with two reference images.                                              *)
(***************************************************************************)
EXTENDS Similarity

Images == << 1, 1, 2 >>
=============================================================================
