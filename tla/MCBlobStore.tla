---------------------------- MODULE MCBlobStore ----------------------------
(***************************************************************************)
(* Instances of BlobStore for TLC.  Writers are interchangeable, and so    *)
(* are readers and documents.                                              *)
(***************************************************************************)
EXTENDS BlobStore, TLC

CONSTANTS w1, w2, d1, d2, c1

Symmetry == Permutations(Writers) \cup Permutations(Readers) \cup Permutations(Documents)
=============================================================================
