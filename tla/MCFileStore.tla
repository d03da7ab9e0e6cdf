----------------------------- MODULE MCFileStore -----------------------------
(* Finite instances of FileStore: savers, and readers, are interchangeable. *)
EXTENDS FileStore, TLC

StoreSymmetry == Permutations(Savers) \union Permutations(Readers)
==============================================================================
