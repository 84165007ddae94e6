---- MODULE MCVectorStore ----
(* Instances of VectorStore for TLC; the .cfg files give the constants. *)
EXTENDS VectorStore, TLC

Symmetry == Permutations(Threads) \union Permutations(Docs) \union Permutations(Locks)
====
