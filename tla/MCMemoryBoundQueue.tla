------------------------- MODULE MCMemoryBoundQueue -------------------------
(* Two emitting or sending threads, items of three sizes, one of them      *)
(* larger than the bound.                                                  *)
EXTENDS MemoryBoundQueue, TLC
CONSTANTS t1, t2, small, large, huge
Threads == {t1, t2}
Items == {small, large, huge}
Sizes == (small :> 1) @@ (large :> 2) @@ (huge :> 5)
SymmetryThreads == Permutations(Threads)
=============================================================================
