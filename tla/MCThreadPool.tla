--------------------------- MODULE MCThreadPool ---------------------------
(* The safety run of ThreadPool.  Workers start alike and no action prefers  *)
(* one to another: their order in the stack of threads is state.             *)
EXTENDS ThreadPool, TLC

WorkerSymmetry == Permutations(Workers)
=============================================================================
