----------------------------- MODULE MCWorkerPool -----------------------------
(* Values for model checking WorkerPool.                                     *)
EXTENDS WorkerPool, TLC

CONSTANTS w1, w2, w3, w4, c1, c2, c3

Workers4 == {w1, w2, w3, w4}
Conns2 == {c1, c2}
Conns3 == {c1, c2, c3}

(* The specification treats workers, and connections, alike.  Used for the   *)
(* safety runs only.                                                         *)
Symmetry == Permutations(Workers4) \cup Permutations(Conns3)

================================================================================
