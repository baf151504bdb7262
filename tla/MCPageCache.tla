---------------------------- MODULE MCPageCache ----------------------------
(* Model checking of PageCache: replicas and calls are interchangeable. *)
EXTENDS PageCache, TLC

Symmetry == Permutations(Calls) \cup Permutations(Replicas)

(* A Redis that has no page yet: whatever is cached later was put by the calls of the run. *)
Cold == \A x \in Caches, c \in Cursors : entry[x][c] = Miss

ColdSpec == Init /\ Cold /\ [][Next]_vars
=============================================================================
