------------------------ MODULE MCConcurrencyPools ------------------------
(* Instances of ConcurrencyPools: one pool, two runs, two or three steps. *)
EXTENDS ConcurrencyPools, TLC

CONSTANTS r1, r2, s1, s2, s3, k1, i1, i2, i3

\* Slot ids are interchangeable: the order of ids only picks a row to prune.
SlotSymmetry == Permutations(SlotIds)

RunOf2    == (s1 :> r1) @@ (s2 :> r2)
PoolOf2   == (s1 :> k1) @@ (s2 :> k1)
Priority2 == (s1 :> 0) @@ (s2 :> 0)

RunOf1    == (s1 :> r1) @@ (s2 :> r1)

RunOf3    == (s1 :> r1) @@ (s2 :> r2) @@ (s3 :> r2)
PoolOf3   == (s1 :> k1) @@ (s2 :> k1) @@ (s3 :> k1)
Priority3 == (s1 :> 0) @@ (s2 :> 0) @@ (s3 :> 1)
===========================================================================
