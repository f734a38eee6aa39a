--------------------------- MODULE MCPublication ---------------------------
(* The publication of releases and channels on small instances. *)
EXTENDS Publication, TLC

CONSTANTS c1, c2, r1, r2, stable

\* Two commits of the branch, the second a child of the first.
MCOlder == {<<c1, c1>>, <<c2, c2>>, <<c1, c2>>}

\* The first commit puts the channel on the first release, the next one on the second.
MCConfig == (c1 :> (stable :> r1)) @@ (c2 :> (stable :> r2))

\* Which files a rotation may find due: any, or few where requests interleave.
MCAllDues  == SUBSET Roles
MCSomeDues == {{}, {"timestamp"}, {"snapshot", "timestamp"}, {"targets", "timestamp"}, {"root"}}
MCFewDues  == {{}, {"timestamp"}}

\* Requests are interchangeable; used where no liveness property is checked.
Symmetry == Permutations(Requests)
=============================================================================
