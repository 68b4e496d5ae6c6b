--------------------------------- MODULE MCBio --------------------------------
(* Instances of Bio for TLC.                                               *)
EXTENDS Bio, TLC

CONSTANTS k1, k2, k3, k4

\* k1 is a block of the log, read before the block it is a copy of; k2 is an
\* indirect block, held while the bitmap and a new block are read.
Order == {<<k1, k2>>, <<k1, k3>>, <<k1, k4>>, <<k2, k3>>, <<k2, k4>>}
\* The processes are alike, and so are the blocks that nothing is read under.
Symmetry == Permutations(Proc) \union Permutations({k3, k4})
====
