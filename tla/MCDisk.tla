-------------------------------- MODULE MCDisk --------------------------------
(* Small instances of Disk: one or two pins, and one cluster more than files   *)
(* to move to.                                                                 *)
EXTENDS Disk, TLC
CONSTANTS p1, p2, o, c1, c2, c3, c4, c5, c6, off, on, text
Symmetry == Permutations(Clusters)
=============================================================================
