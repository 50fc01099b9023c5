---------------------------- MODULE MCFileStore ----------------------------
(* Instances of FileStore for TLC.                                          *)
EXTENDS FileStore, TLC

CONSTANTS b1, b2,  \* beacons
          s1, s2   \* sources

PlainSegments == b1 :> <<b1>> @@ b2 :> <<b2>>

(* Nothing tells two plain beacons, or two sources, apart.                  *)
Symmetry == Permutations({b1, b2}) \cup Permutations({s1, s2})
=============================================================================
