---------------------------- MODULE MCAtomicFile ----------------------------
(* Instances of AtomicFile: all versions are alike.             *)
EXTENDS AtomicFile, TLC

MCSymmetry == Permutations(Version)
=============================================================================
