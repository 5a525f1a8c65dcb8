---------------------------- MODULE MCFileContent ----------------------------
(* Instances of FileContent for TLC.                                           *)
EXTENDS FileContent, TLC, Bitwise

BitXor(a, b) == a ^^ b

TwoBits == 0..3

DownloadSymmetry == Permutations(Downloads)
=============================================================================
