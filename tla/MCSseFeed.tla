----------------------------- MODULE MCSseFeed -----------------------------
(* Instances of SseFeed. Pages are interchangeable.                         *)
EXTENDS SseFeed, TLC

PageSymmetry == Permutations(Pages)
=============================================================================
