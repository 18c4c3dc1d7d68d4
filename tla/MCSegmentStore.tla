--------------------------- MODULE MCSegmentStore ---------------------------
(* One camera, recorded by one run after another, and two concurrent purges;  *)
(* two files are there already, and the older one is locked.                  *)
EXTENDS SegmentStore, TLC
CONSTANTS r1, u1, u2

MCRank   == r1 :> 1
MCOld    == {<<r1, 0>>, <<r1, 1>>}
MCLocked == {<<r1, 0>>}
=============================================================================
