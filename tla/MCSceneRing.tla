---------------------------- MODULE MCSceneRing ----------------------------
(* Instances of SceneRing for TLC: slots are interchangeable.              *)
EXTENDS SceneRing, TLC

CONSTANTS l1, s1, s2, s3

SlotSymmetry == Permutations(Slots)

=============================================================================
