-------------------------- MODULE MCArtifactStream --------------------------
(* ArtifactStream with two writers, in processes of different numbers and   *)
(* of the same number, and an artifact of two planes.  *)
EXTENDS ArtifactStream, TLC

CONSTANTS w1, w2, data, aux

MCWriter == {w1, w2}
OwnTemporary(w) == IF w = w1 THEN "artifact.tmp.1" ELSE "artifact.tmp.2"
SharedTemporary(w) == "artifact.tmp.1"

MCPlane == {data, aux}
MCSize == [p \in MCPlane |-> 1]

Files == Permutations(Inode)
=============================================================================
