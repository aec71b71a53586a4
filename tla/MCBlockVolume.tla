--------------------------- MODULE MCBlockVolume ---------------------------
(***************************************************************************)
(* Constants of the model-checking runs of BlockVolume.                    *)
(***************************************************************************)
EXTENDS BlockVolume, TLC

CONSTANTS v1, v2, v3, s1

\* A volume, a snapshot of it, and a clone of the snapshot.
Chain == [o \in Object |-> CASE o = s1 -> v1
                             [] o = v2 -> s1
                             [] OTHER -> NoObject]

\* The chain, and a second clone, of the volume itself.
Family == [o \in Object |-> IF o = v3 THEN v1 ELSE Chain[o]]

Reads == {"GetVolumeByName", "GetVolume", "GetVolumesByParentID", "GetMetadata"}
Writes == {"CreateVolume", "CreateSnapshotVolume", "PromoteSnapshot", "PutMetadata",
           "DeleteMetadata", "DeleteVolume"}
Everything == Reads \cup Writes \cup {"crash"}

Symmetry == Permutations(Worker)
=============================================================================
