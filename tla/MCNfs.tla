------------------------------- MODULE MCNfs -------------------------------
(***************************************************************************)
(* Constants of the model-checking runs of Nfs.                            *)
(***************************************************************************)
EXTENDS Nfs, TLC

CONSTANTS v1, v2, s1, n1, n2, a, b, c, d

\* A volume, a snapshot of it, and a clone of the snapshot.
Chain == [o \in Object |-> CASE o = s1 -> v1
                             [] o = v2 -> s1
                             [] OTHER -> NoObject]

\* A volume and a snapshot of it, and another volume.
Pair == [o \in Object |-> IF o = s1 THEN v1 ELSE NoObject]

\* The class of v1 lists a client, that of v2 leaves the rules to the nodes.
Classes == [v \in Volume |-> IF v = v1 THEN {Other} ELSE {}]

\* The nodes make all the rules.
Unset == [v \in Volume |-> {}]

\* Pods of both volumes on the first node, two of them of one volume, and one
\* on the second node.
Pods == [p \in Pod |-> CASE p = a -> <<v1, n1>>
                         [] p = d -> <<v2, n2>>
                         [] OTHER -> <<v2, n1>>]

\* A pod of the volume on each node.
Replicas == [p \in Pod |-> IF p = a THEN <<v1, n1>> ELSE <<v1, n2>>]

Reads == {"GetFileSystemByName", "GetFileSystemByID", "GetFileSystemsByParentID",
          "GetExportsByFileSystemID", "GetExportByID", "GetMetadata"}
Writes == {"CreateFileSystem", "CreateFileSystemSnapshot", "CreateExport", "PutMetadata",
           "DeleteExport", "DeleteMetadata", "DeleteFileSystem", "UpdateExportPermissions"}
Everything == Reads \cup Writes \cup {"Mount", "Unmount", "crash"}

Symmetry == Permutations(Worker)
=============================================================================
