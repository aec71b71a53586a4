------------------------------ MODULE MCTreeq ------------------------------
(***************************************************************************)
(* Constants of the model-checking runs of Treeq.                          *)
(***************************************************************************)
EXTENDS Treeq, TLC

RequestOne == [v \in Volume |-> 1]

Reads == {"GetFileSystemsByPool", "GetTreeqByName", "GetExportsByFileSystemID",
          "GetNetworkSpaceByName", "GetTreeqsByFileSystem", "GetTreeq",
          "GetFileSystemByID"}
Writes == {"CreateFileSystem", "CreateExport", "PutMetadata", "DeleteExport",
           "DeleteFileSystem", "CreateTreeq", "DeleteTreeq", "UpdateFileSystem",
           "DeleteMetadata", "UpdateTreeq", "UpdateTreeqCnt"}
Everything == Reads \cup Writes \cup {"ErrNotFound", "crash"}

\* Calls whose failure the service undoes, and the reads.
Undone == (Reads \ {"GetExportsByFileSystemID"})
             \cup {"CreateExport", "PutMetadata", "DeleteExport", "CreateTreeq"}

\* Volumes and filesystem IDs carry no order and no meaning.
Symmetry == Permutations(Volume) \cup Permutations(FileSystem) \cup Permutations(Worker)
=============================================================================
