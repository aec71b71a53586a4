----------------------------- MODULE MCHostMap -----------------------------
(***************************************************************************)
(* Constants of the model-checking runs of HostMap.                        *)
(***************************************************************************)
EXTENDS HostMap, TLC

Transport == {"GetVolume", "GetHostByName", "CreateHost", "PutMetadata", "GetAllLunByHost",
              "MapVolumeToHost", "GetNodes", "UnMapVolumeFromHost", "GetMetadata", "DeleteHost"}
Everything == Transport \cup {"crash"}
ErrorAnswer == {"GetHostByName answers with an error"}
All == Everything \cup ErrorAnswer

Symmetry == Permutations(Worker) \cup Permutations(Volume)
=============================================================================
