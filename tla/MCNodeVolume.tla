---------------------------- MODULE MCNodeVolume ----------------------------
(***************************************************************************)
(* Constants of the model-checking run of NodeVolume.                      *)
(***************************************************************************)
EXTENDS NodeVolume, TLC

Commands == {"iscsiadm discover", "iscsiadm login", "nvme", "RescanDeviceMap",
             "GetDMDevicePath", "MountLogic", "CreateConfigFile", "mount", "chown", "umount", "CleanupOldMountDirectory",
             "LoadDiskInfoFromFile", "RemoveAll", "FindDevicesForMpath", "MultipathFlush",
             "DetachDiskByDeviceName", "RemoveJson", "LogoutAllSessions", "FindMultipathDevice",
             "RescanPaths", "ResizeMap", "ExpandFileSystem"}
RestCalls == {"AddPortForHost", "AddHostSecurity", "GetNetworkSpaceByName", "GetFCPorts"}
Everything == Commands \cup RestCalls \cup {"deadline", "crash"}

CONSTANTS v1, v2, a, c

UsesOf == a :> v1 @@ c :> v2

\* Two volumes of one transport share its LUNs and its session; two of
\* different transports share the maps and the mounts.
Protocols == {<<"iscsi", "iscsi">>, <<"fc", "fc">>, <<"nvme", "nvme">>, <<"iscsi", "fc">>, <<"fc", "iscsi">>}
MCInit == Init /\ <<proto[v1], proto[v2]>> \in Protocols
MCSpec == MCInit /\ [][Next]_vars
=============================================================================
