---------------------------- MODULE NodeVolume -----------------------------
(***************************************************************************)
(* The node plugin (service/node.go and the iscsi, fc and nvme nodes):     *)
(* staging, publishing, unpublishing, unstaging and expanding the block    *)
(* volumes of one node, down to its sessions, SCSI disks, multipath maps,  *)
(* mounts and the JSON file that remembers the map of a staged volume.     *)
(*                                                                         *)
(* One global mutex serialises the calls; sync.Mutex serves a waiter of    *)
(* more than a millisecond in turn, so the calls form a queue whose head   *)
(* holds the mutex.  A call the kubelet gave up stays in the queue and     *)
(* runs when its turn comes, but its context is expired: REST calls fail.  *)
(***************************************************************************)
EXTENDS Naturals, Sequences, FiniteSets, Calls

CONSTANTS
    Volume,         \* volumes; a volume's WWID and the name of its map
    Pod,            \* pods; a pod names its target path
    Uses,           \* Uses[p]: the volume pod p mounts
    Block,          \* volumes published as raw devices
    Chap,           \* volumes whose storage class asks for CHAP
    Lun,            \* LUNs of the node's host
    Growing,        \* volumes whose storage class allows expansion
    MaxSize,        \* bound on the size of a volume
    None

ASSUME UsesAssumption == Uses \in [Pod -> Volume] /\ Block \cup Chap \cup Growing \subseteq Volume
ASSUME LunAssumption == Lun \subseteq Nat /\ IsFiniteSet(Volume) /\ Cardinality(Lun) >= Cardinality(Volume)
ASSUME NodeAssumption == None \notin Volume \cup Pod \cup Lun /\ MaxSize \in Nat \ {0}

Protocol == {"iscsi", "fc", "nvme"}
Transport == {"iscsi", "fc"}          \* those with SCSI disks
Address == Transport \X Lun           \* H:C:T:L, one target per transport

VARIABLES
    (* the array *)
    lun,        \* lun[v]: LUN of v on the node's host
    size,       \* size[v]
    port,       \* protocols whose initiator is a port of the host
    secured,    \* the host has CHAP credentials
    (* Kubernetes *)
    proto,      \* proto[v]: protocol of v on this node
    context,    \* context[v]: the publish context says port and CHAP are set up
    stage,      \* stage[v]: what the kubelet knows of the volume
    pod,        \* pod[p]: what the kubelet knows of the pod's mount
    expanded,   \* expanded[v]: size confirmed by the last NodeExpandVolume
    (* the node's kernel and files *)
    session,    \* protocols with a session to the array
    disk,       \* disk[a]: WWID of the SCSI disk at a
    dsize,      \* dsize[a]: its size
    map,        \* volumes with a multipath map
    msize,      \* msize[v]: size of the map, or of the NVMe device
    fsize,      \* fsize[v]: size of the file system on v
    path,       \* pods whose target path exists
    mounted,    \* mounted[p]: volume whose device is mounted for p
    config,     \* config[v]: map named in the JSON file of v
    (* the plugin *)
    queue       \* calls waiting for the mutex, after the one that holds it

array == <<lun, size, port, secured>>
k8s == <<proto, context, stage, pod, expanded>>
kernel == <<session, disk, dsize, map, msize>>
files == <<fsize, path, mounted, config>>
vars == <<array, k8s, kernel, files, queue, faults>>

-----------------------------------------------------------------------------
PodsOf(v) == {p \in Pod : Uses[p] = v}
Busy(v) == \E p \in PodsOf(v) : pod[p] \in {"publishing", "published", "unpublishing"}
Least(S) == CHOOSE x \in S : \A y \in S : x <= y
MappedAt(l) == {v \in Volume : lun[v] = l}

\* The paths of a map: the disks with its WWID.
PathsOf(v) == {a \in Address : disk[a] = v}
InUse(v) == \E p \in Pod : mounted[p] = v

Init ==
    /\ proto \in [Volume -> Protocol]
    /\ lun = [v \in Volume |-> None]
    /\ size = [v \in Volume |-> 1] /\ expanded = size
    /\ port = {} /\ secured = FALSE /\ context = [v \in Volume |-> FALSE]
    /\ session = {} /\ map = {} /\ path = {}
    /\ stage = [v \in Volume |-> "detached"]
    /\ pod = [p \in Pod |-> "new"]
    /\ disk = [a \in Address |-> None]
    /\ dsize = [a \in Address |-> 0]
    /\ msize = [v \in Volume |-> 0]
    /\ fsize = [v \in Volume |-> 0]
    /\ mounted = [p \in Pod |-> None]
    /\ config = [v \in Volume |-> None]
    /\ queue = <<>>
    /\ faults = 0

-----------------------------------------------------------------------------
(* The kubelet and the attacher.  They have one call for a volume in       *)
(* flight, repeat it when it fails, unstage a volume when no pod has it or *)
(* may have it, and detach it only when it is not staged.  A pod runs once.*)

InFlight(v) == \E i \in DOMAIN queue : queue[i].vol = v /\ queue[i].live

\* at: the next step.  dev: the map the call works on.  paths: its disks.
Call(op, v, p, at) ==
    [op |-> op, vol |-> v, pod |-> p, live |-> TRUE, at |-> at,
     lun |-> IF op = "publish" THEN lun[v] ELSE None,
     size |-> IF op = "expand" THEN size[v] ELSE 0, dev |-> None, paths |-> {}]

Send(op, v, p, at) ==
    /\ ~InFlight(v)
    /\ queue' = Append(queue, Call(op, v, p, at))
    /\ UNCHANGED <<array, kernel, files, proto, context, expanded, faults>>

\* ControllerPublishVolume: the array hands out the lowest free LUN.
Attach(v) ==
    /\ stage[v] = "detached"
    /\ \E p \in PodsOf(v) : pod[p] = "new"
    /\ \E l \in Lun :
         /\ MappedAt(l) = {} /\ \A k \in Lun : MappedAt(k) = {} => l <= k
         /\ lun' = [lun EXCEPT ![v] = l]
    /\ context' = [context EXCEPT ![v] = proto[v] \in port /\ secured = (v \in Chap)]
    /\ stage' = [stage EXCEPT ![v] = "attached"]
    /\ UNCHANGED <<size, port, secured, proto, pod, expanded, kernel, files, queue, faults>>

Detach(v) ==
    /\ stage[v] = "attached" /\ ~InFlight(v)
    /\ lun' = [lun EXCEPT ![v] = None]
    /\ stage' = [stage EXCEPT ![v] = "detached"]
    /\ UNCHANGED <<size, port, secured, proto, context, pod, expanded, kernel, files, queue, faults>>

CallStage(v) ==
    /\ stage[v] \in {"attached", "staging"}
    /\ \E p \in PodsOf(v) : pod[p] = "new"
    /\ Send("stage", v, None, "port")
    /\ stage' = [stage EXCEPT ![v] = "staging"]
    /\ UNCHANGED pod

CallPublish(p) ==
    /\ stage[Uses[p]] = "staged" /\ pod[p] \in {"new", "publishing"}
    /\ Send("publish", Uses[p], p, "targets")
    /\ pod' = [pod EXCEPT ![p] = "publishing"]
    /\ UNCHANGED stage

DeletePod(p) ==
    /\ pod[p] \in {"new", "publishing", "published"}
    /\ pod' = [pod EXCEPT ![p] = IF @ = "new" THEN "gone" ELSE "unpublishing"]
    /\ UNCHANGED <<array, proto, context, stage, expanded, kernel, files, queue, faults>>

CallUnpublish(p) ==
    /\ pod[p] = "unpublishing"
    /\ Send("unpublish", Uses[p], p, "unmount")
    /\ UNCHANGED <<stage, pod>>

CallUnstage(v) ==
    /\ stage[v] \in {"staging", "staged", "unstaging"} /\ ~Busy(v)
    /\ Send("unstage", v, None, "load")
    /\ stage' = [stage EXCEPT ![v] = "unstaging"]
    /\ UNCHANGED pod

CallExpand(p) ==
    /\ pod[p] = "published" /\ expanded[Uses[p]] < size[Uses[p]]
    /\ Send("expand", Uses[p], p, "find")
    /\ UNCHANGED <<stage, pod>>

\* ControllerExpandVolume, on the array.
Grow(v) ==
    /\ v \in Growing /\ size[v] < MaxSize /\ stage[v] # "detached"
    /\ size' = [size EXCEPT ![v] = @ + 1]
    /\ UNCHANGED <<lun, port, secured, k8s, kernel, files, queue, faults>>

\* The kubelet's deadline: it ignores the answer and may call again.
GiveUp(i) ==
    /\ queue[i].live /\ Fault("deadline")
    /\ queue' = [queue EXCEPT ![i].live = FALSE]
    /\ UNCHANGED <<array, k8s, kernel, files>>

\* The container is restarted; the kernel's state and the files stay.
Crash ==
    /\ queue # <<>> /\ Fault("crash")
    /\ queue' = <<>>
    /\ UNCHANGED <<array, k8s, kernel, files>>

-----------------------------------------------------------------------------
(* The end of a call.                                                      *)

H == Head(queue)
At(op, label) == queue # <<>> /\ H.op = op /\ H.at = label

Continue(c) == queue' = <<c>> \o Tail(queue) /\ UNCHANGED k8s
Goto(label) == Continue([H EXCEPT !.at = label])
ReturnError == queue' = Tail(queue) /\ UNCHANGED k8s

ReturnOk ==
    /\ queue' = Tail(queue)
    /\ stage' = IF H.live /\ H.op \in {"stage", "unstage"}
                THEN [stage EXCEPT ![H.vol] = IF H.op = "stage" THEN "staged" ELSE "attached"]
                ELSE stage
    /\ pod' = IF H.live /\ H.op = "publish" /\ pod[H.pod] = "publishing"
              THEN [pod EXCEPT ![H.pod] = "published"]
              ELSE IF H.live /\ H.op = "unpublish" THEN [pod EXCEPT ![H.pod] = "gone"] ELSE pod
    /\ expanded' = IF H.live /\ H.op = "expand" THEN [expanded EXCEPT ![H.vol] = H.size]
                   ELSE expanded
    /\ UNCHANGED <<proto, context>>

\* A command or a file operation, with what follows it.
Command(cmd, o) == Charge(cmd, o)
Then(o, next) == IF Ok(o) THEN next ELSE ReturnError

\* A REST call of a handler whose context has expired fails.
RestCharge(call, o) == IF H.live THEN Charge(call, o) ELSE o = "fail" /\ UNCHANGED faults

\* The next step of the head's call, and the protocol it is for.
Step(op, label, p) == At(op, label) /\ proto[H.vol] = p

-----------------------------------------------------------------------------
(* NodeStageVolume                                                         *)

\* GetHostPort, and AddPortForHost if the host has no such port yet.
AddPortForHost(next) ==
    /\ \E o \in Outcome :
        /\ RestCharge("AddPortForHost", o)
        /\ port' = IF Done(o) THEN port \cup {proto[H.vol]} ELSE port
        /\ Then(o, next)
    /\ UNCHANGED <<lun, size, secured, kernel, files>>

StageISCSI ==
    /\ Step("stage", "port", "iscsi")
    /\ AddPortForHost(IF H.vol \in Chap /\ ~context[H.vol] THEN Goto("chap") ELSE ReturnOk)

StageFC == Step("stage", "port", "fc") /\ AddPortForHost(ReturnOk)
StageNVME == Step("stage", "port", "nvme") /\ AddPortForHost(ReturnOk)

AddCHAPSecurity ==
    /\ At("stage", "chap")
    /\ \E o \in Outcome :
        /\ RestCharge("AddHostSecurity", o)
        /\ secured' = (secured \/ Done(o))
        /\ Then(o, ReturnOk)
    /\ UNCHANGED <<lun, size, port, kernel, files>>

-----------------------------------------------------------------------------
(* NodePublishVolume: the targets, the device, then MountLogic.            *)

GetISCSITargets(o) == RestCharge("GetNetworkSpaceByName", o)
GetNVMETargets(o) == RestCharge("GetNetworkSpaceByName", o)
GetFCDiskDetails(o) == RestCharge("GetFCPorts", o)

PublishISCSI ==
    /\ Step("publish", "targets", "iscsi")
    /\ \E o \in ReadOutcome : GetISCSITargets(o) /\ Then(o, Goto("discover"))
    /\ UNCHANGED <<array, kernel, files>>

PublishNVME ==
    /\ Step("publish", "targets", "nvme")
    /\ \E o \in ReadOutcome : GetNVMETargets(o) /\ Then(o, Goto("login"))
    /\ UNCHANGED <<array, kernel, files>>

PublishFC ==
    /\ Step("publish", "targets", "fc")
    /\ \E o \in ReadOutcome : GetFCDiskDetails(o) /\ Then(o, Goto("scan"))
    /\ UNCHANGED <<array, kernel, files>>

\* The interface, the targets and the CHAP settings in iscsid's own database.
DiscoverTargets ==
    /\ Step("publish", "discover", "iscsi")
    /\ \E o \in ReadOutcome : Command("iscsiadm discover", o) /\ Then(o, Goto("login"))
    /\ UNCHANGED <<array, kernel, files>>

\* A login unless there is a session.
LoginToTargets ==
    /\ Step("publish", "login", "iscsi")
    /\ \E o \in Outcome :
        /\ Command("iscsiadm login", o)
        /\ session' = IF Done(o) THEN session \cup {"iscsi"} ELSE session
        /\ Then(o, Goto("scan"))
    /\ UNCHANGED <<array, disk, dsize, map, msize, files>>

\* nvme list: a namespace is the volume that has its number now.
NVMENamespaces(l) == MappedAt(l)

AttachNVME ==
    /\ Step("publish", "login", "nvme")
    /\ \E o \in Outcome :
        /\ Command("nvme", o)
        /\ session' = IF Done(o) THEN session \cup {"nvme"} ELSE session
        /\ Then(o, IF NVMENamespaces(H.lun) = {} THEN ReturnError
                   ELSE Continue([H EXCEPT !.at = "check",
                                           !.dev = CHOOSE v \in NVMENamespaces(H.lun) : TRUE]))
    /\ UNCHANGED <<array, disk, dsize, map, msize, files>>

\* A scan adds a disk where there is none; one that is there keeps its WWID
\* and its size.
Scan(a, o) ==
    LET found == Done(o) /\ disk[a] = None /\ MappedAt(a[2]) # {}
        v == CHOOSE x \in MappedAt(a[2]) : TRUE
    IN  /\ disk' = IF found THEN [disk EXCEPT ![a] = v] ELSE disk
        /\ dsize' = IF found THEN [dsize EXCEPT ![a] = size[v]] ELSE dsize

\* The WWID found at an address; None when there is no disk.
WaitForDeviceState(a) == disk'[a]

\* The handler goes on with the WWID it finds at its LUN.
RescanDeviceMap ==
    /\ \E o \in Outcome, a \in Address :
        /\ a = <<proto[H.vol], H.lun>>
        /\ Command("RescanDeviceMap", o)
        /\ Scan(a, o)
        /\ Then(o, IF WaitForDeviceState(a) = None THEN ReturnError
                   ELSE Continue([H EXCEPT !.at = "dm", !.dev = WaitForDeviceState(a)]))
    /\ UNCHANGED <<array, session, map, msize, files>>

ScanISCSI == Step("publish", "scan", "iscsi") /\ RescanDeviceMap
ScanFC == Step("publish", "scan", "fc") /\ RescanDeviceMap

\* multipathd makes a map of a disk in its own time.
AddMap(v) ==
    /\ v \notin map /\ PathsOf(v) # {}
    /\ map' = map \cup {v}
    /\ msize' = [msize EXCEPT ![v] = Least({dsize[a] : a \in PathsOf(v)})]
    /\ UNCHANGED <<array, k8s, session, disk, dsize, files, queue, faults>>

\* The handler looks for the map for 10 seconds.  (fc goes on with the path of
\* the bare disk when the disk has its link in /dev/disk/by-id by then and no
\* map; that is left out, and a disk without a map is an error here.)
GetDMDevicePath ==
    /\ \/ H.dev \in map /\ Goto("check") /\ UNCHANGED faults
       \/ Fault("GetDMDevicePath") /\ ReturnError
    /\ UNCHANGED <<array, kernel, files>>

AttachISCSI == Step("publish", "dm", "iscsi") /\ GetDMDevicePath
SearchDiskFC == Step("publish", "dm", "fc") /\ GetDMDevicePath

\* fc writes the file once more.
AfterMountLogic == Goto(IF proto[H.vol] = "fc" THEN "reconfig" ELSE "perms")

\* Nothing is left to do if the target path is a mount point.
MountLogic ==
    /\ At("publish", "check")
    /\ \E o \in ReadOutcome :
        /\ Command("MountLogic", o)
        /\ Then(o, IF mounted[H.pod] # None THEN AfterMountLogic ELSE Goto("config"))
        /\ path' = IF Ok(o) /\ H.vol \notin Block THEN path \cup {H.pod} ELSE path
    /\ UNCHANGED <<array, kernel, fsize, mounted, config>>

CreateConfigFile(next) ==
    /\ \E o \in Outcome :
        /\ Command("CreateConfigFile", o)
        /\ config' = IF Done(o) THEN [config EXCEPT ![H.vol] = H.dev] ELSE config
        /\ Then(o, next)
    /\ UNCHANGED <<array, kernel, fsize, path, mounted>>

PersistLater == At("publish", "config") /\ Goto("mount")
                /\ UNCHANGED <<array, kernel, files, faults>>

\* The map is remembered before it is mounted.
Persist == At("publish", "config") /\ CreateConfigFile(Goto("mount"))
MountFCDisk == At("publish", "reconfig") /\ CreateConfigFile(Goto("perms"))

Present(v) == v \in map \/ (proto[v] = "nvme" /\ lun[v] # None)
DeviceSize(v) == IF proto[v] = "nvme" THEN size[v] ELSE msize[v]

Mount(o) ==
    /\ IF Present(H.dev) THEN Command("mount", o) ELSE o = "fail" /\ UNCHANGED faults
    /\ mounted' = IF Done(o) THEN [mounted EXCEPT ![H.pod] = H.dev] ELSE mounted
    /\ Then(o, AfterMountLogic)
    /\ UNCHANGED <<array, kernel, config>>

\* A raw device is bound to a file.
MountBlock ==
    /\ At("publish", "mount") /\ H.vol \in Block
    /\ path' = path \cup {H.pod}
    /\ \E o \in Outcome : Mount(o)
    /\ UNCHANGED fsize

\* An empty device is formatted.
FormatAndMount ==
    /\ At("publish", "mount") /\ H.vol \notin Block
    /\ \E o \in Outcome :
        /\ Mount(o)
        /\ fsize' = IF Done(o) /\ fsize[H.dev] = 0
                    THEN [fsize EXCEPT ![H.dev] = DeviceSize(H.dev)] ELSE fsize
    /\ UNCHANGED path

SetVolumePermissions ==
    /\ At("publish", "perms")
    /\ \E o \in ReadOutcome : Command("chown", o) /\ Then(o, ReturnOk)
    /\ UNCHANGED <<array, kernel, files>>

-----------------------------------------------------------------------------
(* NodeUnpublishVolume                                                     *)

UnmountUnchecked ==
    /\ At("unpublish", "unmount")
    /\ \E o \in Outcome :
        /\ Command("umount", o)
        /\ mounted' = IF Done(o) THEN [mounted EXCEPT ![H.pod] = None] ELSE mounted
    /\ IF H.pod \in path THEN Goto("rmdir") ELSE ReturnOk
    /\ UNCHANGED <<array, kernel, fsize, path, config>>

\* The list of mounts is read after the unmount, whose error is only logged.
UnmountAndCleanUp ==
    /\ At("unpublish", "unmount")
    /\ \E o \in Outcome :
        /\ Command("umount", o)
        /\ mounted' = IF Done(o) THEN [mounted EXCEPT ![H.pod] = None] ELSE mounted
        /\ Then(o, IF H.pod \in path THEN Goto("rmdir") ELSE ReturnOk)
    /\ UNCHANGED <<array, kernel, fsize, path, config>>

CleanupOldMountDirectory ==
    /\ At("unpublish", "rmdir")
    /\ \E o \in Outcome :
        /\ Command("CleanupOldMountDirectory", o)
        /\ path' = IF Done(o) THEN path \ {H.pod} ELSE path
        /\ Then(o, ReturnOk)
    /\ UNCHANGED <<array, kernel, fsize, mounted, config>>

-----------------------------------------------------------------------------
(* NodeUnstageVolume.  Errors of DetachMpathDevice are only logged.        *)

\* A file that cannot be read leaves the name of the map empty.
LoadDiskInfoFromFile ==
    /\ config[H.vol] # None
    /\ \E o \in ReadOutcome :
        /\ Command("LoadDiskInfoFromFile", o)
        /\ IF Ok(o) THEN Continue([H EXCEPT !.at = "devices", !.dev = config[H.vol]])
           ELSE Goto("rmjson")

\* Without a file there is nothing to detach.
UnstageISCSI ==
    /\ Step("unstage", "load", "iscsi")
    /\ \/ LoadDiskInfoFromFile
       \/ config[H.vol] = None /\ ReturnOk /\ UNCHANGED faults
    /\ UNCHANGED <<array, kernel, files>>

UnstageFC ==
    /\ Step("unstage", "load", "fc")
    /\ \/ LoadDiskInfoFromFile
       \/ /\ config[H.vol] = None
          /\ \E o \in ReadOutcome : Command("RemoveAll", o) /\ Then(o, ReturnOk)
    /\ UNCHANGED <<array, kernel, files>>

\* A map is found by its name, or by its dm device (fc).
FindDevicesForMpath ==
    /\ At("unstage", "devices")
    /\ \E o \in ReadOutcome :
        /\ IF H.dev \in map THEN Command("FindDevicesForMpath", o)
           ELSE o = "fail" /\ UNCHANGED faults
        /\ IF Ok(o) THEN Continue([H EXCEPT !.at = "flush", !.paths = PathsOf(H.dev)])
           ELSE Goto("rmjson")
    /\ UNCHANGED <<array, kernel, files>>

\* multipath -f refuses a map in use; the tries are one step.
MultipathFlush ==
    /\ At("unstage", "flush")
    /\ \E o \in ReadOutcome :
        /\ IF InUse(H.dev) THEN o = "fail" /\ UNCHANGED faults
           ELSE Command("MultipathFlush", o)
        /\ map' = IF Ok(o) THEN map \ {H.dev} ELSE map
        /\ msize' = IF Ok(o) THEN [msize EXCEPT ![H.dev] = 0] ELSE msize
        /\ Goto(IF Ok(o) THEN "detach" ELSE "rmjson")
    /\ UNCHANGED <<array, session, disk, dsize, files>>

DetachNothing(left) == disk' = disk

\* The disks deleted of those found; one that cannot be deleted is left.
DetachDiskByDeviceName(left) ==
    disk' = [a \in Address |-> IF a \in H.paths \ left THEN None ELSE disk[a]]

\* multipathd del path: a map goes with its last path.
RemoveMultipathDevices == map' = {v \in map : \E a \in Address : disk'[a] = v}

DetachMpathDevice ==
    /\ At("unstage", "detach")
    /\ \E left \in SUBSET H.paths :
        /\ IF left = {} THEN UNCHANGED faults ELSE Fault("DetachDiskByDeviceName")
        /\ DetachDiskByDeviceName(left)
        /\ dsize' = [a \in Address |-> IF disk'[a] = None THEN 0 ELSE dsize[a]]
        /\ RemoveMultipathDevices
    /\ Goto("rmjson")
    /\ UNCHANGED <<array, session, msize, files>>

\* The file and its directory.
RemoveJson(next) ==
    /\ \E o \in Outcome :
        /\ Command("RemoveJson", o)
        /\ config' = IF Done(o) THEN [config EXCEPT ![H.vol] = None] ELSE config
        /\ Then(o, next)
    /\ UNCHANGED <<array, kernel, fsize, path, mounted>>

RemoveISCSI == Step("unstage", "rmjson", "iscsi") /\ RemoveJson(Goto("logout"))
RemoveFC == Step("unstage", "rmjson", "fc") /\ RemoveJson(ReturnOk)
UnstageNVME == Step("unstage", "load", "nvme") /\ RemoveJson(ReturnOk)

NoUnusedDevice == map \subseteq {v \in Volume : InUse(v)}

\* multipath -ll lists no map.
NoMultipathDevice == map = {}

\* Without any map all iSCSI sessions end, and their disks go.
LogoutAllSessions ==
    /\ At("unstage", "logout")
    /\ \E o \in ReadOutcome :
        /\ Command("LogoutAllSessions", o)
        /\ IF Ok(o) /\ NoMultipathDevice
           THEN /\ session' = session \ {"iscsi"}
                /\ disk' = [a \in Address |-> IF a[1] = "iscsi" THEN None ELSE disk[a]]
                /\ dsize' = [a \in Address |-> IF a[1] = "iscsi" THEN 0 ELSE dsize[a]]
           ELSE UNCHANGED <<session, disk, dsize>>
    /\ ReturnOk
    /\ UNCHANGED <<array, map, msize, files>>

-----------------------------------------------------------------------------
(* NodeExpandVolume                                                        *)

\* The device is looked up in the mounts.
FindMultipathDevice(next) ==
    /\ \E o \in ReadOutcome :
        /\ Command("FindMultipathDevice", o)
        /\ Then(o, IF mounted[H.pod] = None THEN ReturnError
                   ELSE Continue([H EXCEPT !.at = next, !.dev = mounted[H.pod]]))
    /\ UNCHANGED <<array, kernel, files>>

ExpandISCSI == Step("expand", "find", "iscsi") /\ FindMultipathDevice("rescan")
ExpandFC == Step("expand", "find", "fc") /\ FindMultipathDevice("rescan")

\* Nothing is to be done for a raw NVMe device.
ExpandNVME ==
    /\ Step("expand", "find", "nvme")
    /\ IF H.vol \in Block THEN ReturnOk /\ UNCHANGED <<array, kernel, files, faults>>
       ELSE FindMultipathDevice("grow")

RescanNothing ==
    /\ Goto("resize")
    /\ UNCHANGED <<array, kernel, files, faults>>

\* A rescan of a path reads the size of what is mapped at its LUN.
RescanPaths ==
    /\ \E o \in Outcome :
        /\ Command("RescanPaths", o)
        /\ dsize' = IF Done(o)
                    THEN [a \in Address |->
                            IF disk[a] = H.dev /\ MappedAt(a[2]) # {}
                            THEN size[CHOOSE v \in MappedAt(a[2]) : TRUE] ELSE dsize[a]]
                    ELSE dsize
        /\ Then(o, Goto("resize"))
    /\ UNCHANGED <<array, session, disk, map, msize, files>>

RescanISCSI == Step("expand", "rescan", "iscsi") /\ RescanPaths
RescanFC == Step("expand", "rescan", "fc") /\ RescanPaths

\* multipathd resize map; for a raw device this is all (BlockExpandVolume).
ResizeMap ==
    /\ \E o \in Outcome :
        /\ Command("ResizeMap", o)
        /\ msize' = IF Done(o) /\ PathsOf(H.dev) # {}
                    THEN [msize EXCEPT ![H.dev] = Least({dsize[a] : a \in PathsOf(H.dev)})]
                    ELSE msize
        /\ Then(o, IF H.vol \in Block THEN ReturnOk ELSE Goto("grow"))
    /\ UNCHANGED <<array, session, disk, dsize, map, files>>

ResizeISCSI == Step("expand", "resize", "iscsi") /\ ResizeMap
ResizeFC == Step("expand", "resize", "fc") /\ ResizeMap

ExpandFileSystem ==
    /\ At("expand", "grow")
    /\ \E o \in Outcome :
        /\ Command("ExpandFileSystem", o)
        /\ fsize' = IF Done(o) THEN [fsize EXCEPT ![H.dev] = DeviceSize(H.dev)] ELSE fsize
        /\ Then(o, ReturnOk)
    /\ UNCHANGED <<array, kernel, path, mounted, config>>

-----------------------------------------------------------------------------
Handler ==
    \/ StageISCSI \/ StageFC \/ StageNVME \/ AddCHAPSecurity
    \/ PublishISCSI \/ PublishNVME \/ PublishFC
    \/ DiscoverTargets \/ LoginToTargets \/ AttachNVME \/ ScanISCSI \/ ScanFC \/ AttachISCSI \/ SearchDiskFC
    \/ MountLogic \/ Persist \/ MountFCDisk \/ MountBlock \/ FormatAndMount \/ SetVolumePermissions
    \/ UnmountAndCleanUp \/ CleanupOldMountDirectory
    \/ UnstageISCSI \/ UnstageFC \/ UnstageNVME
    \/ FindDevicesForMpath \/ MultipathFlush \/ DetachMpathDevice
    \/ RemoveISCSI \/ RemoveFC \/ LogoutAllSessions
    \/ ExpandISCSI \/ ExpandFC \/ ExpandNVME \/ RescanISCSI \/ RescanFC
    \/ ResizeISCSI \/ ResizeFC \/ ExpandFileSystem

Next ==
    \/ \E v \in Volume : Attach(v) \/ Detach(v) \/ CallStage(v) \/ CallUnstage(v) \/ Grow(v) \/ AddMap(v)
    \/ \E p \in Pod : CallPublish(p) \/ DeletePod(p) \/ CallUnpublish(p) \/ CallExpand(p)
    \/ \E i \in DOMAIN queue : GiveUp(i)
    \/ Crash
    \/ Handler

Spec == Init /\ [][Next]_vars

-----------------------------------------------------------------------------
(* Properties *)

\* What is mounted for a pod stays usable: no unstage of another volume takes
\* its map, its disks or its session away (DetachMpathDevice, logoutAllSessions).
MountedUsable ==
    \A p \in Pod : mounted[p] # None =>
        /\ Present(mounted[p])
        /\ proto[mounted[p]] # "nvme" => PathsOf(mounted[p]) # {}
        /\ proto[Uses[p]] \in {"iscsi", "nvme"} => proto[Uses[p]] \in session

\* The file a later unstage needs to find the map is there, and names the
\* mounted device, whenever a device is mounted (CreateConfigFile in MountLogic).
ConfigKept == \A p \in Pod : mounted[p] # None => config[Uses[p]] = mounted[p]

\* Without failures a pod gets the device of its own volume although LUNs are
\* reused, and unstaging leaves nothing of a volume on the node.
RightVolume ==
    faults = 0 =>
        /\ \A p \in Pod : mounted[p] \in {None, Uses[p]}
        /\ \A v \in Volume : stage[v] \in {"detached", "attached"} =>
              v \notin map /\ PathsOf(v) = {} /\ config[v] = None

\* No disk is left at a LUN that its volume no longer has.
NothingStale == \A a \in Address : disk[a] # None => lun[disk[a]] = a[2]

\* An expansion is confirmed only when the file system has the size, and without
\* failures no step makes a file system smaller (NodeExpandVolume). A disk left
\* behind by a failed publish or unstage keeps its old size, and the map has the
\* size of its smallest path: the code then confirms what the file system does
\* not have.
Expanded ==
    [][\A v \in Volume \ Block :
         /\ NothingStale /\ expanded'[v] > expanded[v] => fsize'[v] >= expanded'[v]
         /\ faults' = 0 => fsize'[v] >= fsize[v]]_vars

\* What the kubelet sees of the plugin.
Contract == INSTANCE NodeContract WITH on <- {p \in Pod : mounted[p] # None}

\* The plugin keeps the contract of NodeContract through crashes, expired calls
\* that run late, failed commands and repeated calls.
ContractKept == Contract!Spec
=============================================================================
