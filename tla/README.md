# Verification of the InfiniBox CSI driver

TLA+ models of the InfiniBox CSI driver, the TLC runs that check them on small
instances, and TLAPS proofs of their main properties for instances of any size.
`PROJECT.json` lists components, runs, mutants, hazards, findings and theorems,
and maps every definition to the lines of code it models.

## 1. The system

The driver connects Kubernetes with Infinidat InfiniBox arrays. It has no
database: its state is spread over the array (volumes, filesystems, treeqs,
hosts, LUNs, exports, and metadata attached to them), Kubernetes (PVs,
snapshots, attachments, custom resources) and a few variables of each process.
Every operation is a sequence of REST calls to the array. Any of them can fail,
be carried out although its answer is lost, or be the last one before the
container is restarted; Kubernetes then repeats the whole operation. Several
operations run at the same time in goroutines of one process.

| Part | State it owns | Operations | What is hard about it |
|---|---|---|---|
| Treeq service (`storage/treeq`) | treeqs in shared filesystems; count of treeqs in metadata | CreateVolume, DeleteVolume, ControllerExpandVolume | one filesystem serves many volumes: limits on count and size, growing on create, tearing down on the last delete; two unrelated mutexes; rollbacks |
| Block volumes (`storage/iscsi`, `fc`, `nvme`, `common`) | volumes, snapshots, clones; mark `host.k8s.to_be_deleted`; snapshot locks | CreateVolume (empty, from a volume, from a snapshot), CreateSnapshot, DeleteVolume, DeleteSnapshot, ControllerExpandVolume | a parent with children is only marked; deleting the last child deletes the marked parents up the chain; no mutex |
| Attaching (`service/controller.go`, `storage/common`) | hosts on the array, LUNs, metadata `csi_created_host` | ControllerPublishVolume, ControllerUnpublishVolume | the first publish creates the host, the last unpublish deletes it; only publish takes the mutex |
| NFS (`storage/nfs`, `api/nfsapiclient.go`) | filesystems, exports and their permission rules | CreateVolume, DeleteVolume, snapshots, publish and unpublish (export rules), cleanup of old permissions | read-modify-write of the rules of an export; deferred deletion |
| Node service (`service/node.go`, `storage/*/…node.go`, `mount.go`, `multipath.go`) | iSCSI/FC/NVMe sessions, multipath devices, mounts, a JSON file per staged volume | NodeStage, NodePublish, NodeUnpublish, NodeUnstage, NodeExpand | one global mutex; a crash between attach, file and mount; idempotent retries |
| Replica, CG and promote controllers (`iboxreplica`, `iboxcg`, `iboxpromote`) | status and finalizer of custom resources; replicas and consistency groups on the array | Reconcile | level-triggered retries over several calls; IDs kept only in the status |
| csi-addons (`service/csiaddons`) | roles of replicas, members of consistency groups | Enable, Disable, Promote, Demote, Resync, Info; volume group Create, Modify, Delete | two arrays; must be idempotent |
| Group snapshots, storage class replicas (`service/volumegroupcontroller.go`, `screplica.go`) | consistency groups and snapshot groups | CreateVolumeGroupSnapshot, DeleteVolumeGroupSnapshot, handleSCReplica | several objects per call, no rollback |
| COSI driver (`cosi`) | S3 buckets | DriverCreateBucket, DriverDeleteBucket, Grant, Revoke | check-then-create races, idempotence |
| Event and pool counters (`helper/customevent.go`) | counters shared by all handlers | CreateEvent, periodic report | unsynchronised counters |
| REST client (`iboxapi`, `api`) | none | one function per REST call | lost answers, paging, classification of errors |
| Metrics exporter, Kubernetes client, command line tools, e2e tests, generated code | none of interest | – | – |

What the system must guarantee, in order of importance: no operation destroys
or detaches something that is in use; an operation that reported success has
done its work; repeated operations succeed in the end; limits hold; nothing is
left behind. The hazards in `PROJECT.json` list, line by line, where the code
could break one of these.

## 2. How the code is modelled

All component modules have the same form.

- *Array* variables hold the objects on the array, *Kubernetes* variables what
  the sidecars know (the phase of each object and the handle or context the
  driver returned), *process* variables the mutexes and, for each handler,
  the REST call it makes next (`pc`) and its local variables (`my`).
- A gRPC call is a worker. `Start…` begins it, one action per REST call
  follows, and `Return…` ends it, releasing the mutexes as the deferred unlocks
  do. Workers interleave between any two REST calls.
- `Calls` gives the outcomes of a REST call: done, failed, or done with the
  answer lost. Each bad outcome is charged to the budget `MaxFaults` and
  limited to the calls named in `Failing`. `Crash` ends all workers.
- Kubernetes repeats a failed call, never changes a bound object, and has one
  call in flight per object, except where `Overlap` lets a timed-out call run
  on while it is repeated (the gRPC call is given up by the sidecar, the
  goroutine of the driver goes on).
- The array and Kubernetes are not part of the repository: they do what the
  code relies on, and the definitions that stand for them are marked external
  in the map. IDs of the array are never reused.
- A definition just above another one, with the same parameters and a name
  such as `NeverLocked` or `SameCount`, is a mutant: a plausible bug that
  the property named in `PROJECT.json` catches.

| Module | Models | Main state |
|---|---|---|
| `Calls` | outcomes of a call (`iboxapi/iboxapi.go`) | `faults` |
| `Treeq` | the treeq service | `live`, `size`, `quota`, `count`, `exported`, `data`; `phase`, `handle`; `createMutex`, `deleteMutex` |
| `BlockVolume` | block volumes, snapshots and clones | `vols`, `parent`, `name`, `marked`, `locked`; `phase`, `handle` |
| `HostMap` | attaching block volumes | `host`, `created`, `luns`; `phase`, `context`; `mutex` |
| `Nfs` | NFS volumes, exports and rules, on the controller and on the nodes | `fss`, `parent`, `locked`, `export`, `rules`; `phase`, `handle`, `exportID`, `attach`, `pods`; `mounted` |
| `NodeContract` | what the node plugin promises the kubelet (abstract) | `stage`, `pod`, `on` |
| `NodeVolume` | the node plugin for iscsi, fc and nvme | `lun`, `port`, `secured`; `stage`, `pod`, `expanded`; `session`, `disk`, `map`, `mounted`, `config`; `queue` |
| `CustomResource` | API server, informers, work queues and the array as the controllers see them | `cr`, `news`, `cache`, `queue`, `job`; `replicas`, `members`, `masters`; `pv`, `pvc` |
| `IboxReplica`, `IboxCg`, `IboxPromote` | the three reconcile loops | (that of `CustomResource`) |
| `Controllers` | the three together | |
| `Handler` | gRPC calls of csi-addons and group snapshots, and the arrays as they see them | `replicas`, `there`, `groups`, `volumes`, `resources`; `job`, `answer` |
| `Replication` | the replication service of csi-addons, over two arrays | (that of `Handler`) |
| `Groups` | volume groups, group snapshots, storage class replicas | (that of `Handler`) |
| `Addons` | the last two together | |
| `TreeqProofs`, `BlockProofs`, `HostProofs`, `NfsProofs`, `NodeProofs`, `ControllersProofs`, `ReconcileProofs`, `AddonsProofs` | theorems and proofs | |
| `MCTreeq`, `MCBlockVolume`, `MCHostMap`, `MCNfs`, `MCNodeVolume`, `MCControllers`, `MCAddons` | instances for TLC | |

`Treeq`. `quota[f][v]` is the hard capacity of the treeq of `v` in filesystem
`f`, 0 if there is none; `size` and `count` are the size and the metadata
`TREEQCOUNT`. `IsTreeqAlreadyExist` is two steps outside the mutex
(`ListForExist`, `CheckTreeqName`, which may miss a treeq as the parallel
lookups only log their errors), then `GetExpectedFileSystem` takes the mutex
and `ScanFileSystem` looks at one filesystem after the other. The rollbacks of
`CreateExportPathAndAddMetadata` are `UndoExport` and `UndoFileSystem`, those of
`CreateTreeqVolume` are `RevertTreeq` and the second use of `ReadCount` and
`WriteCount`. `data` is what pods wrote: DeleteTreeqVolume refuses a treeq in use.

`BlockVolume`. One module for iscsi, fc and nvme, whose CreateVolume and
DeleteVolume do the same calls. `Source` says what an object is created from.
Deletion follows `common.DeleteVolume`, including its recursion: `CheckParent`
continues with the parent when it is marked. An error of GetVolumesByParentID
is only logged, so the volume is taken for childless.

`HostMap`. `HostFirst` selects the order of fc (host, then volume) instead of
that of iscsi and nvme. `context` is the host ID in the publish context. A
`ReadOnly` volume is refused by `IsValidAccessMode` after the host may already
have been created. `GetHostByName` may take an error answer for "not found".

`Nfs`. `Permissions[v]` are the clients in `nfs_export_permissions`. If there
are any, CreateVolume makes the export (`createExportPath`) and
ControllerPublishVolume adds the node (`GetExportByID`, `AddNodeInExport`);
otherwise NodePublishVolume makes or extends it (`UpdateExport`, `AddRule`,
`CreateExport`). `rules[f]` is the list of clients, which every update replaces
as a whole (`PutRules`). A pod is mounted by `Mount` only if the export admits
its node. `Unmount` is followed by `cleanupNFSPerms` if `Cleanup` is set. The
processes of the nodes and of the controller crash separately; a node's mutex
serialises the calls of that node only.

`NodeVolume`. All node calls of a process take one mutex, which serves waiters
in turn, so the calls are a `queue` whose head holds it; a call in the queue is
a record with its operation, volume, pod, label and what it has read. One action
per command (iscsiadm, multipath, mount, file access) or REST call of the head
follows. `GiveUp` is the kubelet's deadline: the call stays in the queue and
runs when its turn comes, without an answer and with REST calls that fail, while
the kubelet calls again or deletes the pod. `Crash` empties the queue and keeps
the kernel's state and the files. A disk is what the kernel has at an address
(transport and LUN) with the identity it read when it was scanned: the array
gives the lowest free LUN to the next volume, and a disk that was left there
keeps its old identity. A map appears when multipathd gets to it (`AddMap`) and
goes with its last path. `config[v]` is the JSON file in the staging directory
that names the map. iscsi, fc and nvme share the actions their code shares, and
`Step(op, label, protocol)` marks those that only one of them has.

`NodeContract` is the kubelet's view: what it asked for, what was confirmed and
which target paths are mounted. `ContractKept` states that `NodeVolume`
implements it, with `on` mapped to the pods that have a device mounted.

`CustomResource`. `cr[c]` is the resource on the API server with its
resourceVersion, finalizer and status; the informer delivers its versions in
order and late (`news`, `cache`); a write that was read at an older version
conflicts. A reconcile that returns an error is queued again, one that returns
nil is not. There is one worker per controller, as controller-runtime has by
default. `IboxReplica` creates the replica (`PrepareReplica`, `LookupPool`,
`GetReplicas`, `CreateReplica`), records its ID, follows its state, makes the
PersistentVolume and claim of the remote copy, and deletes the replica after
the finalizer was removed. `IboxCg` suspends the group's replica, looks for the
suspension (bounded: the looks are one step that may be in vain), changes the
members and resumes it. `IboxPromote` promotes a snapshot once. A scenario,
chosen in the initial state, says which resources a user creates and deletes
and what is there already.

`Handler`, `Replication`, `Groups`. A worker makes a call of its scenario,
repeats it when it failed and may be restarted; `GiveUp` ends the repetition,
but for a change of roles and the deletion of a group. For
replication a worker is a cluster with an array of its own, and all calls are
about one volume; a replica is known to both of its arrays and may be deleted by
either cluster. `PromoteVolume` and `DemoteVolume` delete the replica and create
it in the other direction; a worker between the two is `Swapping`. For groups
the workers are handlers on one array without any lock. `Within` says whose ID
is part of whose, since CreateVolumeGroupSnapshot finds the source of a snapshot
with `strings.Contains`, and `Root` the first volume of a volume's family, since
it looks for the family's ID. `handleSCReplica` ends with the custom resource that
`Controllers` would reconcile.

## 3. Runs

All bounds are constants in the cfg files. Deadlock is not checked in any run,
because every model may rightly stop: IDs and requests are finite.

| Run | Instance | Shows |
|---|---|---|
| `treeq_concurrent` | 2 workers, 3 volumes, 2 filesystems of at most 2 treeqs, any 1 fault, overlapping retries | types; no filesystem gets more treeqs than its limit |
| `treeq_sequential` | 1 worker, 3 volumes, expansion, any 2 faults | bound volumes keep treeq and capacity; data is kept; count and size exact without faults |
| `treeq_rollback` | 2 workers, 2 volumes, 1 fault in a call whose failure is rolled back (export, metadata or treeq of a new filesystem among them), fairness | no empty filesystem stays; every call gets its mutex and returns |
| `block_concurrent` | 2 workers; volume, snapshot, clone of the snapshot; any 1 fault; overlapping retries | nothing bound is deleted; nothing locked is deleted |
| `block_sequential` | 1 worker, family of 4, any 1 fault, fairness | deferred deletions are carried out (without the fault); a repeated delete succeeds |
| `host_concurrent` | 2 workers, 2 volumes, 2 nodes, one of them with an administrator's host, limit 1, any 1 fault | published means mapped, to the host the node knows; detached means unmapped; limit of LUNs |
| `host_liveness` | 2 workers, 2 volumes, one of them refused, fc order, 1 fault, fairness | hosts of the driver go with their last attachment (without the fault); a repeated detach succeeds; a publish gets the mutex and returns |
| `nfs_concurrent` | 2 workers; volume with permissions, snapshot, clone without; 2 nodes, 4 pods; cleanup on; any 1 fault; overlapping deletes | nothing bound is deleted; a mounted volume admits its node; a node without pods loses its rule |
| `nfs_shared_rules` (violation) | 2 workers, 2 nodes with a pod each of one shared volume, no faults | the cleanup of one node deletes the export, from a list of rules it has read before, after the other has added its rule and mounted |
| `node_volumes` | 1 node, a filesystem volume that grows and a raw device with CHAP, a pod each, 2 LUNs, five pairs of protocols, any 1 fault (a failed command, a lost answer, a deadline, a crash) | what is mounted keeps its map, its disks and its session; the file that unstaging needs is there; the right device is mounted and nothing is left on the node (without the fault); an expansion that is confirmed is in the file system, and no file system shrinks, unless a disk is left at a LUN its volume no longer has; `NodeContract` is implemented |
| `controllers` | 9 scenarios of 1 or 2 resources with what is there before, any 1 fault or stale read, fairness | one replica per entity; a status is true, but for that of a removal from the group; a replica goes with its resource and is suspended only during a change (without faults); every resource settles (a removal from the group: without faults) |
| `addons` | 7 scenarios of two clusters, 8 of two group handlers, 3 calls each, any 2 faults, fairness | the volume is never replicated twice; roles and memberships are what a success says; disabling is final; snapshots of volumes that are no clones name their sources; promotions, demotions and deletions of empty groups end |

Why the bounds are enough for the questions asked: two workers are the smallest
number that interleave, and mutual exclusion does not depend on more; the
limits (2 treeqs, 1 LUN) are reached and there is one volume more than fits; a
family of three has a chain of two parents, so the recursion of DeleteVolume
takes two turns; two pods on one node and one on another are the smallest set
in which a rule must stay after an unmount and move afterwards; two volumes on a
node of one protocol share its LUNs, its session and the count of maps, and two
of different protocols the maps and the mounts; one fault can be placed at every
call, and two faults let a rollback or a retry fail too. A pair of volumes of
fc or iscsi with nvme is left out of `node_volumes`, since nvme shares neither
disks nor maps with them. The theorems of section 4 hold without any of these
bounds.

Fairness. A handler that is not blocked runs on, and each REST call returns, at
the latest when the context of its gRPC call expires: weak fairness of each
worker's steps. The steps that take a mutex have strong fairness, since
`sync.Mutex` hands itself to a waiter that starves. Sidecars repeat a delete or
detach until it succeeds: strong fairness of starting it. In `controllers` the
workers of controller-runtime go on while they have work (the looks for a
suspended replica are bounded), the informers deliver, links come back, and the
cache of the replica controller is resynchronised from time to time, which
controller-runtime does every ten hours; without this resync a resource that
found another one's replica would never notice that it went away. In `addons`
the steps of each worker are weakly fair, and a failed call is made again by
csi-addons and the snapshot sidecar, which retry until they succeed. Faults are
bounded, so they stop in the end. Creation is not assumed to be repeated.

Findings. `nfs_shared_rules` shows a disagreement between the code and its
comments; `PROJECT.json` quotes them. `cleanupNFSPerms` of one node finds that the
only rule of the export is its own and deletes the export with a later call
(`cleanupnfsperm.go:106`); in between `UpdateExport` of another node has added its
rule, and its pod runs on without an export. With three nodes the list that
`cleanupNFSPerms` or `UpdateExport` writes back drops a rule in the same way; this
run has two. The models contain other disagreements that have no run of their own.

Treeq, block volumes, attaching and NFS:

- a delete reads the count under one mutex and tears the filesystem down while a
  create, under another, has just put a treeq into it (`treeqservice.go:325`);
- when the treeq count cannot be written, `CreateTreeqVolume` deletes the new
  treeq only in a filesystem of the same call (`treeqservice.go:226`);
- `UpdateTreeqVolume` never sees `max_filesystem_size`, so an expansion is not
  limited (`treeqservice.go:405`);
- a clone whose PromoteSnapshot failed is found by name by the retry and bound
  without being promoted (`storage/common/snapshot.go:172`);
- an error answer to the host lookup is taken for a missing host, so a detach
  succeeds with the volume still mapped (`iboxapi/host.go:213`);
- an unpublish without a node is refused, although a comment promises to detach
  the volume from all nodes (`service/controller.go:387`);
- `DeleteNFSVolume` writes no mark for a filesystem with children
  (`nfscontroller.go:485`), so `DeleteParentFileSystem` never deletes one;
- with `nfs_export_permissions` and cleanup, the export goes with its last rule
  and no mount makes it again, although `cleanupnfsperm.go:109` says so; a pod
  that restarts on a node that stayed attached finds its rule gone;
- after a crash between CreateFileSystem and CreateExport the retry returns
  export ID 0, and `AddNodeInExport` dereferences a nil pointer
  (`nfsapiclient.go:51`) at every attach;
- ControllerUnpublishVolume of nfs compares clients with the whole node ID,
  name and address, so it never removes a rule;
- `DeleteFileSystemComplete` ignores every error of DeleteExport except
  "not found" (`nfsapiclient.go:216`), which leaves a filesystem without a treeq
  when somebody else has deleted its export: `treeq_rollback` has no such answer.

Node plugin:

- an unstage that finds no JSON file answers with success and detaches nothing
  (`iscsinode.go:291`), and errors of `DetachMpathDevice` are only logged; a disk
  that stays at its LUN is what the next volume at that LUN is taken for, which
  is why `RightVolume` is stated for histories without faults;
- such a disk also keeps its old size, and a multipath map is taken to be as large
  as its smallest path (multipathd is outside `src/`). When the volume comes back at another LUN and is expanded, the
  map and the file system stay small and NodeExpandVolume confirms the new size
  all the same (`nodeexpandvolume.go:149`), since it does not look at the result.
  It takes one failed publish and a second pod for the volume. `Expanded` is
  therefore stated for steps at which no such disk is there (`NothingStale`), at
  any number of faults;
- the logout of all iSCSI sessions looks at the number of multipath maps only,
  which is right as long as every device in use has a map (`MountedUsable`).

Controllers:

- the finalizer is removed before `DeleteReplica`
  (`iboxreplica_controller.go:158`, `331`): when the delete fails, the replica
  stays and nothing tries again;
- a replica that was made while the status write failed is never recorded: the
  retry finds the entity replicated and returns (`iboxreplica_controller.go:264`),
  so that deleting the resource asks the array to delete replica 0;
- the comment "fetch the replica from the ibox, create if not found"
  (`iboxreplica_controller.go:124`) is about a resource with an ID, for which the
  code only updates the state;
- a failed lookup of the pool is written to the status and the replica is asked
  for all the same, with pool 0;
- for a consistency group the PersistentVolume of a remote copy is made with the
  ID of the local member (`createpvc/common.go:290`), where for a volume the
  comment at line 333 says "lookup remote volume so we can get the volume ID";
- after a failed `AddMemberToCG`, or a restart between suspending and resuming,
  the replica of the group stays suspended (`iboxcg_controller.go:379`); the looks
  for a suspended replica dereference a nil replica when they fail (line 367);
- a failed `RemoveMemberFromCG` is only logged (`iboxcg_controller.go:464`), and the
  status then says completed with the volume in the group still. `StatusTrue`
  says nothing of an Iboxcg that removes, and `Settles` asks for the removal only
  where no call failed;
- a promotion whose answer was lost is never recorded: the retry finds a master
  volume and returns.

csi-addons, group snapshots and storage class replicas:

- after a failure between the two halves of a promotion or demotion the retry
  finds no replica and answers with success, with nothing replicated
  (`replication.go:293`, `350`, `482`); the name of the link is looked up only
  after the replica was deleted (`replication.go:372`);
- EnableVolumeReplication and DisableVolumeReplication answer a repeated call
  with an error;
- an EnableVolumeReplication of one cluster and a promotion of the other can make
  two replicas, which `NoRace` leaves out;
- CreateVolumeGroup, which "MUST be idempotent" (`volumegroup.go:63`), fails when
  it is repeated, and leaves a group with some of its members when one of them
  cannot be added;
- DeleteVolumeGroup deletes the volumes of a group that is not empty, where
  `volumegroup.go:190` promises FAILED_PRECONDITION, and takes any error of the
  lookup for a missing group; `GroupDeletionEnds` is about groups that are empty
  or gone;
- a group snapshot whose answer was lost is refused for ever by its own name
  (`volumegroupcontroller.go:85`); a group that is there already is used whatever
  its members are;
- a source is looked for by the family ID of the snapshot with `strings.Contains`
  (lines 129-131), so the snapshot of a clone that was not promoted names the root
  of its family if the request has that volume too, and is an error otherwise,
  where the comment above says "the source volume ID"; and a member whose ID is
  part of another volume's is given that one as its source. `SnapshotSources`
  leaves both out;
- when the answer to creating the custom resource is lost, CreateVolume meets
  AlreadyExists at every retry (`screplica.go:222`).

COSI (not modelled): the comment of DriverDeleteBucket says "If the bucket does
not exist, it returns success" (`provisioner.go:98`), but the error of S3 is
handed through (`s3.go:278`), so a delete whose answer was lost keeps failing.

## 4. Theorems

TLAPS proves these for all values of the constants that satisfy the named
assumptions in the modules (finitely many volumes and filesystems, positive
limits, distinct null values).

| Theorem | Says | Inductive invariant |
|---|---|---|
| `TreeqProofs!TypeCorrect` | types | itself |
| `TreeqProofs!LimitRespected` | `TreeqsWithinLimit` | `LimitInv`: whoever places a treeq holds the create mutex, and the chosen filesystem keeps its room |
| `BlockProofs!BlockTypeCorrect` | types | part of `ServedInv` |
| `BlockProofs!Served` | `BoundServed` | `ServedInv`: marks and delete handlers concern only volumes whose object is being deleted; handles and creating handlers name volumes of their own object |
| `BlockProofs!LocksRespected` | `LockedKept` | `ServedInv` and `LockInv`: a volume found unlocked stays unlocked |
| `HostProofs!HostTypeCorrect` | types | part of `MapInv` |
| `HostProofs!Published` | `PublishedMapped` | `MapInv`: a handler has its attachment for itself and knows the host of its node; hosts with LUNs stay |
| `HostProofs!Unpublished` | `DetachedUnmapped`, if no host lookup answers with an error | `MapInv` and the property |
| `HostProofs!Limit` | `LunLimit` | `LimitInv`: what a publish counted under the mutex only shrinks until it maps |
| `HostProofs!NoHostLeft` | `NoEmptyHost` | `MapInv` and `CleanInv`: every host the driver made has a keeper |
| `NfsProofs!Bound` | `BoundServed`, if CreateVolume does not overlap with its repetition | `Inv`: the array, the handles and the handlers agree on which filesystem and export belong to which object |
| `NfsProofs!Admitted` | `MountedCovered`, under the same condition | `Inv` |
| `NfsProofs!Cleaned` | `RulesCleaned`, under the same condition | `Inv` and `CleanInv`: rules stand for pods that are not gone, and what a node read of them is still true |
| `NodeProofs!ContractImplemented` | `ContractKept`: `NodeVolume` implements `NodeContract` | `IInv`: a call the kubelet waits for is the last of its volume in the queue |
| `NodeProofs!Usable` | `MountedUsable` | `UInv`: the disk at the LUN of a mounted volume is the mounted device, and a running unstage holds no path of it |
| `NodeProofs!ConfigStays` | `ConfigKept` | `UInv` |
| `NodeProofs!RightVolumeKept` | `RightVolume` | `UInv` and `FInv`: without failures a volume has no disk, map or file but its own, and a later unstage finds them |
| `NodeProofs!ExpandedKept` | `Expanded` | `UInv`, `EInv`: what an expansion has reached at each label, and `SizedInv`: without failures file system, map, disk and volume are in order of size |
| `AddonsProofs!OneReplicaAlways` | `OneReplica` | `IInv`: the right to create a replica is in one place at most |
| `AddonsProofs!DisableFinal` | `DisabledForGood` | the same |
| `AddonsProofs!ReplicationStays` | `ReplicationKept`, if the volume is on the arrays its links lead to | `IInv` and `KeptInv`: who may make a replica is on an array that has the volume, and so is its peer |
| `AddonsProofs!RoleTaken` | `RoleReached`, if the volume is on the two arrays of one link | `IInv` and `PairInv`: every replica is between these two |
| `AddonsProofs!Membership` | `MembershipReached` | `GroupsInv`: the members, less those to be removed and with those to be added, are the volumes of the request |
| `AddonsProofs!OwnSources` | `SnapshotSources`, of volumes that are the first of their family | `SnapInv`: group IDs are given out once |
| `ControllersProofs!OneReplicaEach` | `OneReplicaPerEntity` | `IInv`: when the worker is about to create a replica, the entity has none |
| `ControllersProofs!StatusHonest` | `StatusTrue` | `SInv`: no version of a resource, wherever it is, claims what is not so |
| `ReconcileProofs!Resumed` | `ResumedAfterChange` | `SInv` and `GroupInv`: how far a reconcile has come says in which state the replica of the group is |
| `ReconcileProofs!ChangedSuspended` | `ChangedWhileSuspended` | the same |
| `ReconcileProofs!Removed` | `ReplicaRemoved` | `SInv`, `IInv` and `OInv`: who knows the ID of each replica |

Each proof has one lemma per kind of step. A lemma that only one proof uses is a
named step of that proof (`<1>SendServes`), with its own comment; lemmas of a
module are those that several proofs share. Leaves that need no arithmetic name
Zenon, the others are left to the SMT solver. In `BlockProofs` and `HostProofs` a
step is split into its effect on the array, on Kubernetes and on the worker;
frame lemmas show that other workers and attachments are not disturbed.

`ContractImplemented` is a refinement: the initial states of `NodeVolume` map to
initial states of `NodeContract`, and every step to a step or to a stutter. What
needs an argument are the calls the kubelet gave up, which still mount and
unmount when their turn comes. A step that mounts is one of the contract only
while the pod is being published or unpublished and its volume is staged, and an
answer may let the kubelet go on only if no such call is left. `IInv` says why
that is so: a call the kubelet waits for is the last one of its volume in the
queue (`Ordered`), so its answer comes after every earlier call for the volume
has run; all calls but the first are at their first label (`Fresh`), so they
carry nothing they have read; and each call agrees with what the kubelet knows
(`CallOk`) and with how far it has come (`HeadOk`). The proof has one lemma per
kind of step for the going on of a call (`GoesStep`) and named steps for its ends
(`PopKeeps`, `StageAnswer`, `PodAnswer`), and cites them for each action. It uses only
the three assumptions on the constants, and none on what fails.

`Usable` and `ConfigStays` share `UInv`, which adds to `IInv` what each mount and
each call depends on. A volume has a LUN of its own while it is attached, and a
publish in the queue asks for the LUN the volume still has (`Luns`, `Asked`). A
mount is served (`Serves`): its session is there, the disk at its volume's LUN is
the mounted device, and that has a map. The running publish has found as much of
this as its label says, and the running unstage holds only paths of a device
that is not in use (`Working`). Two steps need the argument: the detach, which
removes disks it read earlier and is safe because the flush before it failed for
a device in use, and the logout of all sessions, which is safe because an iscsi
mount implies a map. Neither theorem says that the mounted device is the right
one; this is `RightVolume`, and does not hold after a failure.

`RightVolumeKept` adds `FInv`, about histories without a failed command. Every disk
of a volume is at its own LUN and its file names itself (`Tidy`), and while it
has a disk it also has the file and the map that an unstage needs to find the disk
(`Remembered`). The second is what reuse of a LUN depends on: it fails only between
the look that finds a disk and the writing of the file, and between the flush and
the detach, and the call that is there holds the mutex (`Changing`). So a LUN is
free of disks when it goes to another volume.

`ExpandedKept` has two halves. A confirmed size needs `EInv`, at any number of
faults: the expansion works on the device mounted for its pod, after the rescan the
disk at the volume's LUN has the size asked for, and after the resize so has the map
if that disk is its only one, which is where `NothingStale` comes in. That no file
system shrinks needs `SizedInv`: when nothing failed, file system, map, disk and
volume never have less than the one before.

`OneReplica` is not inductive, since a promotion that has deleted the replica
creates one whatever it finds. In `AddonsProofs` the right to create is a token:
it is with the replica, or with the promotion or demotion whose `DeleteReplica`
the array accepted, or with an enabling call that found no replica and has no
competitor. The array accepts the deletion of a replica once, which is what
keeps two clusters apart; `PromoteDeleteTolerant`, which takes "not found" for
success, breaks it. `DisableFinal` follows: the answer of
`DisableVolumeReplication` comes from an accepted deletion, so the token was with
the replica it deleted and with no promotion or demotion.

`OneReplicaEach` has the same shape with a simpler reason. `createReplica` looks
for a replica and then asks for one; what it saw is still true because the
controller has one worker, a restart begins again at the look, and the other
controllers only suspend and resume. It uses `ReadyAssumption`, that the array
holds at most one replica at the start. A second instance of the controller, or a
user who creates replicas on the array, is outside it.

`ReplicationStays` and `RoleTaken` need to know where the volume is. A replica is
created on the array that the link of the acting cluster leads to, so both have
the volume on the arrays the links lead to as a hypothesis (`Closed`), and
`RoleTaken` that these are the two arrays of one link (`Paired`), which is how
csi-addons uses the service. With three arrays in a ring, a promotion on the
array that has no replica of its own answers with success while the other two
replicate; the hypothesis is what excludes this.

`Membership` follows a call through its changes. Between them (`Midway`) the
members of the group, less the volumes to be removed and with those to be added,
are the volumes of the request, and none of these is to be removed. The
invariant is stated for a worker that is alone, since two handlers that change
one group undo each other. Earlier calls may have left any part of their work
behind, so nothing is assumed about the members the call starts from.

`StatusHonest` is about copies. A status is written from what the worker learned,
delivered by the informer, kept in the cache, and written again from there. `SInv`
says of every version of a resource (on the server, on its way, in the cache, in
the hands of a worker) that it is not newer than the server's, is the server's if
it has the same resourceVersion, and claims nothing that is not so; and of every
worker what it has done when it comes to record it. A write from a stale copy is
refused by the server, so it suffices that a write from the last version is true.
`Resumed` and `ChangedSuspended` add `GroupInv`: what the iboxcg worker read of
the members is still true, the replica it suspended is the one whose ID it has,
and the replica is active away from the change. `Removed` adds `OInv`. Versions
are delivered in order (`InOrder`); a finalizer stays until the resource is gone,
and afterwards no version is left that shows the resource live with its finalizer
(`Finalizing`), so no late copy makes the worker create a replica for a resource
that is gone; and the ID of each replica is in the status of its owner, about to
be recorded, or about to be used to delete it (`Owned`).

`NoHostLeft`. `NoEmptyHost` speaks of the moments when no call runs, and is far
from inductive. `CleanInv` gives every host the driver made a keeper: an
attachment that is not detached and whose unpublish, at whatever point it is, is
going to work on this very host and has not passed the look at the host's LUNs.
Two unpublishes of one node may each find the other's volume still mapped, but
the one that unmaps last finds none. The invariant is stated for histories
without a failed call, as the property is.

The theorems about `Nfs` share `Inv`. It says which filesystem, export and rules
belong to which object, and for each handler what the step it is about to take
relies on (what it created, found or read, and that it is still so).
`Bound` needs it because deletions find filesystems by ID and creations by name,
and a rollback deletes what its own call created. All three assume that
CreateVolume does not overlap with its own repetition: a repetition answers with
the filesystem of the first call, which may still be rolled back. `Admitted` is
the case that the code gets right of the read-modify-write of rules, a volume
used by one node at a time; `nfs_shared_rules` shows the other. `Cleaned` adds
`CleanInv`: the rules of an export are of nodes with pods that are not gone, or of
the node whose cleanup is under way.

Before they were proved, `CleanInv` of `HostProofs` was checked by TLC with three
workers and three volumes (1,355,635 states), `SInv`, `GroupInv` and `OInv` on the
instance of `controllers` (124,465 states), the invariants of `AddonsProofs`
on that of `addons` (196,696 states), and `UInv` on that of `node_volumes`
(1,693,262 states) and with two pods that share a volume and two faults (378,258).

So were `FInv`, `EInv` and `SizedInv`, on the instance of `node_volumes`
(1,693,262 states).

`Expanded` was checked beyond the instance of `node_volumes` too: with two faults
(8,561,500 states), and with a second pod for the volume that grows
(5,434,024 states, both volumes iscsi). The second instance is the one in which
the property fails when `NothingStale` is left out.

`Published` and `NoEmptyHost` rest on one property of the array that the code
needs and does not check: a host with LUNs is not deleted when the call carries
no approval.

Type correctness of `Treeq`, `BlockVolume` and `HostMap` is proved; in the other
modules the comments at the variables give the types, and the invariants of
`NfsProofs`, `ControllersProofs` and `NodeProofs` contain them.

Only model-checked: liveness (TLAPS has no backend for fairness), and
- of `Treeq`: `BoundVolumeServed`, `DataKept` and `CountMatches`, which the code
  keeps for one handler at a time and not for a create beside a delete (section 3);
  a theorem about any number of handlers cannot say it. `SizeCovers`, which adds up
  the quotas of a filesystem: what a sum over a set is after a change is an
  induction over data. And `NoEmptyFileSystem`, which is stated for handlers side
  by side and faults of one kind;
- of `BlockVolume`: `DeferredDeleted`, for the first of these reasons: two deletes
  side by side leave a marked parent behind.

## 5. What is not modelled

Sizes other than those that limits or expansions are about, names, pools, network
spaces, credentials, log output and the wording of errors. ControllerExpandVolume
of block volumes and of nfs is one call, and `nfs_export_permissions` is taken as
the set of clients it parses to. A REST request that the array carries out after
the driver has gone on to later calls is not modelled. On a node: the treeq
protocol, whose mounts are those of nfs without rules; the reuse of the names
`/dev/dm-N` that fc keeps in its file; NVMe namespaces that stay connected, which
the code never disconnects; the number of flush retries; an fc publish that goes on
with the bare disk when multipathd has made no map of it in ten seconds
(`fcnode.go:539`), which is an error in the model. `node_volumes` expands the
filesystem volume only. The PersistentVolumes and claims of remote copies are
there for the ways a reconcile can end, and no property is about them; the secret
that `CreateRemotePV` copies to another cluster is not part of the state.

Whole parts that are left out, with the reasons that `PROJECT.json` gives too:

- the COSI driver: a separate program without state or locks, whose calls change
  at most one bucket with one request; granting and revoking change nothing;
- the event and pool counters: four numbers that only the text of a daily event
  depends on;
- the metrics exporter: reads only;
- generated code, end-to-end tests and release tools.

## 6. What could follow

1. Liveness of the deletes of `Nfs` (a pod that Kubernetes keeps starting runs, a
   repeated delete succeeds).
2. A composition of `Controllers` with `Groups`, whose `handleSCReplica` makes
   their resources.
3. A proof of `NoEmptyFileSystem`, for any number of handlers.
4. Pure functions (rounding of sizes, expiry of snapshot locks, volume IDs,
   paging), each against a reference definition.
