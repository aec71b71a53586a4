-------------------------------- MODULE Nfs --------------------------------
(***************************************************************************)
(* NFS volumes: filesystems, their exports, and the permission rules that  *)
(* let nodes mount them (storage/nfs over api/nfsapiclient.go).            *)
(*                                                                         *)
(* A volume whose storage class sets nfs_export_permissions gets its       *)
(* export when it is created and a rule for a node when it is attached     *)
(* there.  The export of any other volume is made, and its rules are       *)
(* extended, by the nodes that mount it.  With cleanup switched on, a node *)
(* takes its rule back when the last pod using the volume is gone.  All    *)
(* changes of rules are read-modify-write over two REST calls.             *)
(*                                                                         *)
(* A worker is a goroutine that serves one gRPC call, in the controller    *)
(* process or in the process of a node; each REST call is one step.        *)
(***************************************************************************)
EXTENDS Naturals, FiniteSets, Calls

CONSTANTS
    Worker,             \* goroutines serving gRPC calls
    Volume,             \* PV names
    Snapshot,           \* names of VolumeSnapshotContents
    Source,             \* Source[o]: what o is a snapshot or clone of
    Permissions,        \* Permissions[v]: clients in nfs_export_permissions, {} if not set
    Shared,             \* volumes that may be attached to several nodes
    Locking,            \* snapshots whose class sets lock_expires_at
    Node, Pod,
    Uses,               \* Uses[p]: volume and node of pod p
    Overlap,            \* calls that are repeated while they still run
    Cleanup,            \* nodes remove their rules (env CLEANUP_NFS_PERMISSIONS)
    FileSystemID, ExportID,
    Star, Other,        \* the client "*", and one that is no node
    NoID, NoObject, NoNode, NoPod

Object == Volume \cup Snapshot
Client == Node \cup {Star, Other}
Attachment == Volume \X Node

ASSUME NfsObjectAssumption == Volume \cap Snapshot = {} /\ NoObject \notin Object
ASSUME NfsSourceAssumption ==
    /\ Source \in [Object -> Object \cup {NoObject}]
    /\ \A s \in Snapshot : Source[s] \in Object
ASSUME NfsClassAssumption ==
    /\ Permissions \in [Volume -> SUBSET Client]
    /\ Shared \subseteq Volume /\ Locking \subseteq Snapshot /\ Cleanup \in BOOLEAN
ASSUME PodAssumption == Uses \in [Pod -> Attachment]
ASSUME NfsIDAssumption ==
    /\ NoID \notin FileSystemID \cup ExportID
    /\ NoNode \notin Node /\ NoPod \notin Pod /\ {Star, Other} \cap Node = {}

VARIABLES
    (* the array *)
    fss,        \* filesystems that exist
    name,       \* name[f]: the object f was created for
    parent,     \* parent[f]: the filesystem f is a snapshot of, or NoID
    locked,     \* filesystems in lock state LOCKED
    export,     \* export[f]: ID of the export of f, or NoID
    rules,      \* rules[f]: clients that this export admits
    (* Kubernetes *)
    phase,      \* life of the PV or VolumeSnapshotContent
    handle,     \* handle[o]: filesystem ID in the object's handle
    exportID,   \* exportID[v]: export ID in the volume context
    attach,     \* state of each attachment
    pods,       \* state of each pod
    (* the nodes *)
    mounted,    \* pods whose target path is mounted
    (* the driver's processes *)
    pc,         \* the REST call a worker makes next
    my          \* request and local variables of a worker

array == <<fss, name, parent, locked, export, rules>>
k8s == <<phase, handle, exportID, attach, pods>>
vars == <<array, k8s, mounted, pc, my, faults>>

-----------------------------------------------------------------------------
Children(f) == {g \in fss : parent[g] = f}
Named(o) == {f \in fss : name[f] = o}
Exported(e) == {f \in fss : e # NoID /\ export[f] = e}

\* id: filesystem.  up: its parent.  exp, old: export and rules as last read.
Call(op, o, n, p, f) ==
    [op |-> op, obj |-> o, node |-> n, pod |-> p, id |-> f, up |-> NoID, exp |-> NoID, old |-> {}]
NoCall == Call("none", NoObject, NoNode, NoPod, NoID)

\* IDs are never given out twice; one that nobody remembers is as good as new.
FreshFileSystemID ==
    {f \in FileSystemID :
        /\ f \notin fss /\ \A g \in fss : parent[g] # f
        /\ \A o \in Object : handle[o] # f
        /\ \A w \in Worker : my[w].id # f /\ my[w].up # f}
NewFileSystemID == CHOOSE f \in FreshFileSystemID : TRUE

FreshExportID ==
    {e \in ExportID :
        /\ Exported(e) = {}
        /\ \A v \in Volume : exportID[v] # e
        /\ \A w \in Worker : my[w].exp # e}
NewExportID == CHOOSE e \in FreshExportID : TRUE

Init ==
    /\ fss = {} /\ locked = {} /\ mounted = {}
    /\ name = [f \in FileSystemID |-> NoObject]
    /\ parent = [f \in FileSystemID |-> NoID]
    /\ export = [f \in FileSystemID |-> NoID]
    /\ rules = [f \in FileSystemID |-> {}]
    /\ phase = [o \in Object |-> "unbound"]
    /\ handle = [o \in Object |-> NoID]
    /\ exportID = [v \in Volume |-> NoID]
    /\ attach = [a \in Attachment |-> "detached"]
    /\ pods = [p \in Pod |-> "absent"]
    /\ pc = [w \in Worker |-> "idle"]
    /\ my = [w \in Worker |-> NoCall]
    /\ faults = 0

Goto(w, label, m) ==
    /\ pc' = [pc EXCEPT ![w] = label]
    /\ my' = [my EXCEPT ![w] = m]
    /\ UNCHANGED k8s

Leave(w) ==
    /\ pc' = [pc EXCEPT ![w] = "idle"]
    /\ my' = [my EXCEPT ![w] = NoCall]

\* After an error Kubernetes repeats the call later.
ReturnError(w) == Leave(w) /\ UNCHANGED k8s

\* getNfsCsiResponse: the filesystem in the handle, the export in the context.
ReturnCreated(w, f, e) ==
    /\ Leave(w)
    /\ phase' = [phase EXCEPT ![my[w].obj] = "bound"]
    /\ handle' = [handle EXCEPT ![my[w].obj] = f]
    /\ exportID' = [v \in Volume |-> IF v = my[w].obj THEN e ELSE exportID[v]]
    /\ UNCHANGED <<attach, pods>>

ReturnDeleted(w) ==
    /\ Leave(w)
    /\ phase' = [phase EXCEPT ![my[w].obj] = "gone"]
    /\ UNCHANGED <<handle, exportID, attach, pods>>

ReturnAttach(w, s) ==
    /\ Leave(w)
    /\ attach' = [attach EXCEPT ![<<my[w].obj, my[w].node>>] = s]
    /\ UNCHANGED <<phase, handle, exportID, pods>>

ReturnPod(w, s) ==
    /\ Leave(w)
    /\ pods' = [pods EXCEPT ![my[w].pod] = s]
    /\ UNCHANGED <<phase, handle, exportID, attach>>

-----------------------------------------------------------------------------
(* Kubernetes starts calls.  Calls for one object are in flight one at a     *)
(* time, but those for a shared volume may come from several nodes at once,  *)
(* and a call that took too long may be repeated while it still runs.        *)

Free(op, o, n) ==
    \A w \in Worker : my[w].obj = o =>
        \/ my[w].op = op /\ op \in Overlap
        \/ o \in Shared /\ my[w].node \notin {n, NoNode}

StartCreate(w, o) ==
    /\ pc[w] = "idle" /\ phase[o] = "unbound" /\ Free("create", o, NoNode)
    /\ Source[o] # NoObject => phase[Source[o]] = "bound"
    /\ Goto(w, "byName", Call("create", o, NoNode, NoPod, NoID))
    /\ UNCHANGED <<array, mounted, faults>>

StartDelete(w, o) ==
    /\ pc[w] = "idle" /\ phase[o] \in {"bound", "deleting"} /\ Free("delete", o, NoNode)
    /\ \A a \in Attachment : a[1] = o => attach[a] = "detached"
    /\ phase' = [phase EXCEPT ![o] = "deleting"]
    /\ pc' = [pc EXCEPT ![w] = "get"]
    /\ my' = [my EXCEPT ![w] = Call("delete", o, NoNode, NoPod, handle[o])]
    /\ UNCHANGED <<array, handle, exportID, attach, pods, mounted, faults>>

\* A volume that is not shared is attached to one node at a time.
StartAttach(w, v, n) ==
    /\ pc[w] = "idle" /\ phase[v] = "bound" /\ Free("attach", v, n)
    /\ attach[<<v, n>>] \in {"detached", "attaching"}
    /\ v \in Shared \/ \A m \in Node \ {n} : attach[<<v, m>>] = "detached"
    /\ attach' = [attach EXCEPT ![<<v, n>>] = "attaching"]
    /\ pc' = [pc EXCEPT ![w] = "publish"]
    /\ my' = [my EXCEPT ![w] = Call("attach", v, n, NoPod, handle[v])]
    /\ UNCHANGED <<array, phase, handle, exportID, pods, mounted, faults>>

StartDetach(w, v, n) ==
    /\ pc[w] = "idle" /\ attach[<<v, n>>] # "detached" /\ Free("detach", v, n)
    /\ \A p \in Pod : Uses[p] = <<v, n>> => pods[p] = "absent"
    /\ attach' = [attach EXCEPT ![<<v, n>>] = "detaching"]
    /\ pc' = [pc EXCEPT ![w] = "unpublish"]
    /\ my' = [my EXCEPT ![w] = Call("detach", v, n, NoPod, handle[v])]
    /\ UNCHANGED <<array, phase, handle, exportID, pods, mounted, faults>>

NodeCall == {"mount", "unmount"}

\* Node handlers hold the node's mutex (ManageNodeVolumeMutex) to their end.
MutexFree(n) == \A w \in Worker : my[w].op \in NodeCall => my[w].node # n

StartPod(w, p, op, from, to, label) ==
    LET v == Uses[p][1]
        n == Uses[p][2]
    IN  /\ pc[w] = "idle" /\ pods[p] \in from /\ attach[<<v, n>>] = "attached"
        /\ Free(op, v, n) /\ MutexFree(n)
        /\ pods' = [pods EXCEPT ![p] = to]
        /\ pc' = [pc EXCEPT ![w] = label]
        /\ my' = [my EXCEPT ![w] = Call(op, v, n, p, handle[v])]
        /\ UNCHANGED <<array, phase, handle, exportID, attach, mounted, faults>>

\* The node creates or extends the export only if no permissions were given.
StartMount(w, p) ==
    StartPod(w, p, "mount", {"absent", "starting"}, "starting",
             IF Permissions[Uses[p][1]] = {} THEN "fsName" ELSE "mount")

StartUnmount(w, p) ==
    StartPod(w, p, "unmount", {"starting", "running", "stopping"}, "stopping", "unmount")

LockExpires(f) ==
    /\ f \in locked
    /\ locked' = locked \ {f}
    /\ UNCHANGED <<fss, name, parent, export, rules, k8s, mounted, pc, my, faults>>

\* The workers of a process end with it.
Die(ws) ==
    /\ pc' = [w \in Worker |-> IF w \in ws THEN "idle" ELSE pc[w]]
    /\ my' = [w \in Worker |-> IF w \in ws THEN NoCall ELSE my[w]]
    /\ UNCHANGED <<array, k8s, mounted>>

ControllerWorkers == {w \in Worker : my[w].op \notin NodeCall}
NodeWorkers(n) == {w \in Worker : my[w].op \in NodeCall /\ my[w].node = n}

Crash(ws) ==
    /\ \E w \in ws : pc[w] # "idle"
    /\ Fault("crash") /\ Die(ws)

-----------------------------------------------------------------------------
(* CreateVolume and CreateSnapshot. *)

\* For a snapshot that exists the parent is compared; for a volume the size,
\* which is the one asked for, since names are not reused.
GetFileSystemByName(w) ==
    /\ pc[w] = "byName"
    /\ LET o == my[w].obj
           source == handle[Source[o]]
       IN  \/ /\ Named(o) = {} /\ UNCHANGED faults
              /\ Goto(w, IF Source[o] = NoObject THEN "create" ELSE "source", my[w])
           \/ /\ UNCHANGED faults
              /\ \E f \in Named(o) :
                    IF o \in Volume THEN Goto(w, "exports", [my[w] EXCEPT !.id = f])
                    ELSE IF parent[f] = source THEN ReturnCreated(w, f, NoID)
                    ELSE ReturnError(w)
           \/ Fault("GetFileSystemByName") /\ ReturnError(w)
    /\ UNCHANGED <<array, mounted>>

\* A repeated CreateVolume answers with what an earlier call left, without
\* finishing it: if there is no export yet, the export ID is 0.
ExistingVolume(w) ==
    /\ pc[w] = "exports"
    /\ \/ ReturnCreated(w, my[w].id, export[my[w].id]) /\ UNCHANGED faults
       \/ Fault("GetExportsByFileSystemID") /\ ReturnError(w)
    /\ UNCHANGED <<array, mounted>>

NewFileSystem(f, o, p) ==
    /\ fss' = fss \cup {f}
    /\ name' = [name EXCEPT ![f] = o]
    /\ parent' = [parent EXCEPT ![f] = p]
    /\ locked' = IF o \in Locking THEN locked \cup {f} ELSE locked
    /\ UNCHANGED <<export, rules>>

\* The next call once the filesystem of a volume is there.
Prepare(v) == IF Permissions[v] = {} THEN "metadata" ELSE "export"

\* The array refuses a name that is taken.  FileSystemID and ExportID are bounds:
\* nothing is created when all their members are in use.
CreateFileSystem(w) ==
    /\ pc[w] = "create"
    /\ LET o == my[w].obj
           f == NewFileSystemID
       IN  \/ Named(o) # {} /\ ReturnError(w) /\ UNCHANGED <<array, faults>>
           \/ Named(o) = {} /\ FreshFileSystemID # {} /\ \E out \in Outcome :
                /\ Charge("CreateFileSystem", out)
                /\ IF Done(out) THEN NewFileSystem(f, o, NoID) ELSE UNCHANGED array
                /\ IF Ok(out) THEN Goto(w, Prepare(o), [my[w] EXCEPT !.id = f]) ELSE ReturnError(w)
    /\ UNCHANGED mounted

\* A clone must have the size and the pool of its source.
GetSource(w) ==
    /\ pc[w] = "source"
    /\ LET o == my[w].obj
           source == handle[Source[o]]
       IN  \/ source \in fss /\ Goto(w, "snap", [my[w] EXCEPT !.up = source]) /\ UNCHANGED faults
           \/ (source \notin fss \/ o \in Volume) /\ ReturnError(w) /\ UNCHANGED faults
           \/ Fault("GetFileSystemByID") /\ ReturnError(w)
    /\ UNCHANGED <<array, mounted>>

CreateFileSystemSnapshot(w) ==
    /\ pc[w] = "snap"
    /\ LET o == my[w].obj
           f == NewFileSystemID
           refused == Named(o) # {} \/ my[w].up \notin fss
       IN  \/ refused /\ ReturnError(w) /\ UNCHANGED <<array, faults>>
           \/ ~refused /\ FreshFileSystemID # {} /\ \E out \in Outcome :
                /\ Charge("CreateFileSystemSnapshot", out)
                /\ IF Done(out) THEN NewFileSystem(f, o, my[w].up) ELSE UNCHANGED array
                /\ IF ~Ok(out) THEN ReturnError(w)
                   ELSE IF o \in Snapshot THEN ReturnCreated(w, f, NoID)
                   ELSE Goto(w, Prepare(o), [my[w] EXCEPT !.id = f])
    /\ UNCHANGED mounted

SetExport(f, e, clients) ==
    /\ export' = [export EXCEPT ![f] = e]
    /\ rules' = [rules EXCEPT ![f] = clients]
    /\ UNCHANGED <<fss, name, parent, locked>>

\* The path of an export is unique, and it is the filesystem's name.
ExportRefused(f) == f \notin fss \/ export[f] # NoID

createExportPath(w) ==
    /\ pc[w] = "export"
    /\ LET f == my[w].id
           e == NewExportID
       IN  \/ ExportRefused(f) /\ Goto(w, "undoFS", my[w]) /\ UNCHANGED <<array, faults>>
           \/ ~ExportRefused(f) /\ FreshExportID # {} /\ \E out \in Outcome :
                /\ Charge("CreateExport", out)
                /\ IF Done(out) THEN SetExport(f, e, Permissions[my[w].obj]) ELSE UNCHANGED array
                /\ IF Ok(out) THEN Goto(w, "metadata", [my[w] EXCEPT !.exp = e])
                   ELSE Goto(w, "undoFS", my[w])
    /\ UNCHANGED mounted

\* host.k8s.pvname and host.created_by, which nothing reads again.
AddMetadata(w) ==
    /\ pc[w] = "metadata"
    /\ LET undo == Goto(w, IF my[w].exp = NoID THEN "undoFS" ELSE "undoExport", my[w])
       IN  \/ my[w].id \in fss /\ ReturnCreated(w, my[w].id, my[w].exp) /\ UNCHANGED faults
           \/ my[w].id \notin fss /\ undo /\ UNCHANGED faults
           \/ Fault("PutMetadata") /\ undo
    /\ UNCHANGED <<array, mounted>>

\* The deferred functions of CreateExportPathAndAddMetadata only log errors.
UndoExport(w) ==
    /\ pc[w] = "undoExport"
    /\ \E out \in Outcome :
        /\ Charge("DeleteExport", out)
        /\ IF Done(out) /\ Exported(my[w].exp) # {} THEN SetExport(my[w].id, NoID, {})
           ELSE UNCHANGED array
    /\ Goto(w, "undoFS", my[w])
    /\ UNCHANGED mounted

RemoveFileSystem(f) ==
    /\ fss' = fss \ {f}
    /\ locked' = locked \ {f}
    /\ name' = [name EXCEPT ![f] = NoObject]
    /\ parent' = [parent EXCEPT ![f] = NoID]
    /\ export' = [export EXCEPT ![f] = NoID]
    /\ rules' = [rules EXCEPT ![f] = {}]

\* The array keeps a filesystem with children.  Whether it keeps one that still
\* has an export the driver's code does not tell: it may.
DeleteRefused(f) == f \notin fss \/ Children(f) # {}

UndoFileSystem(w) ==
    /\ pc[w] = "undoFS"
    /\ LET f == my[w].id
       IN  \/ (DeleteRefused(f) \/ export[f] # NoID) /\ UNCHANGED <<array, faults>>
           \/ ~DeleteRefused(f) /\ \E out \in Outcome :
                /\ Charge("DeleteFileSystem", out)
                /\ IF Done(out) THEN RemoveFileSystem(f) ELSE UNCHANGED array
    /\ ReturnError(w)
    /\ UNCHANGED mounted

-----------------------------------------------------------------------------
(* DeleteVolume and DeleteSnapshot: DeleteNFSVolume. *)

Locked(f) == f \in locked

GetFileSystemByID(w) ==
    /\ pc[w] = "get"
    /\ LET f == my[w].id
       IN  \/ f \notin fss /\ ReturnDeleted(w) /\ UNCHANGED faults
           \/ f \in fss /\ Locked(f) /\ ReturnError(w) /\ UNCHANGED faults
           \/ /\ f \in fss /\ ~Locked(f) /\ UNCHANGED faults
              /\ Goto(w, "children", [my[w] EXCEPT !.up = parent[f]])
           \/ Fault("GetFileSystemByID") /\ ReturnError(w)
    /\ UNCHANGED <<array, mounted>>

\* With children the metadata is written with no key at all, so nothing says
\* that the filesystem is to be deleted; Kubernetes is told that it is.
GetFileSystemsByParentID(w) ==
    /\ pc[w] = "children"
    /\ LET f == my[w].id
       IN  \/ Children(f) = {} /\ Goto(w, "delExports", my[w]) /\ UNCHANGED faults
           \/ Children(f) # {} /\ ReturnDeleted(w) /\ UNCHANGED faults
           \/ Fault("GetFileSystemsByParentID") /\ ReturnError(w)
           \/ Children(f) # {} /\ Fault("PutMetadata") /\ ReturnError(w)
    /\ UNCHANGED <<array, mounted>>

\* DeleteFileSystemComplete lists the exports of the filesystem ...
GetExports(w) ==
    /\ pc[w] = "delExports"
    /\ LET e == export[my[w].id]
       IN  \/ /\ UNCHANGED faults
              /\ Goto(w, IF e = NoID THEN "delMeta" ELSE "delExport", [my[w] EXCEPT !.exp = e])
           \/ Fault("GetExportsByFileSystemID") /\ ReturnError(w)
    /\ UNCHANGED <<array, mounted>>

\* ... and deletes them.  Only "not found" ends the call with an error; others
\* are ignored.
DeleteExport(w) ==
    /\ pc[w] = "delExport"
    /\ LET found == export[my[w].id] = my[w].exp
       IN  \/ ~found /\ ReturnError(w) /\ UNCHANGED <<array, faults>>
           \/ found /\ \E out \in Outcome :
                /\ Charge("DeleteExport", out)
                /\ IF Done(out) THEN SetExport(my[w].id, NoID, {}) ELSE UNCHANGED array
                /\ Goto(w, "delMeta", my[w])
    /\ UNCHANGED mounted

\* The metadata of a filesystem that is gone may or may not be an error.
DeleteMetadata(w) ==
    /\ pc[w] = "delMeta"
    /\ \/ Goto(w, "delFS", my[w]) /\ UNCHANGED faults
       \/ my[w].id \notin fss /\ ReturnError(w) /\ UNCHANGED faults
       \/ Fault("DeleteMetadata") /\ ReturnError(w)
    /\ UNCHANGED <<array, mounted>>

DeleteFileSystem(w) ==
    /\ pc[w] = "delFS"
    /\ LET f == my[w].id
       IN  \/ f \notin fss /\ ReturnDeleted(w) /\ UNCHANGED <<array, faults>>
           \/ /\ f \in fss /\ (DeleteRefused(f) \/ export[f] # NoID)
              /\ ReturnError(w) /\ UNCHANGED <<array, faults>>
           \/ ~DeleteRefused(f) /\ \E out \in Outcome :
                /\ Charge("DeleteFileSystem", out)
                /\ IF Done(out) THEN RemoveFileSystem(f) ELSE UNCHANGED array
                /\ IF ~Ok(out) THEN ReturnError(w)
                   ELSE IF my[w].up = NoID THEN ReturnDeleted(w)
                   ELSE Goto(w, "parent", my[w])
    /\ UNCHANGED mounted

DeleteAnyParent(w) ==
    /\ pc[w] = "parent"
    /\ Goto(w, "get", [my[w] EXCEPT !.id = my[w].up])
    /\ UNCHANGED <<array, mounted, faults>>

\* DeleteParentFileSystem deletes a parent that is marked.  None ever is.
DeleteParentFileSystem(w) ==
    /\ pc[w] = "parent"
    /\ \/ ReturnDeleted(w) /\ UNCHANGED faults
       \/ my[w].up \notin fss /\ ReturnError(w) /\ UNCHANGED faults
       \/ Fault("GetMetadata") /\ ReturnError(w)
    /\ UNCHANGED <<array, mounted>>

-----------------------------------------------------------------------------
(* ControllerPublishVolume and ControllerUnpublishVolume. *)

\* AddNodeInExport looks the export up by the ID in the volume context.  If
\* that fails it dereferences a nil pointer, and the process ends.
GetExportByID(w) ==
    /\ pc[w] = "publish"
    /\ LET v == my[w].obj
           e == exportID[v]
       IN  \/ /\ Permissions[v] = {} /\ ReturnAttach(w, "attached")
              /\ UNCHANGED <<array, mounted, faults>>
           \/ /\ Permissions[v] # {} /\ UNCHANGED <<array, mounted, faults>>
              /\ \E f \in Exported(e) :
                    IF {my[w].node, Star} \cap rules[f] # {} THEN ReturnAttach(w, "attached")
                    ELSE Goto(w, "addNode", [my[w] EXCEPT !.exp = e, !.old = rules[f]])
           \/ Permissions[v] # {} /\ Exported(e) = {} /\ Die(ControllerWorkers) /\ UNCHANGED faults
           \/ Permissions[v] # {} /\ Fault("GetExportByID") /\ Die(ControllerWorkers)

\* UpdateExportPermissions replaces the whole list of an export.
PutRules(w, clients) ==
    LET fs == Exported(my[w].exp)
    IN  rules' = [f \in FileSystemID |-> IF f \in fs THEN clients ELSE rules[f]]

AddNodeInExport(w) ==
    /\ pc[w] = "addNode"
    /\ LET found == Exported(my[w].exp) # {}
       IN  \/ ~found /\ ReturnError(w) /\ UNCHANGED <<rules, faults>>
           \/ found /\ \E out \in Outcome :
                /\ Charge("UpdateExportPermissions", out)
                /\ IF Done(out) THEN PutRules(w, my[w].old \cup {my[w].node}) ELSE UNCHANGED rules
                /\ IF Ok(out) THEN ReturnAttach(w, "attached") ELSE ReturnError(w)
    /\ UNCHANGED <<fss, name, parent, locked, export, mounted>>

\* DeleteExportRule compares the clients with the node ID, "<name>$$<address>",
\* which none of them is: it only reads.
DeleteExportRule(w) ==
    /\ pc[w] = "unpublish"
    /\ \/ ReturnAttach(w, "detached") /\ UNCHANGED faults
       \/ Fault("GetExportsByFileSystemID") /\ ReturnError(w)
    /\ UNCHANGED <<array, mounted>>

-----------------------------------------------------------------------------
(* NodePublishVolume and NodeUnpublishVolume. *)

\* UpdateExport reads the filesystem, whose name is the path of the export ...
GetExportPath(w) ==
    /\ pc[w] = "fsName"
    /\ \/ my[w].id \in fss /\ Goto(w, "rules", my[w]) /\ UNCHANGED faults
       \/ my[w].id \notin fss /\ ReturnError(w) /\ UNCHANGED faults
       \/ Fault("GetFileSystemByID") /\ ReturnError(w)
    /\ UNCHANGED <<array, mounted>>

\* ... and its export.  A rule for this very node needs no update.
UpdateExport(w) ==
    /\ pc[w] = "rules"
    /\ LET e == export[my[w].id]
           old == rules[my[w].id]
           next == IF e = NoID THEN "newExport"
                   ELSE IF my[w].node \in old THEN "mount" ELSE "addRule"
       IN  \/ Goto(w, next, [my[w] EXCEPT !.exp = e, !.old = old]) /\ UNCHANGED faults
           \/ Fault("GetExportsByFileSystemID") /\ ReturnError(w)
    /\ UNCHANGED <<array, mounted>>

\* "old perms plus new perms"
OldPlusNew(w) == my[w].old \cup {my[w].node}

AddRule(w) ==
    /\ pc[w] = "addRule"
    /\ LET found == Exported(my[w].exp) # {}
       IN  \/ ~found /\ ReturnError(w) /\ UNCHANGED <<rules, faults>>
           \/ found /\ \E out \in Outcome :
                /\ Charge("UpdateExportPermissions", out)
                /\ IF Done(out) THEN PutRules(w, OldPlusNew(w)) ELSE UNCHANGED rules
                /\ IF Ok(out) THEN Goto(w, "mount", my[w]) ELSE ReturnError(w)
    /\ UNCHANGED <<fss, name, parent, locked, export, mounted>>

CreateExport(w) ==
    /\ pc[w] = "newExport"
    /\ LET f == my[w].id
       IN  \/ ExportRefused(f) /\ ReturnError(w) /\ UNCHANGED <<array, faults>>
           \/ ~ExportRefused(f) /\ FreshExportID # {} /\ \E out \in Outcome :
                /\ Charge("CreateExport", out)
                /\ IF Done(out) THEN SetExport(f, NewExportID, {my[w].node}) ELSE UNCHANGED array
                /\ IF Ok(out) THEN Goto(w, "mount", my[w]) ELSE ReturnError(w)
    /\ UNCHANGED mounted

\* Which nodes the array lets use the filesystem.
Covered(f, n) == export[f] # NoID /\ {n, Star} \cap rules[f] # {}

\* The mount, and then SetVolumePermissions, whose error leaves the mount.  The
\* kernel may refuse to mount the same filesystem twice at one place.
Mount(w) ==
    /\ pc[w] = "mount"
    /\ LET p == my[w].pod
           covered == Covered(my[w].id, my[w].node)
       IN  \/ (~covered \/ p \in mounted) /\ ReturnError(w) /\ UNCHANGED <<mounted, faults>>
           \/ covered /\ \E out \in Outcome :
                /\ Charge("Mount", out)
                /\ mounted' = IF Done(out) THEN mounted \cup {p} ELSE mounted
                /\ IF Ok(out) THEN ReturnPod(w, "running") ELSE ReturnError(w)
    /\ UNCHANGED array

\* UnmountAndCleanUp makes sure that nothing is mounted, then removes the
\* directory.
Unmount(w) ==
    /\ pc[w] = "unmount"
    /\ \E out \in Outcome :
        /\ Charge("Unmount", out)
        /\ mounted' = IF Done(out) THEN mounted \ {my[w].pod} ELSE mounted
        /\ IF ~Ok(out) THEN ReturnError(w)
           ELSE IF Cleanup THEN Goto(w, "cleanup", my[w])
           ELSE ReturnPod(w, "absent")
    /\ UNCHANGED array

AlwaysUnused(w) == TRUE
NothingMounted(w) == \A p \in mounted : Uses[p][2] # my[w].node

\* isVolumeMounted: no pod of this node has the volume mounted.
Unused(w) == \A p \in mounted : Uses[p] # <<my[w].obj, my[w].node>>

\* cleanupNFSPerms takes the rule of this node away if the node does not use
\* the volume any more.  All its errors are only logged.
cleanupNFSPerms(w) ==
    /\ pc[w] = "cleanup"
    /\ LET f == my[w].id
           clean == f \in fss /\ export[f] # NoID /\ Unused(w) /\ my[w].node \in rules[f]
       IN  \/ ~clean /\ ReturnPod(w, "absent") /\ UNCHANGED faults
           \/ /\ clean /\ UNCHANGED faults
              /\ Goto(w, IF rules[f] = {my[w].node} THEN "dropExport" ELSE "dropRule",
                      [my[w] EXCEPT !.exp = export[f], !.old = rules[f]])
           \/ Fault("GetExportsByFileSystemID") /\ ReturnPod(w, "absent")
    /\ UNCHANGED <<array, mounted>>

\* An export cannot be without rules.
DropExport(w) ==
    /\ pc[w] = "dropExport"
    /\ \E out \in Outcome :
        /\ Charge("DeleteExport", out)
        /\ IF Done(out) /\ Exported(my[w].exp) # {} THEN SetExport(my[w].id, NoID, {})
           ELSE UNCHANGED array
    /\ ReturnPod(w, "absent")
    /\ UNCHANGED mounted

DropRule(w) ==
    /\ pc[w] = "dropRule"
    /\ \E out \in Outcome :
        /\ Charge("UpdateExportPermissions", out)
        /\ IF Done(out) THEN PutRules(w, my[w].old \ {my[w].node}) ELSE UNCHANGED rules
    /\ ReturnPod(w, "absent")
    /\ UNCHANGED <<fss, name, parent, locked, export, mounted>>

-----------------------------------------------------------------------------
CreateStep(w) ==
    \/ GetFileSystemByName(w) \/ ExistingVolume(w) \/ CreateFileSystem(w) \/ GetSource(w)
    \/ CreateFileSystemSnapshot(w) \/ createExportPath(w) \/ AddMetadata(w)
    \/ UndoExport(w) \/ UndoFileSystem(w)

DeleteStep(w) ==
    \/ GetFileSystemByID(w) \/ GetFileSystemsByParentID(w) \/ GetExports(w) \/ DeleteExport(w)
    \/ DeleteMetadata(w) \/ DeleteFileSystem(w) \/ DeleteParentFileSystem(w)

PublishStep(w) == GetExportByID(w) \/ AddNodeInExport(w) \/ DeleteExportRule(w)

NodeStep(w) ==
    \/ GetExportPath(w) \/ UpdateExport(w) \/ AddRule(w) \/ CreateExport(w) \/ Mount(w)
    \/ Unmount(w) \/ cleanupNFSPerms(w) \/ DropExport(w) \/ DropRule(w)

Step(w) == CreateStep(w) \/ DeleteStep(w) \/ PublishStep(w) \/ NodeStep(w)

Next ==
    \/ \E w \in Worker, o \in Object : StartCreate(w, o) \/ StartDelete(w, o)
    \/ \E w \in Worker, v \in Volume, n \in Node : StartAttach(w, v, n) \/ StartDetach(w, v, n)
    \/ \E w \in Worker, p \in Pod : StartMount(w, p) \/ StartUnmount(w, p)
    \/ \E w \in Worker : Step(w)
    \/ \E f \in FileSystemID : LockExpires(f)
    \/ Crash(ControllerWorkers)
    \/ \E n \in Node : Crash(NodeWorkers(n))

Spec == Init /\ [][Next]_vars

-----------------------------------------------------------------------------
(* Properties. *)

\* A bound volume or snapshot is served: no deletion, and no rollback of a
\* CreateVolume of another object, takes its filesystem, and the deletion of a
\* snapshot or clone never takes its source.  (A CreateVolume that runs beside
\* its own repetition may roll back what that one answered with: "create" is
\* not in Overlap where this is checked or proved.)
BoundServed == \A o \in Object : phase[o] = "bound" => handle[o] \in fss

MountedOn(v, n) == \E p \in mounted : Uses[p] = <<v, n>>

\* The export of a volume that is used by one node at a time admits that node
\* for as long as a pod there has it mounted: neither the cleanup for another
\* pod or another node, nor a deletion or an error, takes the rule away.
MountedCovered ==
    \A v \in Volume \ Shared, n \in Node : MountedOn(v, n) => Covered(handle[v], n)

\* "requiring the new node's ip address to be covered by an export permission":
\* the same for volumes that several nodes use at once.  It fails when the
\* cleanup of one node deletes an export that another has just been added to.
SharedCovered ==
    \A v \in Shared, n \in Node : MountedOn(v, n) => Covered(handle[v], n)

Quiet == \A w \in Worker : pc[w] = "idle"

\* "removed unused NFS permissions for a given IP (node) if there are no mounts
\* on the node any longer": between calls that met no fault, a node whose pods
\* that use a volume are all gone is not admitted to it.
RulesCleaned ==
    Cleanup /\ Quiet /\ faults = 0 =>
        \A v \in Volume \ Shared, n \in Node :
            Permissions[v] = {} /\ phase[v] = "bound" /\ n \in rules[handle[v]] =>
                \E p \in Pod : Uses[p] = <<v, n>> /\ pods[p] # "absent"
=============================================================================
