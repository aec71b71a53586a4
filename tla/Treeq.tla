------------------------------- MODULE Treeq -------------------------------
(***************************************************************************)
(* The treeq service of the controller (storage/treeq).  A PVC of a        *)
(* nfs_treeq storage class is a treeq, a directory with a quota, inside a  *)
(* filesystem that several PVCs share.  The service creates filesystems as *)
(* they fill up, grows them, keeps the number of treeqs in the filesystem's *)
(* metadata, and deletes a filesystem with its last treeq.                 *)
(*                                                                         *)
(* A worker is a goroutine that serves one gRPC call.  Each REST call to   *)
(* the array is one step, so calls of different workers interleave the way *)
(* the array serialises them.  CreateTreeqVolume runs under one mutex,     *)
(* DeleteTreeqVolume under another one, UpdateTreeqVolume under none.      *)
(***************************************************************************)
EXTENDS Integers, FiniteSets, FiniteSetsExt, Calls

CONSTANTS
    Worker,             \* goroutines serving gRPC calls
    Volume,             \* PV names, which are also the treeq names
    FileSystem,         \* filesystem IDs the array may hand out
    Request,            \* Request[v]: capacity the PVC of v asks for
    Capacity,           \* capacities a PVC may be expanded to
    MaxTreeqsPerFS,     \* max_treeqs_per_filesystem, or the array's limit
    MaxFileSystemSize,  \* max_filesystem_size in bytes
    ExportPermissions,  \* nfs_export_permissions is set in the storage class
    Overlap,            \* may two calls for one volume be in flight
    Nobody, NoFS, NoVolume

ASSUME WorkerAssumption == Nobody \notin Worker
ASSUME VolumeAssumption == IsFiniteSet(Volume) /\ NoVolume \notin Volume
ASSUME FileSystemAssumption == NoFS \notin FileSystem
ASSUME CapacityAssumption == Capacity \subseteq Nat \ {0} /\ Request \in [Volume -> Nat \ {0}]
ASSUME LimitAssumption == MaxTreeqsPerFS \in Nat \ {0} /\ MaxFileSystemSize \in Nat
ASSUME FlagAssumption == ExportPermissions \in BOOLEAN /\ Overlap \in BOOLEAN

VARIABLES
    (* the array *)
    live,           \* filesystems that exist in the pool
    used,           \* filesystem IDs handed out so far
    name,           \* name[f]: the PV after which f was named
    size,           \* size[f] in bytes
    quota,          \* quota[f][v]: hard capacity of treeq v in f, 0 if none
    allotted,       \* allotted[f]: sum of the hard capacities of f's treeqs
    count,          \* count[f]: metadata host.k8s.treeqs
    exported,       \* filesystems that have an NFS export
    data,           \* pairs <<f, v>> of treeqs whose used capacity is not 0
    (* Kubernetes *)
    phase,          \* life of the volume's PV
    handle,         \* handle[v]: filesystem ID in the volume ID of v's PV
    (* the controller process *)
    pc,             \* the REST call a worker makes next
    my,             \* request and local variables of a worker
    createMutex,    \* helper.GetMutex()
    deleteMutex     \* deleteMutex of treeqservice.go

array == <<live, used, name, size, quota, allotted, count, exported, data>>
k8s == <<phase, handle>>
mutexes == <<createMutex, deleteMutex>>
vars == <<array, k8s, pc, my, mutexes, faults>>

-----------------------------------------------------------------------------
(* The array. *)

Treeqs(f) == {v \in Volume : quota[f][v] # 0}

\* A filesystem takes its treeqs, export and metadata with it.
RemoveFileSystem(f) ==
    /\ live' = live \ {f}
    /\ quota' = [quota EXCEPT ![f] = [v \in Volume |-> 0]]
    /\ allotted' = [allotted EXCEPT ![f] = 0]
    /\ data' = {d \in data : d[1] # f}
    /\ exported' = exported \ {f}
    /\ UNCHANGED <<used, name, size, count>>

SetQuota(f, v, c) ==
    /\ quota' = [quota EXCEPT ![f][v] = c]
    /\ allotted' = [allotted EXCEPT ![f] = @ + c - quota[f][v]]
    /\ data' = IF c = 0 THEN data \ {<<f, v>>} ELSE data
    /\ UNCHANGED <<live, used, name, size, count, exported>>

SetSize(f, s) ==
    /\ size' = [size EXCEPT ![f] = s]
    /\ UNCHANGED <<live, used, name, quota, allotted, count, exported, data>>

SetCount(f, c) ==
    /\ count' = [count EXCEPT ![f] = c]
    /\ UNCHANGED <<live, used, name, size, quota, allotted, exported, data>>

SetExported(fs) ==
    /\ exported' = fs
    /\ UNCHANGED <<live, used, name, size, quota, allotted, count, data>>

-----------------------------------------------------------------------------
(* A worker's request and local variables. *)

\* op, vol, cap: the request.  fs, fresh: the filesystem it works on, and
\* whether it created it (filesys == nil in CreateTreeqVolume).  todo, listed:
\* filesystems still to examine, and the sizes the array gave.  num: the treeq
\* count or the size being computed.  action: the Action of UpdateTreeqCnt.
\* gone: DeleteTreeq answered TREEQ_ID_DOES_NOT_EXIST.
Call(op, v, c, f) ==
    [op |-> op, vol |-> v, cap |-> c, fs |-> f, fresh |-> FALSE, todo |-> {},
     listed |-> [g \in FileSystem |-> 0], num |-> 0, action |-> "none",
     gone |-> FALSE]

NoCall == Call("none", NoVolume, 0, NoFS)

Init ==
    /\ live = {} /\ used = {} /\ exported = {} /\ data = {}
    /\ name = [f \in FileSystem |-> NoVolume]
    /\ size = [f \in FileSystem |-> 0]
    /\ quota = [f \in FileSystem |-> [v \in Volume |-> 0]]
    /\ allotted = [f \in FileSystem |-> 0]
    /\ count = [f \in FileSystem |-> 0]
    /\ phase = [v \in Volume |-> "unbound"]
    /\ handle = [v \in Volume |-> NoFS]
    /\ pc = [w \in Worker |-> "idle"]
    /\ my = [w \in Worker |-> NoCall]
    /\ createMutex = Nobody /\ deleteMutex = Nobody
    /\ faults = 0

\* The worker goes on to the next REST call with local variables m.
Goto(w, label, m) ==
    /\ pc' = [pc EXCEPT ![w] = label]
    /\ my' = [my EXCEPT ![w] = m]
    /\ UNCHANGED <<mutexes, k8s>>

LeaveLocked(w) ==
    /\ pc' = [pc EXCEPT ![w] = "idle"]
    /\ my' = [my EXCEPT ![w] = NoCall]
    /\ createMutex' = IF createMutex = w THEN Nobody ELSE createMutex
    /\ UNCHANGED deleteMutex

\* The handler returns and its deferred Unlock calls run.
Leave(w) ==
    /\ pc' = [pc EXCEPT ![w] = "idle"]
    /\ my' = [my EXCEPT ![w] = NoCall]
    /\ createMutex' = IF createMutex = w THEN Nobody ELSE createMutex
    /\ deleteMutex' = IF deleteMutex = w THEN Nobody ELSE deleteMutex

\* After an error Kubernetes repeats the call later.
ReturnError(w) == Leave(w) /\ UNCHANGED k8s

ReturnVolumeName(w, f) ==
    /\ Leave(w)
    /\ phase' = [phase EXCEPT ![my[w].vol] = IF @ = "unbound" THEN "bound" ELSE @]
    /\ handle' = [handle EXCEPT ![my[w].vol] = IF @ = NoFS THEN name[f] ELSE @]

\* CreateVolume answers with the volume ID "<f>#<treeq>": the PV is bound.
ReturnVolume(w, f) ==
    /\ Leave(w)
    /\ phase' = [phase EXCEPT ![my[w].vol] = IF @ = "unbound" THEN "bound" ELSE @]
    /\ handle' = [handle EXCEPT ![my[w].vol] = IF @ = NoFS THEN f ELSE @]

\* DeleteVolume succeeded: the PV object goes away.
ReturnDeleted(w) ==
    /\ Leave(w)
    /\ phase' = [phase EXCEPT ![my[w].vol] = "gone"]
    /\ UNCHANGED handle

-----------------------------------------------------------------------------
(* Kubernetes starts calls.  PV names are never reused, so a volume is    *)
(* created only while unbound and deleted or expanded only while bound.   *)

Free(v) == Overlap \/ \A w \in Worker : my[w].vol # v

StartCreate(w, v) ==
    /\ pc[w] = "idle" /\ phase[v] = "unbound" /\ Free(v)
    /\ Goto(w, "exist", Call("create", v, Request[v], NoFS))
    /\ UNCHANGED <<array, faults>>

StartDelete(w, v) ==
    /\ pc[w] = "idle" /\ phase[v] \in {"bound", "deleting"} /\ Free(v)
    /\ phase' = [phase EXCEPT ![v] = "deleting"]
    /\ my' = [my EXCEPT ![w] = Call("delete", v, 0, handle[v])]
    /\ pc' = [pc EXCEPT ![w] = "get"]
    /\ UNCHANGED <<array, handle, mutexes, faults>>

\* A PVC never shrinks; asking again for the size it has is a retry.
StartExpand(w, v, c) ==
    /\ pc[w] = "idle" /\ phase[v] = "bound" /\ Free(v)
    /\ c >= quota[handle[v]][v]
    /\ Goto(w, "size", Call("expand", v, c, handle[v]))
    /\ UNCHANGED <<array, faults>>

\* A pod that uses the volume writes to it.
WriteData(v) ==
    /\ phase[v] = "bound" /\ handle[v] \in live /\ quota[handle[v]][v] # 0
    /\ data' = data \cup {<<handle[v], v>>}
    /\ UNCHANGED <<live, used, name, size, quota, allotted, count, exported, k8s,
                   pc, my, mutexes, faults>>

\* The process can die between any two REST calls.  Nothing but the array and
\* the Kubernetes objects survives it.
Crash ==
    /\ \E w \in Worker : pc[w] # "idle"
    /\ Fault("crash")
    /\ pc' = [w \in Worker |-> "idle"]
    /\ my' = [w \in Worker |-> NoCall]
    /\ createMutex' = Nobody /\ deleteMutex' = Nobody
    /\ UNCHANGED <<array, k8s>>

-----------------------------------------------------------------------------
(* CreateVolume: IsTreeqAlreadyExist, under no mutex. *)

\* GetPoolByName and GetFileSystemsByPool.
ListForExist(w) ==
    /\ pc[w] = "exist"
    /\ \E o \in ReadOutcome :
        /\ Charge("GetFileSystemsByPool", o)
        /\ IF Ok(o) THEN Goto(w, "lookup", [my[w] EXCEPT !.todo = live])
                    ELSE ReturnError(w)
    /\ UNCHANGED array

\* checkTreeqName asks every listed filesystem for a treeq of this name, in
\* one goroutine each.  A lookup that fails is logged and counts as "no such
\* treeq".
CheckTreeqName(w) ==
    /\ pc[w] = "lookup"
    /\ LET v == my[w].vol
           found == {f \in my[w].todo \cap live : v \in Treeqs(f)}
       IN  \/ found = {} /\ Goto(w, "create", my[w]) /\ UNCHANGED faults
           \/ \E f \in found : Goto(w, "existing", [my[w] EXCEPT !.fs = f]) /\ UNCHANGED faults
           \/ found # {} /\ Fault("GetTreeqByName") /\ Goto(w, "create", my[w])
    /\ UNCHANGED array

\* The treeq exists: getExportPath, then GetNetworkSpaceIP.  When the second
\* call fails the code returns exportErr, which is nil if the first call went
\* through, with an empty volume context: CreateVolume goes on to create.
ExistingVolume(w) ==
    /\ pc[w] = "existing"
    /\ \/ ReturnVolume(w, my[w].fs) /\ UNCHANGED faults
       \/ Fault("GetExportsByFileSystemID") /\ ReturnError(w)
       \/ /\ Fault("GetNetworkSpaceByName")
          /\ Goto(w, "create", [my[w] EXCEPT !.fs = NoFS])
    /\ UNCHANGED array

-----------------------------------------------------------------------------
(* CreateTreeqVolume. *)

\* GetNetworkSpaceIP and GetPoolByName come before the mutex is taken.
PrepareFails(w) ==
    /\ pc[w] = "create"
    /\ Fault("GetNetworkSpaceByName")
    /\ ReturnError(w)
    /\ UNCHANGED array

NoLock(w) == UNCHANGED createMutex

LockCreate(w) == createMutex = Nobody /\ createMutex' = w

\* Lock, then getExpectedFileSystemID: the requested size is checked against
\* max_filesystem_size, and the pool's filesystems are listed.
GetExpectedFileSystem(w) ==
    /\ pc[w] = "create"
    /\ \/ /\ my[w].cap <= MaxFileSystemSize /\ LockCreate(w)
          /\ my' = [my EXCEPT ![w] = [@ EXCEPT !.todo = live, !.listed = size]]
          /\ pc' = [pc EXCEPT ![w] = "scan"]
          /\ UNCHANGED <<deleteMutex, k8s, faults>>
       \/ /\ createMutex = Nobody /\ ReturnError(w)
          /\ \/ my[w].cap > MaxFileSystemSize /\ UNCHANGED faults
             \/ Fault("GetFileSystemsByPool")
    /\ UNCHANGED array

\* The filesystem can grow by the request and stay below the limit.
Fits(w, f) == my[w].listed[f] + my[w].cap < MaxFileSystemSize

HasRoom(f) == Cardinality(Treeqs(f)) < MaxTreeqsPerFS

\* One turn of the loop over the listed filesystems.
\* GetTreeqsByFileSystem fails if f was deleted since it was listed.
ScanFileSystem(w, f) ==
    /\ pc[w] = "scan" /\ f \in my[w].todo
    /\ LET skip == Goto(w, "scan", [my[w] EXCEPT !.todo = @ \ {f}])
       IN  \/ ~Fits(w, f) /\ skip /\ UNCHANGED faults
           \/ Fits(w, f) /\ f \notin live /\ ReturnError(w) /\ UNCHANGED faults
           \/ Fits(w, f) /\ f \in live /\ ~HasRoom(f) /\ skip /\ UNCHANGED faults
           \/ /\ Fits(w, f) /\ f \in live /\ HasRoom(f)
              /\ Goto(w, "treeq", [my[w] EXCEPT !.fs = f, !.num = Cardinality(Treeqs(f))])
              /\ UNCHANGED faults
           \/ Fits(w, f) /\ Fault("GetTreeqsByFileSystem") /\ ReturnError(w)
    /\ UNCHANGED array

\* No filesystem is left: a new one is created, named after the PV, as large
\* as the request.  The array refuses a name that is taken, and when the pool
\* is full (here: when the IDs of the model are used up).
CreateFileSystem(w) ==
    /\ pc[w] = "scan" /\ my[w].todo = {}
    /\ LET v == my[w].vol
           refused == FileSystem \subseteq used \/ \E f \in live : name[f] = v
       IN  \/ refused /\ ReturnError(w) /\ UNCHANGED <<array, faults>>
           \/ Fault("CreateFileSystem") /\ ReturnError(w) /\ UNCHANGED array
           \/ \E f \in FileSystem \ used, o \in {"ok", "lost"} :
                /\ ~refused
                /\ Charge("CreateFileSystem", o)
                /\ live' = live \cup {f}
                /\ used' = used \cup {f}
                /\ name' = [name EXCEPT ![f] = v]
                /\ size' = [size EXCEPT ![f] = my[w].cap]
                /\ UNCHANGED <<quota, allotted, count, exported, data>>
                /\ IF Ok(o)
                   THEN Goto(w, IF ExportPermissions THEN "export" ELSE "meta",
                             [my[w] EXCEPT !.fs = f, !.fresh = TRUE, !.num = 0])
                   ELSE ReturnError(w)

\* CreateExportPathAndAddMetadata: the export, if the storage class names
\* permissions, then the metadata.  Its deferred functions undo both, last
\* one first, when something failed.
CreateExportPath(w) ==
    /\ pc[w] = "export"
    /\ \E o \in Outcome :
        /\ Charge("CreateExport", o)
        /\ IF Done(o) THEN SetExported(exported \cup {my[w].fs}) ELSE UNCHANGED array
        /\ Goto(w, IF Ok(o) THEN "meta" ELSE "undoFS", my[w])

AddMetadata(w) ==
    /\ pc[w] = "meta"
    /\ \E o \in Outcome :
        /\ Charge("PutMetadata", o)
        /\ Goto(w, IF Ok(o) THEN "treeq"
                   ELSE IF ExportPermissions THEN "undoExport" ELSE "undoFS", my[w])
    /\ UNCHANGED array

UndoExport(w) ==
    /\ pc[w] = "undoExport"
    /\ \E o \in Outcome :
        /\ Charge("DeleteExport", o)
        /\ IF Done(o) THEN SetExported(exported \ {my[w].fs}) ELSE UNCHANGED array
        /\ Goto(w, "undoFS", my[w])

UndoFileSystem(w) ==
    /\ pc[w] = "undoFS"
    /\ \E o \in Outcome :
        /\ Charge("DeleteFileSystem", o)
        /\ IF Done(o) THEN RemoveFileSystem(my[w].fs) ELSE UNCHANGED array
    /\ ReturnError(w)

CreateTreeqGivesUp(w) == ReturnError(w)

CreateTreeqFailed(w) ==
    IF my[w].fresh THEN Goto(w, "exports", my[w]) ELSE ReturnError(w)

\* The array refuses the treeq if the filesystem is gone or has one of this
\* name.  On an error a filesystem created for it is deleted completely.
CreateTreeq(w) ==
    /\ pc[w] = "treeq"
    /\ LET f == my[w].fs
           v == my[w].vol
           refused == f \notin live \/ v \in Treeqs(f)
       IN  \/ refused /\ CreateTreeqFailed(w) /\ UNCHANGED <<array, faults>>
           \/ Fault("CreateTreeq") /\ CreateTreeqFailed(w) /\ UNCHANGED array
           \/ /\ ~refused /\ Fault("CreateTreeq") /\ CreateTreeqFailed(w)
              /\ SetQuota(f, v, my[w].cap)
           \/ /\ ~refused /\ SetQuota(f, v, my[w].cap) /\ UNCHANGED faults
              /\ Goto(w, "putCnt", [my[w] EXCEPT !.num = @ + 1, !.action = "none"])

\* The answer to CreateTreeq and its undoing after the count was not written:
\* only a filesystem of this call has a non-zero NFSstorage.FileSystemID.
RevertTreeq(w) ==
    /\ pc[w] = "revert"
    /\ \E o \in Outcome :
        /\ Charge("DeleteTreeq", o)
        /\ IF Done(o) THEN SetQuota(my[w].fs, my[w].vol, 0) ELSE UNCHANGED array
    /\ ReturnError(w)

SameSize(w) == my[w].listed[my[w].fs]

GrownSize(w) == my[w].listed[my[w].fs] + my[w].cap

\* An existing filesystem grows by the request, from the size it was listed
\* with.  On an error the count is decremented again; the treeq stays.
GrowFileSystem(w) ==
    /\ pc[w] = "grow"
    /\ LET f == my[w].fs
           s == GrownSize(w)
           failed == Goto(w, "readCnt", [my[w] EXCEPT !.action = "dec"])
       IN  \/ f \notin live /\ failed /\ UNCHANGED <<array, faults>>
           \/ Fault("UpdateFileSystem") /\ failed /\ UNCHANGED array
           \/ f \in live /\ Fault("UpdateFileSystem") /\ failed /\ SetSize(f, s)
           \/ f \in live /\ SetSize(f, s) /\ ReturnVolume(w, f) /\ UNCHANGED faults

-----------------------------------------------------------------------------
(* UpdateTreeqCnt, and what its callers do with the answer. *)

CountWritten(w) ==
    LET m == my[w] IN
    \/ m.op = "create" /\ m.action = "none" /\ m.fresh /\ ReturnVolume(w, m.fs)
    \/ m.op = "create" /\ m.action = "none" /\ ~m.fresh /\ Goto(w, "grow", my[w])
    \/ m.op = "create" /\ m.action = "dec" /\ ReturnError(w)
    \/ m.op = "delete" /\ m.action = "dec" /\ Goto(w, "remove", my[w])
    \/ m.op = "delete" /\ m.action = "inc" /\ ~m.gone /\ ReturnError(w)
    \/ m.op = "delete" /\ m.action = "inc" /\ m.gone /\ ReturnDeleted(w)

CountNotWritten(w) ==
    LET m == my[w] IN
    \/ m.op = "create" /\ m.action = "none" /\ m.fresh /\ Goto(w, "revert", my[w])
    \/ m.op = "create" /\ (m.action = "none" => ~m.fresh) /\ ReturnError(w)
    \/ m.op = "delete" /\ ~m.gone /\ ReturnError(w)
    \/ m.op = "delete" /\ m.gone /\ ReturnDeleted(w)

SameCount(w) == Cardinality(Treeqs(my[w].fs))

NewCount(w) == Cardinality(Treeqs(my[w].fs)) + IF my[w].action = "inc" THEN 1 ELSE -1

ReadCount(w) ==
    /\ pc[w] = "readCnt"
    /\ LET f == my[w].fs
       IN  \/ f \notin live /\ CountNotWritten(w) /\ UNCHANGED faults
           \/ Fault("GetTreeqsByFileSystem") /\ CountNotWritten(w)
           \/ /\ f \in live /\ Goto(w, "putCnt", [my[w] EXCEPT !.num = NewCount(w)])
              /\ UNCHANGED faults
    /\ UNCHANGED array

WriteCount(w) ==
    /\ pc[w] = "putCnt"
    /\ LET f == my[w].fs
       IN  \/ f \notin live /\ CountNotWritten(w) /\ UNCHANGED <<array, faults>>
           \/ Fault("UpdateTreeqCnt") /\ CountNotWritten(w) /\ UNCHANGED array
           \/ /\ f \in live /\ Fault("UpdateTreeqCnt") /\ CountNotWritten(w)
              /\ SetCount(f, my[w].num)
           \/ /\ f \in live /\ CountWritten(w) /\ SetCount(f, my[w].num)
              /\ UNCHANGED faults

-----------------------------------------------------------------------------
(* DeleteVolume and DeleteTreeqVolume. *)

NeverInUse(w) == FALSE

InUse(w) == <<my[w].fs, my[w].vol>> \in data

\* GetTreeq.  A missing treeq counts as deleted.  GetTreeq knows only the
\* array's TREEQ_ID_DOES_NOT_EXIST, so the answer for a filesystem that is
\* gone may be an error.  A treeq with data is not deleted.
GetTreeq(w) ==
    /\ pc[w] = "get"
    /\ LET f == my[w].fs
           v == my[w].vol
           there == f \in live /\ v \in Treeqs(f)
       IN  \/ ~there /\ ReturnDeleted(w) /\ UNCHANGED faults
           \/ f \notin live /\ ReturnError(w) /\ UNCHANGED faults
           \/ Fault("GetTreeq") /\ ReturnError(w)
           \/ there /\ InUse(w) /\ ReturnError(w) /\ UNCHANGED faults
           \/ /\ there /\ ~InUse(w)
              /\ Goto(w, "lock", my[w]) /\ UNCHANGED faults
    /\ UNCHANGED array

LockDelete(w) ==
    /\ pc[w] = "lock" /\ deleteMutex = Nobody
    /\ deleteMutex' = w
    /\ my' = [my EXCEPT ![w] = [@ EXCEPT !.action = "dec"]]
    /\ pc' = [pc EXCEPT ![w] = "readCnt"]
    /\ UNCHANGED <<array, k8s, createMutex, faults>>

OneTreeqLeft(w) == my[w].num <= 1

LastTreeq(w) == my[w].num = 0

\* DeleteTreeq, and then the filesystem if the decremented count was 0.
DeleteTreeq(w) ==
    /\ pc[w] = "remove"
    /\ LET f == my[w].fs
           v == my[w].vol
           there == f \in live /\ v \in Treeqs(f)
           failed(gone) == Goto(w, "readCnt", [my[w] EXCEPT !.action = "inc", !.gone = gone])
       IN  \/ ~there /\ failed(TRUE) /\ UNCHANGED <<array, faults>>
           \/ f \notin live /\ failed(FALSE) /\ UNCHANGED <<array, faults>>
           \/ Fault("DeleteTreeq") /\ failed(FALSE) /\ UNCHANGED array
           \/ there /\ Fault("DeleteTreeq") /\ failed(FALSE) /\ SetQuota(f, v, 0)
           \/ /\ there /\ SetQuota(f, v, 0) /\ UNCHANGED faults
              /\ IF LastTreeq(w) THEN Goto(w, "exports", my[w])
                                  ELSE ReturnDeleted(w)

-----------------------------------------------------------------------------
(* DeleteFileSystemComplete of api/nfsapiclient.go, called by the delete of  *)
(* the last treeq and by a create that could not put a treeq in a new        *)
(* filesystem.  The create reports an error whatever happens here.           *)

\* GetExportsByFileSystemID, then DeleteExport.  The test after DeleteExport
\* lets every error pass but ErrNotFound, the answer when the export was listed
\* and then deleted by somebody else.
DeleteExports(w) ==
    /\ pc[w] = "exports"
    /\ LET f == my[w].fs
       IN  \/ /\ Fault("GetExportsByFileSystemID")
              /\ ReturnError(w) /\ UNCHANGED array
           \/ /\ f \in exported
              /\ Fault("ErrNotFound")
              /\ SetExported(exported \ {f}) /\ ReturnError(w)
           \/ \E o \in Outcome :
                /\ o # "ok" => f \in exported
                /\ Charge("DeleteExport", o)
                /\ IF Done(o) THEN SetExported(exported \ {f}) ELSE UNCHANGED array
                /\ Goto(w, "delMeta", my[w])

DeleteMetadata(w) ==
    /\ pc[w] = "delMeta"
    /\ LET f == my[w].fs
       IN  \/ f \notin live /\ ReturnError(w) /\ UNCHANGED <<array, faults>>
           \/ f \in live /\ \E o \in Outcome :
                /\ Charge("DeleteMetadata", o)
                /\ IF Done(o) THEN SetCount(f, 0) ELSE UNCHANGED array
                /\ IF Ok(o) THEN Goto(w, "delFS", my[w]) ELSE ReturnError(w)

DeleteFileSystem(w) ==
    /\ pc[w] = "delFS"
    /\ LET f == my[w].fs
       IN  \/ f \notin live /\ ReturnError(w) /\ UNCHANGED <<array, faults>>
           \/ f \in live /\ \E o \in Outcome :
                /\ Charge("DeleteFileSystem", o)
                /\ IF Done(o) THEN RemoveFileSystem(f) ELSE UNCHANGED array
                /\ IF Ok(o) /\ my[w].op = "delete" THEN ReturnDeleted(w)
                                                   ELSE ReturnError(w)

-----------------------------------------------------------------------------
(* ControllerExpandVolume and UpdateTreeqVolume.  The maximal filesystem     *)
(* size it is given comes from a parameter map that no expand request fills, *)
(* so it is always empty and its check is skipped.                           *)

GetFileSystemByID(w) ==
    /\ pc[w] = "size"
    /\ LET f == my[w].fs
       IN  \/ f \notin live /\ ReturnError(w) /\ UNCHANGED faults
           \/ Fault("GetFileSystemByID") /\ ReturnError(w)
           \/ /\ f \in live /\ Goto(w, "quota", [my[w] EXCEPT !.listed[f] = size[f]])
              /\ UNCHANGED faults
    /\ UNCHANGED array

\* GetTreeq: whether the treeq is missing or the call fails, the handler
\* returns and has changed nothing.
GetHardCapacity(w) ==
    /\ pc[w] = "quota"
    /\ LET f == my[w].fs
           q == quota[f][my[w].vol]
       IN  \/ (f \notin live \/ q = 0) /\ ReturnError(w) /\ UNCHANGED faults
           \/ Fault("GetTreeq") /\ ReturnError(w)
           \/ /\ f \in live /\ q # 0 /\ Goto(w, "total", [my[w] EXCEPT !.num = q])
              /\ UNCHANGED faults
    /\ UNCHANGED array

\* totalTreeqSize + needToIncreaseSize is the size the filesystem must have.
GetTotalTreeqSize(w) ==
    /\ pc[w] = "total"
    /\ LET f == my[w].fs
           need == allotted[f] + (my[w].cap - my[w].num)
       IN  \/ f \notin live /\ ReturnError(w) /\ UNCHANGED faults
           \/ Fault("GetTreeqsByFileSystem") /\ ReturnError(w)
           \/ /\ f \in live
              /\ Goto(w, IF need > my[w].listed[f] THEN "enlarge" ELSE "resize",
                      [my[w] EXCEPT !.num = need])
              /\ UNCHANGED faults
    /\ UNCHANGED array

EnlargeFileSystem(w) ==
    /\ pc[w] = "enlarge"
    /\ LET f == my[w].fs
       IN  \/ f \notin live /\ ReturnError(w) /\ UNCHANGED <<array, faults>>
           \/ f \in live /\ \E o \in Outcome :
                /\ Charge("UpdateFileSystem", o)
                /\ IF Done(o) THEN SetSize(f, my[w].num) ELSE UNCHANGED array
                /\ IF Ok(o) THEN Goto(w, "resize", my[w]) ELSE ReturnError(w)

UpdateTreeq(w) ==
    /\ pc[w] = "resize"
    /\ LET f == my[w].fs
           v == my[w].vol
       IN  \/ v \notin Treeqs(f) /\ UNCHANGED <<array, faults>>
           \/ v \in Treeqs(f) /\ \E o \in Outcome :
                /\ Charge("UpdateTreeq", o)
                /\ IF Done(o) THEN SetQuota(f, v, my[w].cap) ELSE UNCHANGED array
    /\ ReturnError(w)

-----------------------------------------------------------------------------
CreateStep(w) ==
    \/ ListForExist(w) \/ CheckTreeqName(w) \/ ExistingVolume(w)
    \/ PrepareFails(w) \/ GetExpectedFileSystem(w)
    \/ \E f \in FileSystem : ScanFileSystem(w, f)
    \/ CreateFileSystem(w) \/ CreateExportPath(w) \/ AddMetadata(w)
    \/ UndoExport(w) \/ UndoFileSystem(w)
    \/ CreateTreeq(w) \/ RevertTreeq(w) \/ GrowFileSystem(w)

DeleteStep(w) ==
    \/ GetTreeq(w) \/ LockDelete(w) \/ DeleteTreeq(w)
    \/ DeleteExports(w) \/ DeleteMetadata(w) \/ DeleteFileSystem(w)

ExpandStep(w) ==
    \/ GetFileSystemByID(w) \/ GetHardCapacity(w) \/ GetTotalTreeqSize(w)
    \/ EnlargeFileSystem(w) \/ UpdateTreeq(w)

CountStep(w) == ReadCount(w) \/ WriteCount(w)

Step(w) == CreateStep(w) \/ CountStep(w) \/ DeleteStep(w) \/ ExpandStep(w)

Next ==
    \/ \E w \in Worker, v \in Volume :
        \/ StartCreate(w, v)
        \/ StartDelete(w, v)
        \/ \E c \in Capacity : StartExpand(w, v, c)
    \/ \E w \in Worker : Step(w)
    \/ \E v \in Volume : WriteData(v)
    \/ Crash

Spec == Init /\ [][Next]_vars

-----------------------------------------------------------------------------
(* Properties. *)

Label == {"idle", "exist", "lookup", "existing", "create", "scan", "export", "meta",
          "undoExport", "undoFS", "treeq", "revert", "grow", "readCnt", "putCnt",
          "get", "lock", "remove", "exports", "delMeta", "delFS",
          "size", "quota", "total", "enlarge", "resize"}

\* Between the choice of a filesystem and CreateTreeq.
Placing == {"export", "meta", "treeq"}

CallType ==
    [op : {"none", "create", "delete", "expand"}, vol : Volume \cup {NoVolume},
     cap : Nat, fs : FileSystem \cup {NoFS}, fresh : BOOLEAN,
     todo : SUBSET FileSystem, listed : [FileSystem -> Int], num : Int,
     action : {"none", "inc", "dec"}, gone : BOOLEAN]

ArrayOK ==
    /\ live \subseteq FileSystem /\ used \subseteq FileSystem
    /\ exported \subseteq FileSystem /\ data \subseteq FileSystem \X Volume
    /\ name \in [FileSystem -> Volume \cup {NoVolume}]
    /\ size \in [FileSystem -> Int]
    /\ quota \in [FileSystem -> [Volume -> Nat]]
    /\ allotted \in [FileSystem -> Int]
    /\ count \in [FileSystem -> Int]

KubernetesOK ==
    /\ phase \in [Volume -> {"unbound", "bound", "deleting", "gone"}]
    /\ handle \in [Volume -> FileSystem \cup {NoFS}]

ProcessOK ==
    /\ pc \in [Worker -> Label]
    /\ my \in [Worker -> CallType]
    /\ \A w \in Worker : pc[w] # "idle" => my[w].vol \in Volume
    /\ \A w \in Worker : pc[w] \in Placing => my[w].fs \in FileSystem
    /\ createMutex \in Worker \cup {Nobody}
    /\ deleteMutex \in Worker \cup {Nobody}

\* Every variable has its type.
TypeOK == ArrayOK /\ KubernetesOK /\ ProcessOK /\ faults \in Nat

\* max_treeqs_per_filesystem (or the array's own limit) is never exceeded,
\* whatever creates, deletes and expansions run at the same time and whatever
\* calls fail: getExpectedFileSystemID counts the treeqs several REST calls
\* before CreateTreeq adds one.
TreeqsWithinLimit == \A f \in FileSystem : Cardinality(Treeqs(f)) <= MaxTreeqsPerFS

\* A bound PV is served: its filesystem and its treeq exist, with at least the
\* capacity the PVC asked for, until the PV itself is deleted.  No rollback, no
\* delete of another volume and no retry takes them away.
BoundVolumeServed ==
    \A v \in Volume : phase[v] = "bound" =>
        handle[v] \in live /\ quota[handle[v]][v] >= Request[v]

\* No step loses data: a treeq with data is never deleted, and neither is the
\* filesystem around it.
DataKept == [][data \subseteq data']_vars

Quiet == \A w \in Worker : pc[w] = "idle"

\* Between calls that met no fault the metadata counts the treeqs, although
\* every update writes a number computed from an earlier read.
CountMatches ==
    Quiet /\ faults = 0 => \A f \in live : count[f] = Cardinality(Treeqs(f))

\* Between calls that met no fault the quotas of a filesystem fit into it.
SizeCovers ==
    Quiet /\ faults = 0 =>
        \A f \in live : LET Quota(v) == quota[f][v] IN
            MapThenSumSet(Quota, Volume) <= size[f]

\* No call leaves a filesystem without a treeq behind: a create that fails
\* removes the filesystem it made, and the last treeq takes its one along.
NoEmptyFileSystem == Quiet => \A f \in live : Treeqs(f) # {}

-----------------------------------------------------------------------------
(* Why TreeqsWithinLimit holds. *)

Critical == Placing \cup {"scan"}

\* Whoever examines filesystems or places a treeq holds the create mutex.
MutexHeld == \A w \in Worker : pc[w] \in Critical => createMutex = w

\* The chosen filesystem keeps room for the treeq until CreateTreeq.
SpotFree ==
    \A w \in Worker : pc[w] \in Placing =>
        Cardinality(Treeqs(my[w].fs)) < MaxTreeqsPerFS

\* The array hands out IDs of filesystems that hold nothing.
UnusedEmpty ==
    /\ live \subseteq used
    /\ \A f \in FileSystem \ used : Treeqs(f) = {}

LimitInv == TypeOK /\ MutexHeld /\ SpotFree /\ UnusedEmpty /\ TreeqsWithinLimit

-----------------------------------------------------------------------------
(* Liveness.  The Go scheduler runs every goroutine that is not blocked, and *)
(* every REST call returns, at the latest at the deadline that the context   *)
(* of the gRPC call carries into it.  sync.Mutex hands itself to a waiter    *)
(* that starved for 1 ms, so a worker that asks for it again and again gets  *)
(* it.                                                                       *)

Fairness == \A w \in Worker : WF_vars(Step(w)) /\ SF_vars(GetExpectedFileSystem(w))
                                               /\ SF_vars(LockDelete(w))

FairSpec == Spec /\ Fairness

\* Every call returns: no handler waits for a mutex for ever, whatever errors
\* the holder meets.
EveryCallReturns == \A w \in Worker : pc[w] # "idle" ~> pc[w] = "idle"
=============================================================================
