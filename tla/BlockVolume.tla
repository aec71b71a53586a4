---------------------------- MODULE BlockVolume ----------------------------
(***************************************************************************)
(* Block volumes, their snapshots and their clones (storage/iscsi, fc and  *)
(* nvme controllers over storage/common).  On the array a snapshot or a    *)
(* clone is a volume with a parent.  A volume that has children cannot be  *)
(* deleted: DeleteVolume marks it in its metadata instead, and whoever     *)
(* deletes the last child deletes the marked parent, and so on upwards.    *)
(*                                                                         *)
(* A worker is a goroutine that serves one gRPC call; each REST call is    *)
(* one step.  These handlers hold no mutex at all.                         *)
(***************************************************************************)
EXTENDS Naturals, Calls

CONSTANTS
    Worker,             \* goroutines serving gRPC calls
    Volume,             \* PV names
    Snapshot,           \* names of VolumeSnapshotContents
    Source,             \* Source[o]: what o is a snapshot or clone of
    VolumeID,           \* IDs the array may hand out
    Locking,            \* snapshots whose class sets lock_expires_at
    PromoteSupported,   \* the array has the snapshot promote feature
    Overlap,            \* may two calls for one object be in flight
    NoID, NoObject

Object == Volume \cup Snapshot

ASSUME ObjectAssumption == Volume \cap Snapshot = {} /\ NoObject \notin Object
ASSUME SourceAssumption ==
    /\ Source \in [Object -> Object \cup {NoObject}]
    /\ \A s \in Snapshot : Source[s] \in Object
ASSUME IDAssumption == NoID \notin VolumeID
ASSUME BlockFlagAssumption == Locking \subseteq Snapshot /\ PromoteSupported \in BOOLEAN

VARIABLES
    (* the array *)
    vols,       \* volumes that exist
    used,       \* IDs handed out so far
    name,       \* name[i]: the object i was created for
    parent,     \* parent[i]: the volume i is a snapshot of, NoID for a master
    marked,     \* volumes with metadata host.k8s.to_be_deleted
    locked,     \* volumes in lock state LOCKED
    (* Kubernetes *)
    phase,      \* life of the PV or VolumeSnapshotContent
    handle,     \* handle[o]: volume ID in the object's handle
    (* the controller process *)
    pc,         \* the REST call a worker makes next
    my          \* request and local variables of a worker

array == <<vols, used, name, parent, marked, locked>>
k8s == <<phase, handle>>
vars == <<array, k8s, pc, my, faults>>

-----------------------------------------------------------------------------
Children(i) == {j \in vols : parent[j] = i}
Named(o) == {i \in vols : name[i] = o}

\* id: the volume it works on.  up: parent_id of that volume, as last read.
Call(op, o, i) == [op |-> op, obj |-> o, id |-> i, up |-> NoID]
NoCall == Call("none", NoObject, NoID)

Init ==
    /\ vols = {} /\ used = {} /\ marked = {} /\ locked = {}
    /\ name = [i \in VolumeID |-> NoObject]
    /\ parent = [i \in VolumeID |-> NoID]
    /\ phase = [o \in Object |-> "unbound"]
    /\ handle = [o \in Object |-> NoID]
    /\ pc = [w \in Worker |-> "idle"]
    /\ my = [w \in Worker |-> NoCall]
    /\ faults = 0

Goto(w, label, m) ==
    /\ pc' = [pc EXCEPT ![w] = label]
    /\ my' = [my EXCEPT ![w] = m]
    /\ UNCHANGED k8s

Leave(w) ==
    /\ pc' = [pc EXCEPT ![w] = "idle"]
    /\ my' = [my EXCEPT ![w] = NoCall]

\* After an error Kubernetes repeats the call later.
ReturnError(w) == Leave(w) /\ UNCHANGED k8s

\* CreateVolume or CreateSnapshot answers with "<i>$$<protocol>".
ReturnCreated(w, i) ==
    /\ Leave(w)
    /\ phase' = [phase EXCEPT ![my[w].obj] = IF @ = "unbound" THEN "bound" ELSE @]
    /\ handle' = [handle EXCEPT ![my[w].obj] = IF @ = NoID THEN i ELSE @]

\* DeleteVolume or DeleteSnapshot succeeded: the object goes away.
ReturnDeleted(w) ==
    /\ Leave(w)
    /\ phase' = [phase EXCEPT ![my[w].obj] = "gone"]
    /\ UNCHANGED handle

-----------------------------------------------------------------------------
(* Kubernetes starts calls.  Object names are never reused.  A snapshot or  *)
(* clone is asked for while its source is bound; the source may be deleted  *)
(* before the array is asked.                                               *)

Free(o) == Overlap \/ \A w \in Worker : my[w].obj # o

StartCreate(w, o) ==
    /\ pc[w] = "idle" /\ phase[o] = "unbound" /\ Free(o)
    /\ Source[o] # NoObject => phase[Source[o]] = "bound"
    /\ Goto(w, "byName", Call("create", o, NoID))
    /\ UNCHANGED <<array, faults>>

\* GetAllPersistentVolumes, which finds the secret of the PV, is the first call
\* of DeleteVolume.
StartDelete(w, o) ==
    /\ pc[w] = "idle" /\ phase[o] \in {"bound", "deleting"} /\ Free(o)
    /\ phase' = [phase EXCEPT ![o] = "deleting"]
    /\ pc' = [pc EXCEPT ![w] = "get"]
    /\ my' = [my EXCEPT ![w] = Call("delete", o, handle[o])]
    /\ UNCHANGED <<array, handle, faults>>

\* The expiry date of a lock is reached.
LockExpires(i) ==
    /\ i \in locked
    /\ locked' = locked \ {i}
    /\ UNCHANGED <<vols, used, name, parent, marked, k8s, pc, my, faults>>

Crash ==
    /\ \E w \in Worker : pc[w] # "idle"
    /\ Fault("crash")
    /\ pc' = [w \in Worker |-> "idle"]
    /\ my' = [w \in Worker |-> NoCall]
    /\ UNCHANGED <<array, k8s>>

-----------------------------------------------------------------------------
(* CreateVolume and CreateSnapshot. *)

\* An existing volume of this name answers a repeated CreateVolume: the size is
\* the one the PVC asked for, since names are not reused.  For a snapshot the
\* parent is compared as well.
Matches(o, i) == o \in Snapshot => parent[i] = handle[Source[o]]

GetVolumeByName(w) ==
    /\ pc[w] = "byName"
    /\ LET o == my[w].obj
       IN  \/ /\ Named(o) = {} /\ UNCHANGED faults
              /\ Goto(w, IF Source[o] = NoObject THEN "create" ELSE "source", my[w])
           \/ /\ UNCHANGED faults
              /\ \E i \in Named(o) : IF Matches(o, i) THEN ReturnCreated(w, i) ELSE ReturnError(w)
           \/ Fault("GetVolumeByName") /\ ReturnError(w)
    /\ UNCHANGED array

\* The array gives out a new ID, and refuses a name that is taken.
Refused(o) == VolumeID \subseteq used \/ Named(o) # {}

NewVolume(i, o, p) ==
    /\ i \notin used
    /\ vols' = vols \cup {i}
    /\ used' = used \cup {i}
    /\ name' = [name EXCEPT ![i] = o]
    /\ parent' = [parent EXCEPT ![i] = p]
    /\ locked' = IF o \in Locking THEN locked \cup {i} ELSE locked
    /\ UNCHANGED marked

\* GetPoolByName, then the volume itself.
CreateVolume(w) ==
    /\ pc[w] = "create"
    /\ LET o == my[w].obj
       IN  \/ Refused(o) /\ ReturnError(w) /\ UNCHANGED <<array, faults>>
           \/ Fault("CreateVolume") /\ ReturnError(w) /\ UNCHANGED array
           \/ \E i \in VolumeID :
                /\ ~Refused(o) /\ NewVolume(i, o, NoID)
                /\ \/ Goto(w, "confirm", [my[w] EXCEPT !.id = i]) /\ UNCHANGED faults
                   \/ ReturnError(w) /\ Fault("CreateVolume")

\* CreateVolumeFromVolumeContent and CommonCreateSnapshot look up the source.
\* The former refuses a request whose size or pool is not the source's.
GetSource(w) ==
    /\ pc[w] = "source"
    /\ LET o == my[w].obj
           src == handle[Source[o]]
       IN  \/ src \in vols /\ Goto(w, "snap", [my[w] EXCEPT !.up = src]) /\ UNCHANGED faults
           \/ (src \notin vols \/ o \in Volume) /\ ReturnError(w) /\ UNCHANGED faults
           \/ Fault("GetVolume") /\ ReturnError(w)
    /\ UNCHANGED array

\* A snapshot is ready when it exists; a clone still has to be promoted.
CreateSnapshotVolume(w) ==
    /\ pc[w] = "snap"
    /\ LET o == my[w].obj
           refused == Refused(o) \/ my[w].up \notin vols
       IN  \/ refused /\ ReturnError(w) /\ UNCHANGED <<array, faults>>
           \/ Fault("CreateSnapshotVolume") /\ ReturnError(w) /\ UNCHANGED array
           \/ \E i \in VolumeID :
                /\ ~refused /\ NewVolume(i, o, my[w].up)
                /\ \/ o \in Snapshot /\ ReturnCreated(w, i) /\ UNCHANGED faults
                   \/ /\ o \in Volume /\ Goto(w, "confirm", [my[w] EXCEPT !.id = i])
                      /\ UNCHANGED faults
                   \/ ReturnError(w) /\ Fault("CreateSnapshotVolume")

\* GetVolume of the new volume and, for a clone, GetFeatures.
ConfirmVolume(w) ==
    /\ pc[w] = "confirm"
    /\ LET promote == PromoteSupported /\ Source[my[w].obj] # NoObject
       IN  \/ /\ my[w].id \in vols /\ UNCHANGED faults
              /\ Goto(w, IF promote THEN "promote" ELSE "tag", my[w])
           \/ my[w].id \notin vols /\ ReturnError(w) /\ UNCHANGED faults
           \/ Fault("GetVolume") /\ ReturnError(w)
    /\ UNCHANGED array

\* The snapshot becomes a master volume of its own.
PromoteSnapshot(w) ==
    /\ pc[w] = "promote"
    /\ LET i == my[w].id
       IN  \/ i \notin vols /\ ReturnError(w) /\ UNCHANGED <<array, faults>>
           \/ i \in vols /\ \E out \in Outcome :
                /\ Charge("PromoteSnapshot", out)
                /\ parent' = IF Done(out) THEN [parent EXCEPT ![i] = NoID] ELSE parent
                /\ UNCHANGED <<vols, used, name, marked, locked>>
                /\ IF Ok(out) THEN Goto(w, "tag", my[w]) ELSE ReturnError(w)

\* host.k8s.pvname, which nothing in the driver reads again.
PutPVName(w) ==
    /\ pc[w] = "tag"
    /\ \/ my[w].id \in vols /\ ReturnCreated(w, my[w].id) /\ UNCHANGED faults
       \/ my[w].id \notin vols /\ ReturnError(w) /\ UNCHANGED faults
       \/ Fault("PutMetadata") /\ ReturnError(w)
    /\ UNCHANGED array

-----------------------------------------------------------------------------
(* DeleteVolume of storage/common, which also deletes snapshots. *)

NeverLocked(i) == FALSE

Locked(i) == i \in locked

ReportMissing(w) == ReturnError(w)

\* A volume that is not there any more counts as deleted.
AlreadyDeleted(w) == ReturnDeleted(w)

GetVolume(w) ==
    /\ pc[w] = "get"
    /\ LET i == my[w].id
       IN  \/ i \notin vols /\ AlreadyDeleted(w) /\ UNCHANGED faults
           \/ i \in vols /\ Locked(i) /\ ReturnError(w) /\ UNCHANGED faults
           \/ /\ i \in vols /\ ~Locked(i) /\ UNCHANGED faults
              /\ Goto(w, "children", [my[w] EXCEPT !.up = parent[i]])
           \/ Fault("GetVolume") /\ ReturnError(w)
    /\ UNCHANGED array

\* An error of GetVolumesByParentID is logged and taken for "no children".
GetVolumesByParentID(w) ==
    /\ pc[w] = "children"
    /\ \/ Children(my[w].id) # {} /\ Goto(w, "mark", my[w]) /\ UNCHANGED faults
       \/ Children(my[w].id) = {} /\ Goto(w, "delMeta", my[w]) /\ UNCHANGED faults
       \/ Fault("GetVolumesByParentID") /\ Goto(w, "delMeta", my[w])
    /\ UNCHANGED array

SetMarked(ms) == marked' = ms /\ UNCHANGED <<vols, used, name, parent, locked>>

\* Kubernetes is told that the volume is deleted.
MarkToBeDeleted(w) ==
    /\ pc[w] = "mark"
    /\ LET i == my[w].id
       IN  \/ i \notin vols /\ ReturnError(w) /\ UNCHANGED <<array, faults>>
           \/ i \in vols /\ \E out \in Outcome :
                /\ Charge("PutMetadata", out)
                /\ IF Done(out) THEN SetMarked(marked \cup {i}) ELSE UNCHANGED array
                /\ IF Ok(out) THEN ReturnDeleted(w) ELSE ReturnError(w)

\* What the array answers about the metadata of a volume that is gone the code
\* does not say: the call may fail or find nothing.
DeleteMetadata(w) ==
    /\ pc[w] = "delMeta"
    /\ LET i == my[w].id
       IN  \/ i \notin vols /\ ReturnError(w) /\ UNCHANGED <<array, faults>>
           \/ \E out \in Outcome :
                /\ Charge("DeleteMetadata", out)
                /\ IF Done(out) THEN SetMarked(marked \ {i}) ELSE UNCHANGED array
                /\ IF Ok(out) THEN Goto(w, "delVol", my[w]) ELSE ReturnError(w)

\* The array refuses to delete a volume that has children.
DeleteVolume(w) ==
    /\ pc[w] = "delVol"
    /\ LET i == my[w].id
           refused == i \notin vols \/ Children(i) # {}
       IN  \/ refused /\ ReturnError(w) /\ UNCHANGED <<array, faults>>
           \/ ~refused /\ \E out \in Outcome :
                /\ Charge("DeleteVolume", out)
                /\ vols' = IF Done(out) THEN vols \ {i} ELSE vols
                /\ marked' = IF Done(out) THEN marked \ {i} ELSE marked
                /\ locked' = IF Done(out) THEN locked \ {i} ELSE locked
                /\ UNCHANGED <<used, name, parent>>
                /\ IF ~Ok(out) THEN ReturnError(w)
                   ELSE IF my[w].up = NoID THEN ReturnDeleted(w)
                   ELSE Goto(w, "parentMeta", my[w])

DeleteAnyParent(i) == TRUE
KeepParent(i) == FALSE

ToBeDeleted(i) == i \in marked

\* The parent is deleted by the same handler if it is marked.
CheckParent(w) ==
    /\ pc[w] = "parentMeta"
    /\ LET p == my[w].up
       IN  \/ ToBeDeleted(p) /\ Goto(w, "get", [my[w] EXCEPT !.id = p]) /\ UNCHANGED faults
           \/ ~ToBeDeleted(p) /\ ReturnDeleted(w) /\ UNCHANGED faults
           \/ p \notin vols /\ ReturnError(w) /\ UNCHANGED faults
           \/ Fault("GetMetadata") /\ ReturnError(w)
    /\ UNCHANGED array

-----------------------------------------------------------------------------
CreateStep(w) ==
    \/ GetVolumeByName(w) \/ CreateVolume(w) \/ GetSource(w) \/ CreateSnapshotVolume(w)
    \/ ConfirmVolume(w) \/ PromoteSnapshot(w) \/ PutPVName(w)

DeleteStep(w) ==
    \/ GetVolume(w) \/ GetVolumesByParentID(w) \/ MarkToBeDeleted(w)
    \/ DeleteMetadata(w) \/ DeleteVolume(w) \/ CheckParent(w)

Step(w) == CreateStep(w) \/ DeleteStep(w)

Next ==
    \/ \E w \in Worker, o \in Object : StartCreate(w, o) \/ StartDelete(w, o)
    \/ \E w \in Worker : Step(w)
    \/ \E i \in VolumeID : LockExpires(i)
    \/ Crash

Spec == Init /\ [][Next]_vars

-----------------------------------------------------------------------------
(* Properties. *)

CreateLabel == {"byName", "create", "source", "snap", "confirm", "promote", "tag"}
DeleteLabel == {"get", "children", "mark", "delMeta", "delVol", "parentMeta"}
ID == VolumeID \cup {NoID}

ArrayOK ==
    /\ vols \subseteq VolumeID /\ used \subseteq VolumeID
    /\ marked \subseteq VolumeID /\ locked \subseteq VolumeID
    /\ name \in [VolumeID -> Object \cup {NoObject}]
    /\ parent \in [VolumeID -> ID]

KubernetesOK ==
    /\ phase \in [Object -> {"unbound", "bound", "deleting", "gone"}]
    /\ handle \in [Object -> ID]

ProcessOK ==
    /\ pc \in [Worker -> {"idle"} \cup CreateLabel \cup DeleteLabel]
    /\ my \in [Worker -> [op : {"none", "create", "delete"}, obj : Object \cup {NoObject},
                          id : ID, up : ID]]

\* Every variable has its type.
TypeOK == ArrayOK /\ KubernetesOK /\ ProcessOK /\ faults \in Nat

\* A bound PV or snapshot is served: its volume exists until it is deleted
\* itself.  The recursion of DeleteVolume never reaches a parent that nobody
\* asked to delete, whatever creates and deletes of its family interleave and
\* whatever calls fail.
BoundServed == \A o \in Object : phase[o] = "bound" => handle[o] \in vols

\* A snapshot is not deleted while it is locked: DeleteVolume reads the lock
\* several calls before it deletes.
LockedKept == [][\A i \in locked : i \in vols']_vars

Quiet == \A w \in Worker : pc[w] = "idle"

\* Deferred deletions are carried out: between calls that met no fault, what is
\* left of a deleted object is a volume that still has children.
DeferredDeleted ==
    Quiet /\ faults = 0 =>
        \A o \in Object : phase[o] = "gone" /\ handle[o] \in vols => Children(handle[o]) # {}

-----------------------------------------------------------------------------
(* Why BoundServed holds. *)

Deleted == {"deleting", "gone"}

\* Kubernetes asked to delete the object that i belongs to.
Doomed(i) == name[i] \in Object /\ phase[name[i]] \in Deleted

\* Volumes exist and carry marks only under IDs that were handed out, and only
\* the volumes of deleted objects are marked.
ArrayInv ==
    /\ vols \subseteq used /\ marked \subseteq used
    /\ \A i \in marked : Doomed(i)

\* A handle names a volume that was created for its object.
HandleInv ==
    \A o \in Object :
        /\ phase[o] = "unbound" => handle[o] = NoID
        /\ phase[o] # "unbound" => handle[o] \in used /\ name[handle[o]] = o

\* A handler that deletes works on the volume of a deleted object; one that
\* creates works on a volume of its own object, which nobody has deleted
\* unless the object was bound meanwhile.
WorkerInv(w) ==
    /\ pc[w] # "idle" => my[w].obj \in Object
    /\ pc[w] \in DeleteLabel =>
        phase[my[w].obj] \in Deleted /\ my[w].id \in used /\ Doomed(my[w].id)
    /\ pc[w] \in {"confirm", "promote", "tag"} =>
        /\ my[w].id \in used /\ name[my[w].id] = my[w].obj
        /\ phase[my[w].obj] = "unbound" => my[w].id \in vols

ServedInv ==
    TypeOK /\ ArrayInv /\ HandleInv /\ (\A w \in Worker : WorkerInv(w)) /\ BoundServed

-----------------------------------------------------------------------------
(* Why LockedKept holds: a lock is set when a snapshot is created and never   *)
(* again, so a volume that DeleteVolume found unlocked stays unlocked.       *)

LockRead == {"children", "mark", "delMeta", "delVol"}

LockInv ==
    /\ locked \subseteq vols
    /\ \A w \in Worker : pc[w] \in LockRead => my[w].id \notin locked

-----------------------------------------------------------------------------
(* Liveness.  The external provisioner and snapshotter repeat a delete until  *)
(* it succeeds; locks expire; every REST call returns.                       *)

Fairness ==
    /\ \A w \in Worker : WF_vars(Step(w))
    /\ \A o \in Object : SF_vars(\E w \in Worker : StartDelete(w, o))
    /\ \A i \in VolumeID : WF_vars(LockExpires(i))

FairSpec == Spec /\ Fairness

\* A delete that Kubernetes repeats succeeds in the end: no half-done delete
\* leaves a volume that the next call cannot delete.
DeleteSucceeds == \A o \in Object : phase[o] = "deleting" ~> phase[o] = "gone"
=============================================================================
