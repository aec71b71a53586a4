----------------------------- MODULE NfsProofs -----------------------------
(***************************************************************************)
(* Proofs about Nfs, for any sets of workers, volumes, snapshots, nodes    *)
(* and pods, any number of faults and any calls that overlap with their    *)
(* own repetition, CreateVolume excepted: a repeated CreateVolume answers  *)
(* with the filesystem of the first call, which may still roll it back.    *)
(*                                                                         *)
(*   Bound     a bound volume or snapshot has its filesystem;              *)
(*   Admitted  a mounted volume that is not shared has an export that      *)
(*             admits the node;                                            *)
(*   Cleaned   without faults, no rule is left for a node without pods.    *)
(*                                                                         *)
(* The inductive invariant Inv ties the three places where an ID is kept   *)
(* to each other: the array's filesystems and exports, the handles and     *)
(* contexts of Kubernetes, and the local variables of the handlers.  What  *)
(* a step of a worker may do to them is Effect(w); one lemma says that a   *)
(* step with this effect keeps the invariant, and one for each handler     *)
(* that its steps have it.                                                 *)
(***************************************************************************)
EXTENDS Nfs, TLAPS

ID == FileSystemID \cup {NoID}
AnyExport == ExportID \cup {NoID}

CreateLabel ==
    {"byName", "exports", "create", "source", "snap", "export", "metadata", "undoExport", "undoFS"}
DeleteLabel == {"get", "children", "delExports", "delExport", "delMeta", "delFS", "parent"}
AttachLabel == {"publish", "addNode"}
MountLabel == {"fsName", "rules", "newExport", "addRule", "mount"}
UnmountLabel == {"unmount", "cleanup", "dropExport", "dropRule"}

\* Where the handler of a call may be.
Place(op, label) ==
    \/ op = "none" /\ label = "idle"
    \/ op = "create" /\ label \in CreateLabel
    \/ op = "delete" /\ label \in DeleteLabel
    \/ op = "attach" /\ label \in AttachLabel
    \/ op = "detach" /\ label = "unpublish"
    \/ op = "mount" /\ label \in MountLabel
    \/ op = "unmount" /\ label \in UnmountLabel

Op == {"none", "create", "delete", "attach", "detach", "mount", "unmount"}
Label == {"idle", "unpublish"} \cup CreateLabel \cup DeleteLabel \cup AttachLabel \cup MountLabel \cup UnmountLabel

CallType ==
    [op : Op, obj : Object \cup {NoObject}, node : Node \cup {NoNode}, pod : Pod \cup {NoPod},
     id : ID, up : ID, exp : AnyExport, old : SUBSET Client]

ArrayOK ==
    /\ fss \in SUBSET FileSystemID
    /\ name \in [FileSystemID -> Object \cup {NoObject}]
    /\ parent \in [FileSystemID -> ID]
    /\ export \in [FileSystemID -> AnyExport]
    /\ rules \in [FileSystemID -> SUBSET Client]

KubernetesOK ==
    /\ phase \in [Object -> {"unbound", "bound", "deleting", "gone"}]
    /\ handle \in [Object -> ID]
    /\ exportID \in [Volume -> AnyExport]
    /\ attach \in [Attachment -> {"detached", "attaching", "attached", "detaching"}]
    /\ pods \in [Pod -> {"absent", "starting", "running", "stopping"}]

ProcessOK ==
    /\ my \in [Worker -> CallType]
    /\ pc \in [Worker -> Label]

TypeOK == ArrayOK /\ KubernetesOK /\ ProcessOK /\ mounted \in SUBSET Pod /\ faults \in Nat

\* Only filesystems have exports, only exports have rules, and no two
\* filesystems have the same export.
ArrayInv ==
    /\ \A f \in FileSystemID : f \notin fss => export[f] = NoID
    /\ \A f \in FileSystemID : export[f] = NoID => rules[f] = {}
    /\ \A f, g \in FileSystemID : export[f] = export[g] /\ export[f] # NoID => f = g

\* A filesystem that a handle names has the name of that object, and an export
\* that a volume context names is that of the filesystem in the handle.
HandleInv ==
    /\ \A o \in Object : phase[o] = "unbound" => handle[o] = NoID
    /\ \A o \in Object : handle[o] \in fss => name[handle[o]] = o
    /\ \A v \in Volume, f \in FileSystemID :
          exportID[v] # NoID /\ export[f] = exportID[v] => f = handle[v]

\* What is mounted belongs to a pod, the pod's volume is attached, what is
\* attached is bound, and to one node unless it is shared.
AttachInv ==
    /\ \A a \in Attachment : attach[a] # "detached" => phase[a[1]] = "bound"
    /\ \A p \in Pod : pods[p] # "absent" => attach[Uses[p]] = "attached"
    /\ \A v \in Volume, m, n \in Node :
          attach[<<v, m>>] # "detached" /\ attach[<<v, n>>] # "detached" /\ v \notin Shared => m = n
    /\ \A p \in mounted : pods[p] # "absent"

(* What holds of a call m whose handler is at a label. *)

FileSystemKnown == {"exports", "export", "metadata", "undoExport", "undoFS"}
Searching == {"byName", "create", "source", "snap"}

CreateInv(label, m) ==
    m.op = "create" =>
        /\ m.obj \in Object /\ m.node = NoNode /\ phase[m.obj] = "unbound"
        /\ m.id # NoID => m.obj \in Volume
        /\ label \in FileSystemKnown => m.id \in FileSystemID
        /\ label \in Searching => m.exp = NoID
        /\ label = "create" => m.obj \in Volume
        /\ m.id \in fss => name[m.id] = m.obj
        /\ label = "exports" => m.id \in fss

DeleteInv(label, m) ==
    m.op = "delete" =>
        /\ m.obj \in Object /\ m.id = handle[m.obj]
        /\ phase[m.obj] \in {"deleting", "gone"}
        /\ label \in DeleteLabel \ {"get"} => m.id \in FileSystemID

AttachCallInv(label, m) ==
    m.op = "attach" =>
        /\ m.obj \in Volume /\ m.node \in Node /\ m.id = handle[m.obj]
        /\ attach[<<m.obj, m.node>>] \in {"attaching", "attached"}

DetachCallInv(label, m) ==
    m.op = "detach" =>
        /\ m.obj \in Volume /\ m.node \in Node
        /\ \A p \in Pod : Uses[p] = <<m.obj, m.node>> => pods[p] = "absent"

PodCallInv(label, m) ==
    m.op \in NodeCall =>
        /\ m.obj \in Volume /\ m.node \in Node /\ m.id = handle[m.obj]
        /\ m.pod \in Pod /\ Uses[m.pod] = <<m.obj, m.node>>
        /\ pods[m.pod] # "absent"
        /\ label \in {"cleanup", "dropExport", "dropRule"} => m.pod \notin mounted
        /\ label \in {"dropExport", "dropRule"} => \A p \in mounted : Uses[p] # Uses[m.pod]

\* The export that a handler knows is that of its filesystem.
ExportInv(m) == m.exp # NoID => \A f \in FileSystemID : export[f] = m.exp => f = m.id

CallInv(label, m) ==
    /\ Place(m.op, label)
    /\ ExportInv(m)
    /\ CreateInv(label, m) /\ DeleteInv(label, m) /\ AttachCallInv(label, m)
    /\ DetachCallInv(label, m) /\ PodCallInv(label, m)

\* Calls for one object are repetitions of one another or come from different
\* nodes, and a node serves one call at a time.
Exclusive ==
    /\ \A u, w \in Worker : u # w /\ my[u].obj = my[w].obj /\ my[u].obj # NoObject =>
          \/ my[u].op = my[w].op /\ my[u].op \in Overlap
          \/ my[u].obj \in Shared /\ my[u].node # my[w].node
    /\ \A u, w \in Worker : my[u].op \in NodeCall /\ my[w].op \in NodeCall /\ my[u].node = my[w].node => u = w

Inv ==
    /\ TypeOK /\ ArrayInv /\ HandleInv /\ AttachInv /\ Exclusive
    /\ \A w \in Worker : CallInv(pc[w], my[w])
    /\ BoundServed /\ MountedCovered

-----------------------------------------------------------------------------
(* The effect of a step of worker w. *)

Own(w) == my[w].id
NextCovered(f, n) == export'[f] # NoID /\ {n, Star} \cap rules'[f] # {}

\* A filesystem appears with an ID that nobody knows, or the worker's own one
\* disappears.
FileSystemEffect(w) ==
    /\ fss \ {Own(w)} \subseteq fss'
    /\ Own(w) \in fss /\ Own(w) \notin fss' => my[w].op \in {"create", "delete"}
    /\ \A f \in fss \cap fss' : name'[f] = name[f]
    /\ \A f \in fss' \ fss : f \in FreshFileSystemID

\* Only the export of the worker's own filesystem changes: it gets one with an
\* ID that nobody knows, or loses it.
ExportEffect(w) ==
    /\ \A f \in FileSystemID : f # Own(w) => export'[f] = export[f] /\ rules'[f] = rules[f]
    /\ \A f \in FileSystemID : export'[f] \in {export[f], NoID} \cup FreshExportID

\* Calls that need the export leave it admitting their node; a call that takes
\* a rule away does so when its node does not use the volume.
CoverEffect(w) ==
    \/ my[w].op \in {"create", "delete"}
    \/ UNCHANGED <<export, rules>>
    \/ my[w].op \in {"attach", "mount"} /\ NextCovered(Own(w), my[w].node)
    \/ my[w].op = "unmount" /\ \A p \in mounted : Uses[p] # Uses[my[w].pod]

ArrayEffect(w) ==
    FileSystemEffect(w) /\ ExportEffect(w) /\ CoverEffect(w) /\ ArrayOK' /\ ArrayInv'

\* Kubernetes hears of the worker's own object, attachment or pod.
ObjectEffect(w) ==
    /\ \A o \in Object : o # my[w].obj => phase'[o] = phase[o] /\ handle'[o] = handle[o]
    /\ \A v \in Volume : v # my[w].obj => exportID'[v] = exportID[v]
    /\ \/ UNCHANGED <<phase, handle, exportID>>
       \/ /\ my[w].op = "create" /\ phase'[my[w].obj] = "bound"
          /\ handle'[my[w].obj] \in fss' /\ name'[handle'[my[w].obj]] = my[w].obj
          /\ my[w].obj \in Volume /\ exportID'[my[w].obj] # NoID =>
                \A f \in FileSystemID : export'[f] = exportID'[my[w].obj] => f = handle'[my[w].obj]
       \/ my[w].op = "delete" /\ phase'[my[w].obj] = "gone" /\ UNCHANGED <<handle, exportID>>

AttachEffect(w) ==
    \A a \in Attachment : attach'[a] # attach[a] =>
        /\ a = <<my[w].obj, my[w].node>>
        /\ \/ my[w].op = "attach" /\ attach'[a] = "attached"
           \/ my[w].op = "detach" /\ attach'[a] = "detached"

PodEffect(w) ==
    \A p \in Pod : pods'[p] # pods[p] =>
        /\ p = my[w].pod /\ my[w].op \in NodeCall
        /\ pods'[p] # "absent" \/ p \notin mounted'

KubernetesEffect(w) == ObjectEffect(w) /\ AttachEffect(w) /\ PodEffect(w) /\ KubernetesOK'

\* A mount succeeds only where the export admits the node.
MountEffect(w) ==
    /\ mounted' \in SUBSET Pod
    /\ \A p \in mounted' \ mounted :
          p = my[w].pod /\ my[w].op = "mount" /\ NextCovered(Own(w), my[w].node)

Others(w) == \A u \in Worker \ {w} : pc'[u] = pc[u] /\ my'[u] = my[u]

\* The worker itself ends its call or goes on with it.
CallEffect(w) ==
    /\ ProcessOK' /\ Others(w)
    /\ \/ pc'[w] = "idle" /\ my'[w] = NoCall
       \/ /\ my'[w].op = my[w].op /\ my'[w].obj = my[w].obj /\ my'[w].node = my[w].node
          /\ CallInv(pc[w], my[w])'

Effect(w) ==
    /\ ArrayEffect(w) /\ KubernetesEffect(w) /\ MountEffect(w) /\ CallEffect(w)
    /\ faults' \in Nat

-----------------------------------------------------------------------------
(* Steps with this effect keep the invariant. *)

\* The handler at its start: what the request brings.
LEMMA NoCallInv == CallInv("idle", NoCall)
  BY Zenon DEF CallInv, NoCall, Call, Place, ExportInv, CreateInv, DeleteInv, AttachCallInv, DetachCallInv,
         PodCallInv, NodeCall

\* The same after a step.
LEMMA NoCallInvNext == CallInv("idle", NoCall)'
  BY Zenon DEF CallInv, NoCall, Call, Place, ExportInv, CreateInv, DeleteInv, AttachCallInv, DetachCallInv,
         PodCallInv, NodeCall

\* The record of a call that is over.
LEMMA NoCallFacts ==
    /\ NoCall.op = "none" /\ NoCall.obj = NoObject /\ NoCall.id = NoID /\ NoCall.exp = NoID
    /\ NoCall \in CallType
  BY Zenon DEF NoCall, Call, CallType, ID, AnyExport, Op

\* A filesystem that was there before a step keeps its name, and one that is
\* new is not in anybody's hands.
LEMMA NamesKept ==
    ASSUME Inv, NEW w \in Worker, ArrayEffect(w)
    PROVE  /\ \A o \in Object : handle[o] \in fss' => handle[o] \in fss /\ name'[handle[o]] = name[handle[o]]
           /\ \A u \in Worker : my[u].id \in fss' =>
                  my[u].id \in fss /\ name'[my[u].id] = name[my[u].id]
  BY Zenon DEF ArrayEffect, FileSystemEffect, FreshFileSystemID

\* An export ID that somebody knows stays with its filesystem.
LEMMA ExportsKept ==
    ASSUME Inv, NEW w \in Worker, ArrayEffect(w), NEW f \in FileSystemID, export'[f] # NoID
    PROVE  /\ \A v \in Volume : export'[f] = exportID[v] => export[f] = exportID[v]
           /\ \A u \in Worker : export'[f] = my[u].exp => export[f] = my[u].exp
  BY Zenon DEF ArrayEffect, ExportEffect, FreshExportID

\* Handles and volume contexts go on naming the right filesystems and exports.
LEMMA HandleKept ==
    ASSUME Inv, NEW w \in Worker, Effect(w)
    PROVE  HandleInv'
  <1> USE DEF Effect, Inv
  <1>1. \A o \in Object : phase'[o] = "unbound" => handle'[o] = NoID
    BY Zenon DEF HandleInv, KubernetesEffect, ObjectEffect
  <1>2. ASSUME NEW o \in Object, handle'[o] \in fss'
        PROVE  name'[handle'[o]] = o
    <2>1. CASE handle'[o] = handle[o]
      BY <1>2, <2>1, NamesKept, Zenon DEF HandleInv
    <2>2. CASE handle'[o] # handle[o]
      BY <1>2, <2>2, Zenon DEF KubernetesEffect, ObjectEffect
    <2> QED
      BY <2>1, <2>2, Zenon
  <1>3. ASSUME NEW v \in Volume, NEW f \in FileSystemID, exportID'[v] # NoID, export'[f] = exportID'[v]
        PROVE  f = handle'[v]
    <2>0. v \in Object
      BY Zenon DEF Object
    <2>1. CASE exportID'[v] = exportID[v] /\ handle'[v] = handle[v]
      BY <1>3, <2>1, ExportsKept DEF HandleInv
    <2>2. CASE ~(exportID'[v] = exportID[v] /\ handle'[v] = handle[v])
      BY <1>3, <2>0, <2>2, Zenon DEF KubernetesEffect, ObjectEffect
    <2> QED
      BY <2>1, <2>2, Zenon
  <1> QED
    BY <1>1, <1>2, <1>3, Zenon DEF HandleInv

\* Equal pairs have equal components.
LEMMA SamePair ==
    ASSUME NEW a, NEW b, NEW c, NEW d, <<a, b>> = <<c, d>>
    PROVE  a = c /\ b = d
  BY Zenon

\* The objects of attachments stay bound, and pods stay attached.
LEMMA AttachKept ==
    ASSUME Inv, NEW w \in Worker, Effect(w)
    PROVE  AttachInv'
  <1> USE DEF Effect, Inv
  <1>0. CallInv(pc[w], my[w])
    BY Zenon
  <1>1. ASSUME NEW a \in Attachment, attach'[a] # "detached"
        PROVE  attach[a] # "detached" /\ phase[a[1]] = "bound"
    <2>1. CASE attach'[a] = attach[a]
      BY <1>1, <2>1, Zenon DEF AttachInv
    <2>2. CASE attach'[a] # attach[a]
      BY <1>0, <1>1, <2>2, Zenon DEF KubernetesEffect, AttachEffect, CallInv, AttachCallInv, AttachInv
    <2> QED
      BY <2>1, <2>2, Zenon
  <1>2. ASSUME NEW o \in Object, phase[o] = "bound"
        PROVE  phase'[o] = "bound"
    BY <1>0, <1>2, Zenon DEF KubernetesEffect, ObjectEffect, CallInv, DeleteInv
  <1>3. \A a \in Attachment : attach'[a] # "detached" => phase'[a[1]] = "bound"
    BY <1>1, <1>2, Zenon DEF Attachment, Object
  <1>4. ASSUME NEW p \in Pod, pods'[p] # "absent"
        PROVE  attach'[Uses[p]] = "attached"
    <2>1. pods[p] # "absent"
      BY <1>0, <1>4, Zenon DEF KubernetesEffect, PodEffect, CallInv, PodCallInv
    <2>2. Uses[p] \in Attachment /\ attach[Uses[p]] = "attached"
      BY <2>1, PodAssumption, Zenon DEF AttachInv
    <2> QED
      BY <1>0, <2>1, <2>2, Zenon DEF KubernetesEffect, AttachEffect, CallInv, DetachCallInv
  <1>5. \A v \in Volume, m, n \in Node :
            attach'[<<v, m>>] # "detached" /\ attach'[<<v, n>>] # "detached" /\ v \notin Shared => m = n
    BY <1>1 DEF AttachInv, Attachment
  <1>6. ASSUME NEW p \in mounted'
        PROVE  pods'[p] # "absent"
    <2>1. p \in mounted => pods[p] # "absent"
      BY Zenon DEF AttachInv
    <2>2. p \notin mounted => p = my[w].pod /\ my[w].op = "mount"
      BY Zenon DEF MountEffect
    <2>3. my[w].op = "mount" => pods[my[w].pod] # "absent"
      BY <1>0, Zenon DEF CallInv, PodCallInv, NodeCall
    <2>4. p \in Pod /\ p \in mounted'
      BY <1>6, Zenon DEF MountEffect
    <2> QED
      BY <2>1, <2>2, <2>3, <2>4, Zenon DEF KubernetesEffect, PodEffect
  <1> QED
    BY <1>3, <1>4, <1>5, <1>6, Zenon DEF AttachInv

\* The object of a filesystem that a step may remove is not bound.
LEMMA RemovedUnbound ==
    ASSUME Inv, NEW w \in Worker, my[w].op \in {"create", "delete"}, Own(w) \in fss
    PROVE  /\ my[w].obj \in Object /\ name[Own(w)] = my[w].obj
           /\ phase[my[w].obj] # "bound"
           /\ my[w].op = "delete" => phase[my[w].obj] # "unbound"
  BY Zenon DEF Inv, CallInv, CreateInv, DeleteInv, HandleInv, Own

\* A bound object keeps its filesystem.
LEMMA BoundKept ==
    ASSUME Inv, NEW w \in Worker, Effect(w)
    PROVE  BoundServed'
  <1> SUFFICES ASSUME NEW o \in Object, phase'[o] = "bound"
               PROVE  handle'[o] \in fss'
    BY Zenon DEF BoundServed
  <1> USE DEF Effect, Inv
  <1>1. CASE phase[o] = "bound" /\ handle'[o] = handle[o]
    <2>1. handle[o] \in fss /\ name[handle[o]] = o
      BY <1>1, Zenon DEF BoundServed, HandleInv
    <2> QED
      BY <1>1, <2>1, RemovedUnbound, Zenon DEF ArrayEffect, FileSystemEffect
  <1>2. CASE ~(phase[o] = "bound" /\ handle'[o] = handle[o])
    BY <1>2, Zenon DEF KubernetesEffect, ObjectEffect
  <1> QED
    BY <1>1, <1>2, Zenon

\* A pod that has its volume mounted holds the volume: it is bound, its
\* filesystem is there under its name.
LEMMA PodHolds ==
    ASSUME Inv, NEW p \in Pod, pods[p] # "absent", NEW v \in Volume, NEW n \in Node, Uses[p] = <<v, n>>
    PROVE  /\ attach[<<v, n>>] = "attached" /\ phase[v] = "bound"
           /\ handle[v] \in fss /\ name[handle[v]] = v
  <1>1. v \in Object /\ <<v, n>> \in Attachment
    BY Zenon DEF Object, Attachment
  <1>2. attach[<<v, n>>] = "attached"
    BY Zenon DEF Inv, AttachInv
  <1>3. phase[v] = "bound"
    BY <1>1, <1>2, Zenon DEF Inv, AttachInv
  <1> QED
    BY <1>1, <1>2, <1>3, Zenon DEF Inv, BoundServed, HandleInv

\* A call on an export that attaches, mounts or unmounts is for the volume of
\* the filesystem and, if this is not shared, for the node it is attached to.
LEMMA SameNode ==
    ASSUME Inv, NEW w \in Worker, NEW v \in Volume, NEW n \in Node, v \notin Shared,
           attach[<<v, n>>] # "detached", handle[v] \in fss, name[handle[v]] = v,
           my[w].op \in {"attach", "mount", "unmount"}, Own(w) = handle[v]
    PROVE  my[w].obj = v /\ my[w].node = n
  <1> USE DEF Inv
  <1>0. CallInv(pc[w], my[w])
    BY Zenon
  <1>1. my[w].obj \in Volume /\ my[w].node \in Node /\ my[w].id = handle[my[w].obj]
    BY <1>0, Zenon DEF CallInv, AttachCallInv, PodCallInv, NodeCall
  <1>2. my[w].obj = v
    BY <1>1, Zenon DEF HandleInv, Own, Object
  <1>3. attach[<<my[w].obj, my[w].node>>] # "detached"
    <2>1. CASE my[w].op = "attach"
      BY <1>0, <2>1, Zenon DEF CallInv, AttachCallInv
    <2>2. CASE my[w].op \in NodeCall
      BY <1>0, <1>1, <2>2, PodHolds, Zenon DEF CallInv, PodCallInv
    <2> QED
      BY <2>1, <2>2, Zenon DEF NodeCall
  <1> QED
    BY <1>1, <1>2, <1>3, Zenon DEF AttachInv

\* The export of a mounted volume that is not shared goes on admitting its node.
LEMMA MountedKept ==
    ASSUME Inv, NEW w \in Worker, Effect(w)
    PROVE  MountedCovered'
  <1> SUFFICES ASSUME NEW v \in Volume, v \notin Shared, NEW n \in Node,
                      NEW p \in mounted', Uses[p] = <<v, n>>
               PROVE  Covered(handle[v], n)' /\ handle'[v] = handle[v]
    BY Zenon DEF MountedCovered, MountedOn, Covered
  <1> USE DEF Effect, Inv
  <1>0. CallInv(pc[w], my[w]) /\ p \in Pod /\ v \in Object
    BY Zenon DEF MountEffect, Object
  <1>1. pods[p] # "absent"
    BY <1>0, Zenon DEF AttachInv, MountEffect, CallInv, PodCallInv, NodeCall
  <1>2. /\ attach[<<v, n>>] = "attached" /\ phase[v] = "bound"
        /\ handle[v] \in fss /\ name[handle[v]] = v
    BY <1>0, <1>1, PodHolds, SMTT(60)
  <1>3. handle'[v] = handle[v]
    BY <1>0, <1>2, Zenon DEF KubernetesEffect, ObjectEffect, CallInv, CreateInv
  <1>4. Covered(handle[v], n)'
    <2>1. CASE p \notin mounted
      <3>1. /\ p = my[w].pod /\ my[w].op = "mount" /\ NextCovered(Own(w), my[w].node)
        BY <2>1, Zenon DEF MountEffect
      <3>2. my[w].obj = v /\ my[w].node = n /\ my[w].id = handle[v]
        <4>1. Uses[my[w].pod] = <<my[w].obj, my[w].node>> /\ my[w].id = handle[my[w].obj]
          BY <1>0, <3>1, Zenon DEF CallInv, PodCallInv, NodeCall
        <4>2. <<my[w].obj, my[w].node>> = <<v, n>>
          BY <3>1, <4>1, Zenon
        <4>3. my[w].obj = v /\ my[w].node = n
          BY <4>2, SamePair, Zenon
        <4> QED
          BY <4>1, <4>3, Zenon
      <3> QED
        BY <3>1, <3>2, <1>3, Zenon DEF Own, Covered, NextCovered
    <2>2. CASE p \in mounted
      <3>1. Covered(handle[v], n)
        BY <2>2, Zenon DEF MountedCovered, MountedOn
      <3>2. CASE UNCHANGED <<export, rules>> \/ handle[v] # Own(w)
        <4>1. handle[v] \in FileSystemID
          BY <1>2, Zenon DEF TypeOK, ArrayOK
        <4> QED
          BY <3>1, <3>2, <4>1, <1>3, Zenon DEF Covered, ArrayEffect, ExportEffect
      <3>3. CASE handle[v] = Own(w) /\ ~UNCHANGED <<export, rules>>
        <4>1. my[w].op \notin {"create", "delete"}
          BY <1>2, <3>3, RemovedUnbound, Zenon
        <4>2. my[w].op \in {"attach", "mount", "unmount"}
          BY <3>3, <4>1, Zenon DEF ArrayEffect, CoverEffect
        <4>3. my[w].obj = v /\ my[w].node = n
          BY <1>2, <3>3, <4>2, SameNode, Zenon
        <4>4. my[w].op = "unmount" => Uses[my[w].pod] = Uses[p]
          BY <1>0, <4>3, Zenon DEF CallInv, PodCallInv, NodeCall
        <4>5. NextCovered(Own(w), my[w].node)
          BY <2>2, <3>3, <4>1, <4>4, Zenon DEF ArrayEffect, CoverEffect
        <4> QED
          BY <3>3, <4>3, <4>5, <1>3, Zenon DEF Own, Covered, NextCovered
      <3> QED
        BY <3>2, <3>3, Zenon
    <2> QED
      BY <2>1, <2>2, Zenon
  <1> QED
    BY <1>3, <1>4, Zenon

\* Two calls that create one object exclude each other, and so do an attach and
\* a detach of one attachment.
LEMMA Excluded ==
    ASSUME Inv, "create" \notin Overlap, NEW u \in Worker, NEW w \in Worker, u # w,
           my[u].obj = my[w].obj, my[u].obj \in Object, my[u].node = my[w].node
    PROVE  my[u].op = my[w].op /\ my[u].op # "create"
  BY NfsObjectAssumption, Zenon DEF Inv, Exclusive

\* What the other workers know of their objects stays true.
LEMMA CreateKept ==
    ASSUME Inv, "create" \notin Overlap, NEW w \in Worker, Effect(w), NEW u \in Worker, u # w
    PROVE  CreateInv(pc[u], my[u])'
  <1> SUFFICES ASSUME my[u].op = "create"
               PROVE  CreateInv(pc[u], my[u])'
    BY Zenon DEF Effect, CallEffect, Others, CreateInv
  <1> USE DEF Effect, Inv
  <1>0. CallInv(pc[w], my[w]) /\ CreateInv(pc[u], my[u]) /\ pc'[u] = pc[u] /\ my'[u] = my[u]
    BY Zenon DEF CallInv, CallEffect, Others
  <1>1. my[u].obj \in Object /\ my[u].node = NoNode /\ phase[my[u].obj] = "unbound"
    BY <1>0, Zenon DEF CreateInv
  <1>2. my[w].obj = my[u].obj => my[w].op \notin {"create", "delete"}
    BY <1>0, <1>1, Excluded, Zenon DEF CallInv, CreateInv, DeleteInv
  <1>3. phase'[my[u].obj] = "unbound"
    BY <1>1, <1>2, Zenon DEF KubernetesEffect, ObjectEffect
  <1>4. my[u].id \in fss' => name'[my[u].id] = my[u].obj
    BY <1>0, NamesKept, Zenon DEF CreateInv
  <1>5. my[u].id \in fss => my[u].id \in fss'
    BY <1>0, <1>2, RemovedUnbound, Zenon DEF ArrayEffect, FileSystemEffect, CreateInv
  <1> QED
    BY <1>0, <1>3, <1>4, <1>5, Zenon DEF CreateInv

\* The handle of an object changes only while the object is unbound.
LEMMA HandlesKept ==
    ASSUME Inv, NEW w \in Worker, Effect(w), NEW o \in Object, phase[o] # "unbound"
    PROVE  handle'[o] = handle[o]
  BY Zenon DEF Inv, Effect, KubernetesEffect, ObjectEffect, CallInv, CreateInv

\* So do deletions, ...
LEMMA DeleteKept ==
    ASSUME Inv, NEW w \in Worker, Effect(w), NEW u \in Worker, u # w
    PROVE  DeleteInv(pc[u], my[u])'
  <1> SUFFICES ASSUME my[u].op = "delete"
               PROVE  DeleteInv(pc[u], my[u])'
    BY Zenon DEF Effect, CallEffect, Others, DeleteInv
  <1>0. CallInv(pc[w], my[w]) /\ DeleteInv(pc[u], my[u]) /\ pc'[u] = pc[u] /\ my'[u] = my[u]
    BY Zenon DEF CallInv, CallEffect, Others, Inv, Effect
  <1>1. my[u].obj \in Object /\ phase[my[u].obj] \in {"deleting", "gone"}
    BY <1>0, Zenon DEF DeleteInv
  <1>2. handle'[my[u].obj] = handle[my[u].obj]
    BY <1>1, HandlesKept, Zenon
  <1>3. phase'[my[u].obj] \in {"deleting", "gone"}
    BY <1>0, <1>1, Zenon DEF Effect, KubernetesEffect, ObjectEffect, CallInv, CreateInv
  <1> QED
    BY <1>0, <1>2, <1>3, Zenon DEF DeleteInv

\* ... attachments ...
LEMMA AttachCallKept ==
    ASSUME Inv, "create" \notin Overlap, NEW w \in Worker, Effect(w), NEW u \in Worker, u # w
    PROVE  AttachCallInv(pc[u], my[u])'
  <1> SUFFICES ASSUME my[u].op = "attach"
               PROVE  AttachCallInv(pc[u], my[u])'
    BY Zenon DEF Effect, CallEffect, Others, AttachCallInv
  <1>0. CallInv(pc[w], my[w]) /\ AttachCallInv(pc[u], my[u]) /\ pc'[u] = pc[u] /\ my'[u] = my[u]
    BY Zenon DEF CallInv, CallEffect, Others, Inv, Effect
  <1> DEFINE a == <<my[u].obj, my[u].node>>
  <1>1. /\ my[u].obj \in Volume /\ my[u].obj \in Object /\ a \in Attachment
        /\ attach[a] \in {"attaching", "attached"}
    BY <1>0, Zenon DEF AttachCallInv, Attachment, Object
  <1>2. phase[my[u].obj] = "bound"
    BY <1>1, Zenon DEF Inv, AttachInv
  <1>3. handle'[my[u].obj] = handle[my[u].obj]
    BY <1>1, <1>2, HandlesKept, Zenon
  <1>4. attach'[a] \in {"attaching", "attached"}
    BY <1>1, Excluded, Zenon DEF Effect, KubernetesEffect, AttachEffect
  <1> QED
    BY <1>0, <1>3, <1>4, Zenon DEF AttachCallInv

\* ... and detachments.
LEMMA DetachCallKept ==
    ASSUME Inv, NEW w \in Worker, Effect(w), NEW u \in Worker, u # w
    PROVE  DetachCallInv(pc[u], my[u])'
  <1> SUFFICES ASSUME my[u].op = "detach"
               PROVE  DetachCallInv(pc[u], my[u])'
    BY Zenon DEF Effect, CallEffect, Others, DetachCallInv
  <1>0. CallInv(pc[w], my[w]) /\ DetachCallInv(pc[u], my[u]) /\ pc'[u] = pc[u] /\ my'[u] = my[u]
    BY Zenon DEF CallInv, CallEffect, Others, Inv, Effect
  <1>1. \A p \in Pod : Uses[p] = <<my[u].obj, my[u].node>> => pods'[p] = "absent"
    BY <1>0, Zenon DEF Effect, KubernetesEffect, PodEffect, CallInv, PodCallInv, DetachCallInv
  <1> QED
    BY <1>0, <1>1, Zenon DEF DetachCallInv

\* The calls of the other nodes know what is mounted there.
LEMMA PodCallKept ==
    ASSUME Inv, NEW w \in Worker, Effect(w), NEW u \in Worker, u # w
    PROVE  PodCallInv(pc[u], my[u])'
  <1> SUFFICES ASSUME my[u].op \in NodeCall
               PROVE  PodCallInv(pc[u], my[u])'
    BY Zenon DEF Effect, CallEffect, Others, PodCallInv
  <1>0. CallInv(pc[w], my[w]) /\ PodCallInv(pc[u], my[u]) /\ pc'[u] = pc[u] /\ my'[u] = my[u]
    BY Zenon DEF CallInv, CallEffect, Others, Inv, Effect
  <1>1. /\ my[u].obj \in Volume /\ my[u].node \in Node /\ my[u].pod \in Pod /\ pods[my[u].pod] # "absent"
        /\ Uses[my[u].pod] = <<my[u].obj, my[u].node>> /\ my[u].obj \in Object
    BY <1>0, Zenon DEF PodCallInv, Object
  <1>2. phase[my[u].obj] = "bound"
    BY <1>1, PodHolds, Zenon
  <1>3. handle'[my[u].obj] = handle[my[u].obj]
    BY <1>1, <1>2, HandlesKept, Zenon
  <1>4. my[w].op \in NodeCall => Uses[my[w].pod] # Uses[my[u].pod]
    <2>1. my[w].op \in NodeCall => my[w].node # my[u].node
      BY Zenon DEF Inv, Exclusive
    <2>2. my[w].op \in NodeCall => Uses[my[w].pod] = <<my[w].obj, my[w].node>>
      BY <1>0, Zenon DEF CallInv, PodCallInv
    <2> QED
      BY <1>1, <2>1, <2>2, SMTT(60)
  <1>5. pods'[my[u].pod] # "absent"
    BY <1>1, <1>4, Zenon DEF Effect, KubernetesEffect, PodEffect
  <1>6. \A p \in mounted' : p \in mounted \/ Uses[p] # Uses[my[u].pod]
    BY <1>4, Zenon DEF Effect, MountEffect, NodeCall
  <1>7. pc[u] \in {"cleanup", "dropExport", "dropRule"} => my[u].pod \notin mounted'
    BY <1>0, <1>6, Zenon DEF PodCallInv
  <1>8. pc[u] \in {"dropExport", "dropRule"} => \A p \in mounted' : Uses[p] # Uses[my[u].pod]
    BY <1>0, <1>6, Zenon DEF PodCallInv
  <1> QED
    BY <1>0, <1>1, <1>3, <1>5, <1>7, <1>8, Zenon DEF PodCallInv

\* The invariant of every other worker is kept, ...
LEMMA OthersKept ==
    ASSUME Inv, "create" \notin Overlap, NEW w \in Worker, Effect(w), NEW u \in Worker, u # w
    PROVE  CallInv(pc[u], my[u])'
  <1>1. pc'[u] = pc[u] /\ my'[u] = my[u] /\ CallInv(pc[u], my[u])
    BY Zenon DEF Effect, CallEffect, Others, Inv
  <1>2. ExportInv(my[u])'
    <2> SUFFICES ASSUME my[u].exp # NoID, NEW f \in FileSystemID, export'[f] = my[u].exp
                 PROVE  f = my[u].id
      BY <1>1, Zenon DEF ExportInv
    <2>1. export[f] = my[u].exp
      BY ExportsKept, Zenon DEF Effect
    <2> QED
      BY <1>1, <2>1, Zenon DEF CallInv, ExportInv
  <1> QED
    BY <1>1, <1>2, CreateKept, DeleteKept, AttachCallKept, DetachCallKept, PodCallKept, Zenon DEF CallInv

\* ... and so is the exclusion of calls.
LEMMA ExclusiveKept ==
    ASSUME Inv, NEW w \in Worker, Effect(w)
    PROVE  Exclusive'
  <1>1. \A u \in Worker :
            \/ my'[u].op = my[u].op /\ my'[u].obj = my[u].obj /\ my'[u].node = my[u].node
            \/ my'[u].op = "none" /\ my'[u].obj = NoObject
    BY NoCallFacts, Zenon DEF Effect, CallEffect, Others
  <1> QED
    BY <1>1, SMTT(60) DEF Exclusive, Inv, NodeCall

\* A step of one worker with the effect above keeps the invariant.
LEMMA EffectKeeps ==
    ASSUME Inv, "create" \notin Overlap, NEW w \in Worker, Effect(w)
    PROVE  Inv'
  <1>1. TypeOK' /\ ArrayInv'
    BY Zenon DEF Effect, ArrayEffect, KubernetesEffect, CallEffect, MountEffect, TypeOK
  <1>2. ASSUME NEW u \in Worker
        PROVE  CallInv(pc[u], my[u])'
    <2>1. CASE u # w
      BY <2>1, OthersKept, Zenon
    <2>2. CASE u = w /\ pc'[w] = "idle" /\ my'[w] = NoCall
      BY <2>2, NoCallInvNext, Zenon DEF CallInv, Place, ExportInv, CreateInv, DeleteInv, AttachCallInv,
         DetachCallInv, PodCallInv
    <2> QED
      BY <2>1, <2>2, Zenon DEF Effect, CallEffect
  <1> QED
    BY <1>1, <1>2, HandleKept, AttachKept, BoundKept, MountedKept, ExclusiveKept, Zenon DEF Inv

-----------------------------------------------------------------------------
(* The effects of the calls on the array, on Kubernetes and on the workers. *)

\* A call that leaves the array alone.
LEMMA ArrayUnchanged ==
    ASSUME Inv, NEW w \in Worker, UNCHANGED array
    PROVE  ArrayEffect(w)
  <1>1. fss' = fss /\ name' = name /\ parent' = parent /\ export' = export /\ rules' = rules
    BY Zenon DEF array
  <1>2. ArrayOK' /\ ArrayInv'
    BY <1>1, Zenon DEF Inv, TypeOK, ArrayOK, ArrayInv
  <1> QED
    BY <1>1, <1>2, Zenon DEF ArrayEffect, FileSystemEffect, ExportEffect, CoverEffect

\* IDs of new filesystems and exports are fresh.
LEMMA NewIDs ==
    /\ FreshFileSystemID # {} => NewFileSystemID \in FreshFileSystemID
    /\ FreshExportID # {} => NewExportID \in FreshExportID
  BY Zenon DEF NewFileSystemID, NewExportID

\* CreateFileSystem and CreateFileSystemSnapshot.
LEMMA NewFileSystemEffect ==
    ASSUME Inv, NEW w \in Worker, NEW f \in FreshFileSystemID, NEW p \in ID, my[w].obj \in Object,
           NewFileSystem(f, my[w].obj, p)
    PROVE  ArrayEffect(w) /\ f \in fss' /\ name'[f] = my[w].obj /\ fss' = fss \cup {f}
  <1>1. f \in FileSystemID /\ f \notin fss
    BY Zenon DEF FreshFileSystemID
  <1>2. fss' = fss \cup {f} /\ name' = [name EXCEPT ![f] = my[w].obj] /\ export' = export /\ rules' = rules
        /\ parent' = [parent EXCEPT ![f] = p]
    BY Zenon DEF NewFileSystem
  <1>3. ArrayOK' /\ ArrayInv'
    BY <1>1, <1>2, Zenon DEF Inv, TypeOK, ArrayOK, ArrayInv
  <1>4. f \in fss' /\ name'[f] = my[w].obj
    BY <1>1, <1>2, Zenon DEF Inv, TypeOK, ArrayOK
  <1>5. FileSystemEffect(w)
    BY <1>1, <1>2, Zenon DEF FileSystemEffect, Inv, TypeOK, ArrayOK
  <1> QED
    BY <1>2, <1>3, <1>4, <1>5, Zenon DEF ArrayEffect, ExportEffect, CoverEffect

\* DeleteFileSystem.
LEMMA RemoveFileSystemEffect ==
    ASSUME Inv, NEW w \in Worker, my[w].op \in {"create", "delete"}, RemoveFileSystem(my[w].id)
    PROVE  ArrayEffect(w)
  <1>1. /\ fss' = fss \ {my[w].id} /\ name' = [name EXCEPT ![my[w].id] = NoObject]
        /\ parent' = [parent EXCEPT ![my[w].id] = NoID]
        /\ export' = [export EXCEPT ![my[w].id] = NoID] /\ rules' = [rules EXCEPT ![my[w].id] = {}]
    BY Zenon DEF RemoveFileSystem
  <1>2. ArrayOK'
    BY <1>1, Zenon DEF Inv, TypeOK, ArrayOK, ID, AnyExport
  <1>3. ArrayInv'
    BY <1>1, Zenon DEF Inv, TypeOK, ArrayOK, ArrayInv
  <1>4. FileSystemEffect(w)
    BY <1>1, Zenon DEF FileSystemEffect, Own, Inv, TypeOK, ArrayOK
  <1>5. ExportEffect(w)
    BY <1>1, Zenon DEF ExportEffect, Own, Inv, TypeOK, ArrayOK
  <1> QED
    BY <1>2, <1>3, <1>4, <1>5, Zenon DEF ArrayEffect, CoverEffect

\* CreateExport and DeleteExport.
LEMMA SetExportEffect ==
    ASSUME Inv, NEW w \in Worker, NEW e, NEW clients \in SUBSET Client,
           \/ e \in FreshExportID /\ my[w].id \in fss
           \/ e = NoID /\ clients = {},
           SetExport(my[w].id, e, clients), CoverEffect(w)
    PROVE  ArrayEffect(w) /\ (e # NoID => \A g \in FileSystemID : export'[g] = e => g = my[w].id)
  <1>1. /\ fss' = fss /\ name' = name /\ parent' = parent
        /\ export' = [export EXCEPT ![my[w].id] = e] /\ rules' = [rules EXCEPT ![my[w].id] = clients]
    BY Zenon DEF SetExport
  <1>2. ArrayOK'
    BY <1>1, Zenon DEF Inv, TypeOK, ArrayOK, AnyExport, FreshExportID
  <1>3. ArrayInv'
    BY <1>1, NfsIDAssumption, Zenon DEF Inv, TypeOK, ArrayOK, ArrayInv, FreshExportID, Exported, AnyExport
  <1>4. FileSystemEffect(w)
    BY <1>1, Zenon DEF FileSystemEffect, Own, Inv, TypeOK, ArrayOK
  <1>5. ExportEffect(w)
    BY <1>1, Zenon DEF ExportEffect, Own, Inv, TypeOK, ArrayOK
  <1>6. ASSUME e # NoID, NEW g \in FileSystemID, export'[g] = e
        PROVE  g = my[w].id
    BY <1>1, <1>6, Zenon DEF Inv, TypeOK, ArrayOK, ArrayInv, FreshExportID, Exported
  <1> QED
    BY <1>2, <1>3, <1>4, <1>5, <1>6, Zenon DEF ArrayEffect

\* UpdateExportPermissions.
LEMMA PutRulesEffect ==
    ASSUME Inv, NEW w \in Worker, NEW clients \in SUBSET Client,
           PutRules(w, clients), UNCHANGED <<fss, name, parent, export>>, CoverEffect(w)
    PROVE  ArrayEffect(w)
  <1>1. rules' = [f \in FileSystemID |-> IF f \in Exported(my[w].exp) THEN clients ELSE rules[f]]
    BY Zenon DEF PutRules
  <1>2. \A f \in Exported(my[w].exp) : f = Own(w) /\ export[f] # NoID
    BY Zenon DEF Inv, CallInv, ExportInv, Exported, Own, TypeOK, ArrayOK
  <1>3. ArrayOK'
    BY <1>1, Zenon DEF Inv, TypeOK, ArrayOK
  <1>4. ArrayInv'
    BY <1>1, <1>2, Zenon DEF Inv, TypeOK, ArrayOK, ArrayInv
  <1>5. FileSystemEffect(w)
    BY Zenon DEF FileSystemEffect
  <1>6. ExportEffect(w)
    BY <1>1, <1>2, Zenon DEF ExportEffect
  <1> QED
    BY <1>3, <1>4, <1>5, <1>6, Zenon DEF ArrayEffect

\* Whose handler is where.
LEMMA Handlers ==
    ASSUME Inv, NEW w \in Worker
    PROVE  /\ pc[w] \in CreateLabel => my[w].op = "create"
           /\ pc[w] \in DeleteLabel => my[w].op = "delete"
           /\ pc[w] \in AttachLabel => my[w].op = "attach"
           /\ pc[w] = "unpublish" => my[w].op = "detach"
           /\ pc[w] \in MountLabel => my[w].op = "mount"
           /\ pc[w] \in UnmountLabel => my[w].op = "unmount"
           /\ pc[w] = "idle" => my[w].op = "none"
  <1>1. Place(my[w].op, pc[w])
    BY Zenon DEF Inv, CallInv
  <1> QED
    BY <1>1, Zenon DEF Place, CreateLabel, DeleteLabel, AttachLabel, MountLabel, UnmountLabel

\* A call that does not touch the mounts.
LEMMA MountsUnchanged ==
    ASSUME Inv, NEW w \in Worker, UNCHANGED mounted
    PROVE  MountEffect(w)
  BY Zenon DEF Inv, TypeOK, MountEffect

\* Every call is charged at most once.
LEMMA FaultsCounted ==
    ASSUME Inv
    PROVE  /\ UNCHANGED faults => faults' \in Nat
           /\ \A c : Fault(c) => faults' \in Nat
           /\ \A c, o : Charge(c, o) => faults' \in Nat
  BY DEF Inv, TypeOK, Fault, Charge

\* Going on to the next call.
LEMMA GotoEffect ==
    ASSUME Inv, NEW w \in Worker, NEW l \in Label, NEW m \in CallType, Goto(w, l, m)
    PROVE  /\ KubernetesEffect(w) /\ ProcessOK' /\ Others(w) /\ pc'[w] = l /\ my'[w] = m
           /\ phase' = phase /\ handle' = handle /\ exportID' = exportID /\ attach' = attach /\ pods' = pods
  <1>1. phase' = phase /\ handle' = handle /\ exportID' = exportID /\ attach' = attach /\ pods' = pods
    BY Zenon DEF Goto, k8s
  <1>2. KubernetesEffect(w)
    BY <1>1, Zenon DEF KubernetesEffect, ObjectEffect, AttachEffect, PodEffect, KubernetesOK, Inv, TypeOK
  <1>3. pc' = [pc EXCEPT ![w] = l] /\ my' = [my EXCEPT ![w] = m]
    BY Zenon DEF Goto
  <1>4. ProcessOK' /\ Others(w) /\ pc'[w] = l /\ my'[w] = m
    BY <1>3, Zenon DEF ProcessOK, Others, Inv, TypeOK
  <1> QED
    BY <1>1, <1>2, <1>4, Zenon

\* Ending the call.
LEMMA LeaveEffect ==
    ASSUME Inv, NEW w \in Worker, Leave(w)
    PROVE  CallEffect(w)
  <1>1. pc' = [pc EXCEPT ![w] = "idle"] /\ my' = [my EXCEPT ![w] = NoCall]
    BY Zenon DEF Leave
  <1>2. "idle" \in Label
    BY Zenon DEF Label
  <1>3. ProcessOK' /\ Others(w) /\ pc'[w] = "idle" /\ my'[w] = NoCall
    BY <1>1, <1>2, NoCallFacts, Zenon DEF ProcessOK, Others, Inv, TypeOK
  <1> QED
    BY <1>3, Zenon DEF CallEffect

\* Ending it with an error, ...
LEMMA ErrorEffect ==
    ASSUME Inv, NEW w \in Worker, ReturnError(w)
    PROVE  CallEffect(w) /\ KubernetesEffect(w)
  <1>1. phase' = phase /\ handle' = handle /\ exportID' = exportID /\ attach' = attach /\ pods' = pods
    BY Zenon DEF ReturnError, k8s
  <1>2. KubernetesEffect(w)
    BY <1>1, Zenon DEF KubernetesEffect, ObjectEffect, AttachEffect, PodEffect, KubernetesOK, Inv, TypeOK
  <1> QED
    BY <1>2, LeaveEffect, Zenon DEF ReturnError

\* ... with a new object, ...
LEMMA CreatedEffect ==
    ASSUME Inv, NEW w \in Worker, my[w].op = "create", ArrayEffect(w), my[w].obj \in Object,
           NEW f \in fss', name'[f] = my[w].obj, NEW e \in AnyExport,
           my[w].obj \in Volume /\ e # NoID => \A g \in FileSystemID : export'[g] = e => g = f,
           ReturnCreated(w, f, e)
    PROVE  CallEffect(w) /\ KubernetesEffect(w)
  <1>1. /\ phase' = [phase EXCEPT ![my[w].obj] = "bound"]
        /\ handle' = [handle EXCEPT ![my[w].obj] = f]
        /\ exportID' = [v \in Volume |-> IF v = my[w].obj THEN e ELSE exportID[v]]
        /\ attach' = attach /\ pods' = pods
    BY Zenon DEF ReturnCreated
  <1>2. f \in ID
    BY Zenon DEF ArrayEffect, ArrayOK, ID
  <1>3. KubernetesOK'
    BY <1>1, <1>2, Zenon DEF KubernetesOK, Inv, TypeOK
  <1>4. ObjectEffect(w)
    BY <1>1, Zenon DEF ObjectEffect, KubernetesOK, Inv, TypeOK
  <1>5. AttachEffect(w) /\ PodEffect(w)
    BY <1>1, Zenon DEF AttachEffect, PodEffect
  <1> QED
    BY <1>3, <1>4, <1>5, LeaveEffect, Zenon DEF ReturnCreated, KubernetesEffect

\* ... with its deletion, ...
LEMMA DeletedEffect ==
    ASSUME Inv, NEW w \in Worker, my[w].op = "delete", my[w].obj \in Object, ReturnDeleted(w)
    PROVE  CallEffect(w) /\ KubernetesEffect(w)
  <1>1. /\ phase' = [phase EXCEPT ![my[w].obj] = "gone"]
        /\ handle' = handle /\ exportID' = exportID /\ attach' = attach /\ pods' = pods
    BY Zenon DEF ReturnDeleted
  <1>2. KubernetesOK' /\ ObjectEffect(w)
    BY <1>1, Zenon DEF KubernetesOK, Inv, TypeOK, ObjectEffect
  <1>3. AttachEffect(w) /\ PodEffect(w)
    BY <1>1, Zenon DEF AttachEffect, PodEffect
  <1> QED
    BY <1>2, <1>3, LeaveEffect, Zenon DEF ReturnDeleted, KubernetesEffect

\* ... with a change of the attachment ...
LEMMA AttachedEffect ==
    ASSUME Inv, NEW w \in Worker, NEW s \in {"attached", "detached"},
           my[w].op = (IF s = "attached" THEN "attach" ELSE "detach"),
           ReturnAttach(w, s)
    PROVE  CallEffect(w) /\ KubernetesEffect(w)
  <1>1. /\ attach' = [attach EXCEPT ![<<my[w].obj, my[w].node>>] = s]
        /\ phase' = phase /\ handle' = handle /\ exportID' = exportID /\ pods' = pods
    BY Zenon DEF ReturnAttach
  <1>2. KubernetesOK' /\ AttachEffect(w)
    BY <1>1, Zenon DEF KubernetesOK, Inv, TypeOK, AttachEffect
  <1>3. ObjectEffect(w) /\ PodEffect(w)
    BY <1>1, Zenon DEF ObjectEffect, PodEffect
  <1> QED
    BY <1>2, <1>3, LeaveEffect, Zenon DEF ReturnAttach, KubernetesEffect

\* ... or of the pod.
LEMMA PodStepEffect ==
    ASSUME Inv, NEW w \in Worker, my[w].op \in NodeCall, NEW s \in {"running", "absent"},
           s = "absent" => my[w].pod \notin mounted', ReturnPod(w, s)
    PROVE  CallEffect(w) /\ KubernetesEffect(w)
  <1>1. /\ pods' = [pods EXCEPT ![my[w].pod] = s]
        /\ phase' = phase /\ handle' = handle /\ exportID' = exportID /\ attach' = attach
    BY Zenon DEF ReturnPod
  <1>2. KubernetesOK' /\ PodEffect(w)
    BY <1>1, Zenon DEF KubernetesOK, Inv, TypeOK, PodEffect
  <1>3. ObjectEffect(w) /\ AttachEffect(w)
    BY <1>1, Zenon DEF ObjectEffect, AttachEffect
  <1> QED
    BY <1>2, <1>3, LeaveEffect, Zenon DEF ReturnPod, KubernetesEffect

-----------------------------------------------------------------------------
(* CreateVolume and CreateSnapshot. *)

\* What the handler knows of its request.
LEMMA CreateFacts ==
    ASSUME Inv, NEW w \in Worker, my[w].op = "create"
    PROVE  /\ my[w] \in CallType /\ my[w].obj \in Object /\ my[w].node = NoNode
           /\ CreateInv(pc[w], my[w]) /\ ExportInv(my[w]) /\ phase[my[w].obj] = "unbound"
           /\ my[w].id \in ID /\ my[w].exp \in AnyExport
  <1>1. my[w] \in CallType
    BY Zenon DEF Inv, TypeOK, ProcessOK
  <1>2. CreateInv(pc[w], my[w]) /\ ExportInv(my[w])
    BY Zenon DEF Inv, CallInv
  <1> QED
    BY <1>1, <1>2, Zenon DEF CallType, CreateInv

\* The handler goes on with a filesystem of its object.
LEMMA CreateGoes ==
    ASSUME Inv, NEW w \in Worker, my[w].op = "create", ArrayEffect(w),
           NEW l \in CreateLabel, NEW m \in CallType, Goto(w, l, m),
           m.op = "create", m.obj = my[w].obj, m.node = my[w].node,
           m.id # NoID => m.obj \in Volume,
           l \in FileSystemKnown => m.id \in FileSystemID,
           m.id \in fss' => name'[m.id] = m.obj,
           l = "exports" => m.id \in fss',
           l \in Searching => m.exp = NoID, l = "create" => m.obj \in Volume,
           m.exp # NoID => \A f \in FileSystemID : export'[f] = m.exp => f = m.id
    PROVE  CallEffect(w) /\ KubernetesEffect(w)
  <1>1. l \in Label
    BY Zenon DEF Label
  <1>2. /\ KubernetesEffect(w) /\ ProcessOK' /\ Others(w) /\ pc'[w] = l /\ my'[w] = m /\ phase' = phase
    BY <1>1, GotoEffect, SMTT(60)
  <1>3. ExportInv(my[w])'
    BY <1>2, Zenon DEF ExportInv
  <1>4. CreateInv(pc[w], my[w])'
    BY <1>2, CreateFacts, Zenon DEF CreateInv
  <1>5. Place(my[w].op, pc[w])'
    BY <1>2, Zenon DEF Place
  <1>6. CallInv(pc[w], my[w])'
    BY <1>2, <1>3, <1>4, <1>5, Zenon DEF CallInv, DeleteInv, AttachCallInv, DetachCallInv, PodCallInv, NodeCall
  <1> QED
    BY <1>2, <1>6, Zenon DEF CallEffect

\* It goes on with what it knew.
LEMMA CreateGoesOn ==
    ASSUME Inv, NEW w \in Worker, my[w].op = "create", ArrayEffect(w),
           NEW l \in CreateLabel, Goto(w, l, my[w]), l # "exports",
           l \in FileSystemKnown => pc[w] \in FileSystemKnown,
           l \in Searching => pc[w] \in Searching, l = "create" => my[w].obj \in Volume
    PROVE  CallEffect(w) /\ KubernetesEffect(w)
  <1> DEFINE m == my[w]
  <1>1. m \in CallType /\ m.obj \in Object /\ CreateInv(pc[w], m) /\ ExportInv(m)
    BY CreateFacts, Zenon
  <1>2. /\ m.id # NoID => m.obj \in Volume
        /\ l \in FileSystemKnown => m.id \in FileSystemID
        /\ l \in Searching => m.exp = NoID
        /\ l = "create" => m.obj \in Volume
    BY <1>1, Zenon DEF CreateInv
  <1>3. m.id \in fss' => name'[m.id] = m.obj
    BY <1>1, NamesKept, Zenon DEF CreateInv
  <1>4. m.exp # NoID => \A f \in FileSystemID : export'[f] = m.exp => f = m.id
    BY <1>1, ExportsKept, Zenon DEF ExportInv
  <1> HIDE DEF m
  <1>5. m = my[w]
    BY Zenon DEF m
  <1> QED
    BY <1>1, <1>2, <1>3, <1>4, <1>5, CreateGoes, Zenon

\* The calls that only read.
LEMMA GetFileSystemByNameStep ==
    ASSUME Inv, NEW w \in Worker, GetFileSystemByName(w)
    PROVE  Effect(w)
  <1> DEFINE o == my[w].obj
  <1>0. my[w].op = "create" /\ pc[w] = "byName"
    BY Handlers, Zenon DEF GetFileSystemByName, CreateLabel
  <1>1. ArrayEffect(w) /\ MountEffect(w) /\ fss' = fss /\ name' = name /\ export' = export
    BY ArrayUnchanged, MountsUnchanged, Zenon DEF GetFileSystemByName, array
  <1>2. faults' \in Nat
    BY FaultsCounted, Zenon DEF GetFileSystemByName
  <1>3. my[w] \in CallType /\ o \in Object /\ CreateInv(pc[w], my[w]) /\ ExportInv(my[w])
        /\ phase[o] = "unbound"
    BY <1>0, CreateFacts, Zenon
  <1>4. CASE Goto(w, IF Source[o] = NoObject THEN "create" ELSE "source", my[w])
    <2> DEFINE l == IF Source[o] = NoObject THEN "create" ELSE "source"
    <2>1. l \in CreateLabel /\ l \notin FileSystemKnown /\ l # "exports" /\ pc[w] \in Searching
      BY <1>0, Zenon DEF CreateLabel, FileSystemKnown, Searching
    <2>2. l = "create" => o \in Volume
      BY <1>3, NfsSourceAssumption, NfsObjectAssumption, Zenon DEF Object
    <2> HIDE DEF l
    <2> QED
      BY <1>0, <1>1, <1>2, <1>4, <2>1, <2>2, CreateGoesOn, Zenon DEF Effect, l
  <1>5. ASSUME NEW f \in Named(o), o \in Volume, Goto(w, "exports", [my[w] EXCEPT !.id = f])
        PROVE  Effect(w)
    <2> DEFINE m == [my[w] EXCEPT !.id = f]
    <2>1. f \in fss /\ name[f] = o /\ f \in FileSystemID /\ f # NoID
      BY NfsIDAssumption, Zenon DEF Named, Inv, TypeOK, ArrayOK
    <2>2. /\ m \in CallType /\ m.op = "create" /\ m.obj = o /\ m.node = my[w].node /\ m.id = f
          /\ m.exp = my[w].exp
      BY <1>0, <1>3, <2>1, Zenon DEF CallType, ID
    <2>3. my[w].exp = NoID
      BY <1>0, <1>3, Zenon DEF CreateInv, Searching
    <2>4. "exports" \in CreateLabel /\ Goto(w, "exports", m)
      BY <1>5, Zenon DEF CreateLabel
    <2> HIDE DEF m
    <2> QED
      BY <1>0, <1>1, <1>2, <1>5, <2>1, <2>2, <2>3, <2>4, CreateGoes, Zenon DEF Effect, Searching
  <1>6. ASSUME NEW f \in Named(o), ReturnCreated(w, f, NoID)
        PROVE  Effect(w)
    <2>1. f \in fss' /\ name'[f] = o /\ NoID \in AnyExport
      BY <1>1, Zenon DEF Named, AnyExport
    <2> QED
      BY <1>0, <1>1, <1>2, <1>3, <1>6, <2>1, CreatedEffect, Zenon DEF Effect
  <1>7. CASE ReturnError(w)
    BY <1>1, <1>2, <1>7, ErrorEffect, Zenon DEF Effect
  <1> QED
    BY <1>4, <1>5, <1>6, <1>7, Zenon DEF GetFileSystemByName

\* The steps of a handler that only read the array and touch no mount.
LEMMA ReadEffect ==
    ASSUME Inv, NEW w \in Worker, UNCHANGED <<array, mounted>>
    PROVE  /\ ArrayEffect(w) /\ MountEffect(w)
           /\ fss' = fss /\ name' = name /\ export' = export /\ rules' = rules /\ mounted' = mounted
  BY ArrayUnchanged, MountsUnchanged, Zenon DEF array

\* A repeated CreateVolume answers with what it found.
LEMMA ExistingVolumeStep ==
    ASSUME Inv, NEW w \in Worker, ExistingVolume(w)
    PROVE  Effect(w)
  <1>0. my[w].op = "create" /\ pc[w] = "exports"
    BY Handlers, Zenon DEF ExistingVolume, CreateLabel
  <1>1. ArrayEffect(w) /\ MountEffect(w) /\ fss' = fss /\ name' = name /\ export' = export
    BY ReadEffect, Zenon DEF ExistingVolume
  <1>2. faults' \in Nat
    BY FaultsCounted, Zenon DEF ExistingVolume
  <1>3. my[w].obj \in Object /\ my[w].id \in fss' /\ name'[my[w].id] = my[w].obj
    BY <1>0, <1>1, CreateFacts, Zenon DEF CreateInv
  <1>4. CASE ReturnCreated(w, my[w].id, export[my[w].id])
    <2>1. my[w].id \in FileSystemID /\ export[my[w].id] \in AnyExport
      BY <1>1, <1>3, Zenon DEF Inv, TypeOK, ArrayOK
    <2>2. export[my[w].id] # NoID =>
              \A g \in FileSystemID : export'[g] = export[my[w].id] => g = my[w].id
      BY <1>1, <2>1, Zenon DEF Inv, ArrayInv
    <2> QED
      BY <1>0, <1>1, <1>2, <1>3, <1>4, <2>1, <2>2, CreatedEffect, Zenon DEF Effect
  <1>5. CASE ReturnError(w)
    BY <1>1, <1>2, <1>5, ErrorEffect, Zenon DEF Effect
  <1> QED
    BY <1>4, <1>5, Zenon DEF ExistingVolume

\* The filesystem of a volume is new and the handler goes on with it.
LEMMA FileSystemCreated ==
    ASSUME Inv, NEW w \in Worker, my[w].op = "create", pc[w] \in Searching, my[w].obj \in Volume,
           NEW f \in FreshFileSystemID, NEW p \in ID, NewFileSystem(f, my[w].obj, p),
           Goto(w, Prepare(my[w].obj), [my[w] EXCEPT !.id = f])
    PROVE  CallEffect(w) /\ KubernetesEffect(w)
  <1> DEFINE m == [my[w] EXCEPT !.id = f]
             l == Prepare(my[w].obj)
  <1>1. my[w] \in CallType /\ my[w].obj \in Object /\ my[w].exp = NoID
    BY CreateFacts, Zenon DEF CreateInv
  <1>2. f \in FileSystemID /\ f # NoID
    BY NfsIDAssumption, Zenon DEF FreshFileSystemID
  <1>3. /\ m \in CallType /\ m.op = "create" /\ m.obj = my[w].obj /\ m.node = my[w].node /\ m.id = f
        /\ m.exp = NoID
    BY <1>1, <1>2, Zenon DEF CallType, ID
  <1>4. ArrayEffect(w) /\ f \in fss' /\ name'[f] = my[w].obj
    BY <1>1, NewFileSystemEffect, Zenon
  <1>5. l \in CreateLabel /\ l # "exports"
    BY Zenon DEF Prepare, CreateLabel
  <1>6. Goto(w, l, m)
    BY Zenon
  <1> HIDE DEF m, l
  <1> QED
    BY <1>1, <1>2, <1>3, <1>4, <1>5, <1>6, CreateGoes, Zenon

\* CreateFileSystem, whatever its outcome.
LEMMA CreateFileSystemStep ==
    ASSUME Inv, NEW w \in Worker, CreateFileSystem(w)
    PROVE  Effect(w)
  <1> DEFINE o == my[w].obj
             f == NewFileSystemID
  <1>0. my[w].op = "create" /\ pc[w] = "create" /\ pc[w] \in Searching
    BY Handlers, Zenon DEF CreateFileSystem, CreateLabel, Searching
  <1>1. MountEffect(w) /\ faults' \in Nat
    BY MountsUnchanged, FaultsCounted, Zenon DEF CreateFileSystem
  <1>2. o \in Object /\ o \in Volume /\ NoID \in ID
    BY <1>0, CreateFacts, Zenon DEF CreateInv, ID
  <1>3. CASE UNCHANGED array /\ ReturnError(w)
    BY <1>1, <1>3, ArrayUnchanged, ErrorEffect, Zenon DEF Effect
  <1>4. CASE /\ FreshFileSystemID # {} /\ NewFileSystem(f, o, NoID)
             /\ Goto(w, Prepare(o), [my[w] EXCEPT !.id = f]) \/ ReturnError(w)
    <2>1. f \in FreshFileSystemID
      BY <1>4, NewIDs, Zenon
    <2> HIDE DEF f
    <2>2. ArrayEffect(w)
      BY <1>2, <1>4, <2>1, NewFileSystemEffect, Zenon
    <2>3. CallEffect(w) /\ KubernetesEffect(w)
      BY <1>0, <1>2, <1>4, <2>1, ErrorEffect, FileSystemCreated, Zenon
    <2> QED
      BY <1>1, <2>2, <2>3, Zenon DEF Effect
  <1> QED
    BY <1>3, <1>4, Zenon DEF CreateFileSystem, Ok, Done

\* GetFileSystemByID of the source.
LEMMA GetSourceStep ==
    ASSUME Inv, NEW w \in Worker, GetSource(w)
    PROVE  Effect(w)
  <1> DEFINE source == handle[Source[my[w].obj]]
             m == [my[w] EXCEPT !.up = source]
  <1>0. my[w].op = "create" /\ pc[w] = "source" /\ pc[w] \in Searching
    BY Handlers, Zenon DEF GetSource, CreateLabel, Searching
  <1>1. ArrayEffect(w) /\ MountEffect(w) /\ fss' = fss /\ name' = name /\ export' = export
    BY ReadEffect, Zenon DEF GetSource
  <1>2. faults' \in Nat
    BY FaultsCounted, Zenon DEF GetSource
  <1>3. my[w] \in CallType /\ CreateInv(pc[w], my[w]) /\ my[w].exp = NoID
    BY <1>0, CreateFacts, Zenon DEF CreateInv
  <1>4. CASE source \in fss /\ Goto(w, "snap", m)
    <2>1. source \in ID
      BY <1>4, Zenon DEF Inv, TypeOK, ArrayOK, ID
    <2>2. /\ m \in CallType /\ m.op = "create" /\ m.obj = my[w].obj /\ m.node = my[w].node /\ m.id = my[w].id
          /\ m.exp = NoID
      BY <1>0, <1>3, <2>1, Zenon DEF CallType
    <2>3. "snap" \in CreateLabel /\ "snap" \notin FileSystemKnown /\ "snap" \notin {"create", "exports"}
      BY Zenon DEF CreateLabel, FileSystemKnown
    <2>4. /\ m.id # NoID => m.obj \in Volume
          /\ m.id \in fss' => name'[m.id] = m.obj
      BY <1>0, <1>1, <1>3, <2>2 DEF CreateInv
    <2>5. Goto(w, "snap", m)
      BY <1>4, Zenon
    <2> HIDE DEF m
    <2> QED
      BY <1>0, <1>1, <1>2, <2>2, <2>3, <2>4, <2>5, CreateGoes, Zenon DEF Effect
  <1>5. CASE ReturnError(w)
    BY <1>1, <1>2, <1>5, ErrorEffect, Zenon DEF Effect
  <1> QED
    BY <1>4, <1>5, Zenon DEF GetSource

\* CreateFileSystemSnapshot, for a snapshot or for a clone.
LEMMA CreateFileSystemSnapshotStep ==
    ASSUME Inv, NEW w \in Worker, CreateFileSystemSnapshot(w)
    PROVE  Effect(w)
  <1> DEFINE o == my[w].obj
             f == NewFileSystemID
  <1>0. my[w].op = "create" /\ pc[w] \in Searching
    BY Handlers, Zenon DEF CreateFileSystemSnapshot, CreateLabel, Searching
  <1>1. MountEffect(w) /\ faults' \in Nat
    BY MountsUnchanged, FaultsCounted, Zenon DEF CreateFileSystemSnapshot
  <1>2. o \in Object /\ my[w].up \in ID /\ NoID \in AnyExport
    BY <1>0, CreateFacts, Zenon DEF CallType, AnyExport
  <1>3. CASE UNCHANGED array /\ ReturnError(w)
    BY <1>1, <1>3, ArrayUnchanged, ErrorEffect, Zenon DEF Effect
  <1>4. CASE /\ FreshFileSystemID # {} /\ NewFileSystem(f, o, my[w].up)
             /\ \/ o \in Snapshot /\ ReturnCreated(w, f, NoID)
                \/ o \notin Snapshot /\ Goto(w, Prepare(o), [my[w] EXCEPT !.id = f])
                \/ ReturnError(w)
    <2>1. f \in FreshFileSystemID
      BY <1>4, NewIDs, Zenon
    <2> HIDE DEF f
    <2>2. ArrayEffect(w) /\ f \in fss' /\ name'[f] = o
      BY <1>2, <1>4, <2>1, NewFileSystemEffect, Zenon
    <2>3. CASE ReturnCreated(w, f, NoID)
      BY <1>0, <1>1, <1>2, <2>2, <2>3, CreatedEffect, Zenon DEF Effect
    <2>4. CASE o \notin Snapshot /\ Goto(w, Prepare(o), [my[w] EXCEPT !.id = f])
      <3>1. o \in Volume
        BY <1>2, <2>4, Zenon DEF Object
      <3> QED
        BY <1>0, <1>1, <1>2, <1>4, <2>1, <2>2, <2>4, <3>1, FileSystemCreated, Zenon DEF Effect
    <2>5. CASE ReturnError(w)
      BY <1>1, <2>2, <2>5, ErrorEffect, Zenon DEF Effect
    <2> QED
      BY <1>4, <2>3, <2>4, <2>5, Zenon
  <1> QED
    BY <1>3, <1>4, Zenon DEF CreateFileSystemSnapshot, Ok, Done

\* The export that CreateVolume makes.
LEMMA createExportPathStep ==
    ASSUME Inv, NEW w \in Worker, createExportPath(w)
    PROVE  Effect(w)
  <1> DEFINE f == my[w].id
             e == NewExportID
             m == [my[w] EXCEPT !.exp = e]
  <1>0. my[w].op = "create" /\ pc[w] = "export" /\ pc[w] \in FileSystemKnown
    BY Handlers, Zenon DEF createExportPath, CreateLabel, FileSystemKnown
  <1>1. MountEffect(w) /\ faults' \in Nat
    BY MountsUnchanged, FaultsCounted, Zenon DEF createExportPath
  <1>2. /\ my[w] \in CallType /\ CreateInv(pc[w], my[w])
        /\ f \in FileSystemID /\ f # NoID /\ my[w].obj \in Volume
    BY <1>0, CreateFacts, NfsIDAssumption, Zenon DEF CreateInv
  <1>3. Permissions[my[w].obj] \in SUBSET Client
    BY <1>2, NfsClassAssumption, Zenon
  <1>4. /\ "undoFS" \in CreateLabel /\ "metadata" \in CreateLabel /\ "undoFS" \notin Searching
        /\ "metadata" \notin Searching
    BY Zenon DEF CreateLabel, Searching
  <1>5. CASE UNCHANGED array /\ Goto(w, "undoFS", my[w])
    <2>1. ArrayEffect(w)
      BY <1>5, ArrayUnchanged, Zenon
    <2> QED
      BY <1>0, <1>1, <1>4, <1>5, <2>1, CreateGoesOn, Zenon DEF Effect
  <1>6. CASE /\ ~ExportRefused(f) /\ FreshExportID # {} /\ SetExport(f, e, Permissions[my[w].obj])
             /\ Goto(w, "metadata", m) \/ Goto(w, "undoFS", my[w])
    <2>1. e \in FreshExportID /\ e \in ExportID /\ f \in fss
      BY <1>6, NewIDs, Zenon DEF FreshExportID, ExportRefused
    <2>2. CoverEffect(w)
      BY <1>0, Zenon DEF CoverEffect
    <2> HIDE DEF e
    <2>3. ArrayEffect(w) /\ \A g \in FileSystemID : export'[g] = e => g = f
      BY <1>3, <1>6, <2>1, <2>2, NfsIDAssumption, SetExportEffect, Zenon
    <2>4. CASE Goto(w, "undoFS", my[w])
      BY <1>0, <1>1, <1>4, <2>3, <2>4, CreateGoesOn, Zenon DEF Effect
    <2>5. CASE Goto(w, "metadata", m)
      <3>1. /\ m \in CallType /\ m.op = "create" /\ m.obj = my[w].obj /\ m.node = my[w].node /\ m.id = f
            /\ m.exp = e
        BY <1>0, <1>2, <2>1, Zenon DEF CallType, AnyExport
      <3>2. f \in fss' => name'[f] = my[w].obj
        BY <1>0, <1>2, <2>3, NamesKept, Zenon DEF CreateInv
      <3> HIDE DEF m
      <3> QED
        BY <1>0, <1>1, <1>2, <1>4, <2>3, <2>5, <3>1, <3>2, CreateGoes, Zenon DEF Effect
    <2> QED
      BY <1>6, <2>4, <2>5, Zenon
  <1> QED
    BY <1>5, <1>6, Zenon DEF createExportPath, Ok, Done

\* The metadata is the last call of CreateVolume.
LEMMA AddMetadataStep ==
    ASSUME Inv, NEW w \in Worker, AddMetadata(w)
    PROVE  Effect(w)
  <1>0. my[w].op = "create" /\ pc[w] = "metadata" /\ pc[w] \in FileSystemKnown
    BY Handlers, Zenon DEF AddMetadata, CreateLabel, FileSystemKnown
  <1>1. ArrayEffect(w) /\ MountEffect(w) /\ fss' = fss /\ name' = name /\ export' = export
    BY ReadEffect, Zenon DEF AddMetadata
  <1>2. faults' \in Nat
    BY FaultsCounted, Zenon DEF AddMetadata
  <1>3. my[w].obj \in Object /\ CreateInv(pc[w], my[w]) /\ ExportInv(my[w]) /\ my[w].exp \in AnyExport
    BY <1>0, CreateFacts, Zenon
  <1>4. CASE my[w].id \in fss /\ ReturnCreated(w, my[w].id, my[w].exp)
    <2>1. my[w].id \in fss' /\ name'[my[w].id] = my[w].obj
      BY <1>0, <1>1, <1>3, <1>4, Zenon DEF CreateInv
    <2>2. my[w].exp # NoID => \A g \in FileSystemID : export'[g] = my[w].exp => g = my[w].id
      BY <1>1, <1>3, Zenon DEF ExportInv
    <2> QED
      BY <1>0, <1>1, <1>2, <1>3, <1>4, <2>1, <2>2, CreatedEffect, Zenon DEF Effect
  <1>5. CASE Goto(w, IF my[w].exp = NoID THEN "undoFS" ELSE "undoExport", my[w])
    <2> DEFINE l == IF my[w].exp = NoID THEN "undoFS" ELSE "undoExport"
    <2>1. l \in CreateLabel /\ l \notin Searching /\ l \notin {"create", "exports"}
      BY Zenon DEF CreateLabel, Searching
    <2> HIDE DEF l
    <2> QED
      BY <1>0, <1>1, <1>2, <1>5, <2>1, CreateGoesOn, Zenon DEF Effect, l
  <1> QED
    BY <1>4, <1>5, Zenon DEF AddMetadata

\* The rollback of the export ...
LEMMA UndoExportStep ==
    ASSUME Inv, NEW w \in Worker, UndoExport(w)
    PROVE  Effect(w)
  <1>0. my[w].op = "create" /\ pc[w] \in FileSystemKnown /\ Goto(w, "undoFS", my[w])
    BY Handlers, Zenon DEF UndoExport, CreateLabel, FileSystemKnown
  <1>1. MountEffect(w) /\ faults' \in Nat
    BY MountsUnchanged, FaultsCounted, Zenon DEF UndoExport
  <1>2. CASE UNCHANGED array
    BY <1>2, ArrayUnchanged, <1>0, <1>1, CreateGoesOn, Zenon DEF Effect, CreateLabel, Searching
  <1>3. CASE SetExport(my[w].id, NoID, {})
    <2>1. CoverEffect(w) /\ {} \in SUBSET Client
      BY <1>0, Zenon DEF CoverEffect
    <2>2. ArrayEffect(w)
      BY <1>3, <2>1, SetExportEffect, Zenon
    <2> QED
      BY <2>2, <1>0, <1>1, CreateGoesOn, Zenon DEF Effect, CreateLabel, Searching
  <1> QED
    BY <1>2, <1>3, Zenon DEF UndoExport

\* ... and that of the filesystem.
LEMMA UndoFileSystemStep ==
    ASSUME Inv, NEW w \in Worker, UndoFileSystem(w)
    PROVE  Effect(w)
  <1>0. my[w].op = "create" /\ ReturnError(w)
    BY Handlers, Zenon DEF UndoFileSystem, CreateLabel
  <1>1. MountEffect(w) /\ faults' \in Nat
    BY MountsUnchanged, FaultsCounted, Zenon DEF UndoFileSystem
  <1>2. ArrayEffect(w)
    BY <1>0, ArrayUnchanged, RemoveFileSystemEffect, Zenon DEF UndoFileSystem
  <1> QED
    BY <1>0, <1>1, <1>2, ErrorEffect, Zenon DEF Effect

\* All steps of CreateVolume and CreateSnapshot.
LEMMA CreateStepEffect ==
    ASSUME Inv, NEW w \in Worker, CreateStep(w)
    PROVE  Effect(w)
  BY GetFileSystemByNameStep, ExistingVolumeStep, CreateFileSystemStep, GetSourceStep,
     CreateFileSystemSnapshotStep, createExportPathStep, AddMetadataStep, UndoExportStep,
     UndoFileSystemStep, Zenon DEF CreateStep

-----------------------------------------------------------------------------
(* DeleteVolume and DeleteSnapshot. *)

\* What the handler knows of its request.
LEMMA DeleteFacts ==
    ASSUME Inv, NEW w \in Worker, my[w].op = "delete"
    PROVE  /\ my[w] \in CallType /\ my[w].obj \in Object
           /\ DeleteInv(pc[w], my[w]) /\ ExportInv(my[w])
  BY Zenon DEF Inv, TypeOK, ProcessOK, CallInv, DeleteInv

\* The handler goes on with the filesystem of the handle.
LEMMA DeleteGoes ==
    ASSUME Inv, NEW w \in Worker, my[w].op = "delete", ArrayEffect(w),
           NEW l \in DeleteLabel, NEW m \in CallType, Goto(w, l, m),
           m.op = "delete", m.obj = my[w].obj, m.node = my[w].node, m.id = my[w].id,
           l # "get" => m.id \in FileSystemID,
           m.exp # NoID => \A f \in FileSystemID : export'[f] = m.exp => f = m.id
    PROVE  CallEffect(w) /\ KubernetesEffect(w)
  <1>1. l \in Label
    BY Zenon DEF Label
  <1>2. /\ KubernetesEffect(w) /\ ProcessOK' /\ Others(w) /\ pc'[w] = l /\ my'[w] = m
        /\ phase' = phase /\ handle' = handle
    BY <1>1, GotoEffect, SMTT(60)
  <1>3. ExportInv(my[w])' /\ Place(my[w].op, pc[w])'
    BY <1>2, Zenon DEF ExportInv, Place
  <1>4. DeleteInv(pc[w], my[w])'
    BY <1>2, DeleteFacts, Zenon DEF DeleteInv
  <1>5. CallInv(pc[w], my[w])'
    BY <1>2, <1>3, <1>4, Zenon DEF CallInv, CreateInv, AttachCallInv, DetachCallInv, PodCallInv, NodeCall
  <1> QED
    BY <1>2, <1>5, Zenon DEF CallEffect

\* It goes on with what it knew.
LEMMA DeleteGoesOn ==
    ASSUME Inv, NEW w \in Worker, my[w].op = "delete", pc[w] \in DeleteLabel, pc[w] # "get", ArrayEffect(w),
           NEW l \in DeleteLabel, Goto(w, l, my[w])
    PROVE  CallEffect(w) /\ KubernetesEffect(w)
  <1> DEFINE m == my[w]
  <1>1. m \in CallType /\ DeleteInv(pc[w], m) /\ ExportInv(m)
    BY DeleteFacts, Zenon
  <1>2. m.id \in FileSystemID
    BY <1>1, Zenon DEF DeleteInv
  <1>3. m.exp # NoID => \A f \in FileSystemID : export'[f] = m.exp => f = m.id
    BY <1>1, ExportsKept, Zenon DEF ExportInv
  <1> HIDE DEF m
  <1>4. m = my[w]
    BY Zenon DEF m
  <1> QED
    BY <1>1, <1>2, <1>3, <1>4, DeleteGoes, Zenon

\* The lock state and the parent are read first, ...
LEMMA GetFileSystemByIDStep ==
    ASSUME Inv, NEW w \in Worker, GetFileSystemByID(w)
    PROVE  Effect(w)
  <1> DEFINE f == my[w].id
             m == [my[w] EXCEPT !.up = parent[f]]
  <1>0. my[w].op = "delete"
    BY Handlers, Zenon DEF GetFileSystemByID, DeleteLabel
  <1>1. ArrayEffect(w) /\ MountEffect(w) /\ export' = export
    BY ReadEffect, Zenon DEF GetFileSystemByID
  <1>2. faults' \in Nat
    BY FaultsCounted, Zenon DEF GetFileSystemByID
  <1>3. my[w] \in CallType /\ my[w].obj \in Object /\ ExportInv(my[w])
    BY <1>0, DeleteFacts, Zenon
  <1>4. CASE f \in fss /\ Goto(w, "children", m)
    <2>1. f \in FileSystemID /\ parent[f] \in ID
      BY <1>4, Zenon DEF Inv, TypeOK, ArrayOK
    <2>2. /\ m \in CallType /\ m.op = "delete" /\ m.obj = my[w].obj /\ m.node = my[w].node /\ m.id = f
          /\ m.exp = my[w].exp
      BY <1>0, <1>3, <2>1, Zenon DEF CallType
    <2>3. my[w].exp # NoID => \A g \in FileSystemID : export'[g] = my[w].exp => g = f
      BY <1>1, <1>3, Zenon DEF ExportInv
    <2>4. Goto(w, "children", m) /\ "children" \in DeleteLabel
      BY <1>4, Zenon DEF DeleteLabel
    <2> HIDE DEF m
    <2> QED
      BY <1>0, <1>1, <1>2, <2>1, <2>2, <2>3, <2>4, DeleteGoes, Zenon DEF Effect
  <1>5. CASE ReturnError(w) \/ ReturnDeleted(w)
    BY <1>0, <1>1, <1>2, <1>3, <1>5, ErrorEffect, DeletedEffect, Zenon DEF Effect
  <1> QED
    BY <1>4, <1>5, Zenon DEF GetFileSystemByID

\* ... then the children, ...
LEMMA GetFileSystemsByParentIDStep ==
    ASSUME Inv, NEW w \in Worker, GetFileSystemsByParentID(w)
    PROVE  Effect(w)
  <1>0. my[w].op = "delete" /\ pc[w] = "children" /\ pc[w] \in DeleteLabel
    BY Handlers, Zenon DEF GetFileSystemsByParentID, DeleteLabel
  <1>1. ArrayEffect(w) /\ MountEffect(w) /\ faults' \in Nat /\ my[w].obj \in Object
    BY <1>0, ReadEffect, FaultsCounted, DeleteFacts, Zenon DEF GetFileSystemsByParentID
  <1>2. "delExports" \in DeleteLabel
    BY Zenon DEF DeleteLabel
  <1>3. Goto(w, "delExports", my[w]) \/ ReturnDeleted(w) \/ ReturnError(w)
    BY Zenon DEF GetFileSystemsByParentID
  <1> QED
    BY <1>0, <1>1, <1>2, <1>3, DeleteGoesOn, ErrorEffect, DeletedEffect, Zenon DEF Effect

\* ... the exports ...
LEMMA GetExportsStep ==
    ASSUME Inv, NEW w \in Worker, GetExports(w)
    PROVE  Effect(w)
  <1> DEFINE f == my[w].id
             e == export[f]
             l == IF e = NoID THEN "delMeta" ELSE "delExport"
             m == [my[w] EXCEPT !.exp = e]
  <1>0. my[w].op = "delete" /\ pc[w] = "delExports"
    BY Handlers, Zenon DEF GetExports, DeleteLabel
  <1>1. ArrayEffect(w) /\ MountEffect(w) /\ export' = export /\ faults' \in Nat
    BY ReadEffect, FaultsCounted, Zenon DEF GetExports
  <1>3. my[w] \in CallType /\ f \in FileSystemID /\ e \in AnyExport
    BY <1>0, DeleteFacts, Zenon DEF DeleteInv, DeleteLabel, Inv, TypeOK, ArrayOK
  <1>4. CASE Goto(w, l, m)
    <2>1. /\ m \in CallType /\ m.op = "delete" /\ m.obj = my[w].obj /\ m.node = my[w].node /\ m.id = f
          /\ m.exp = e
      BY <1>0, <1>3, Zenon DEF CallType
    <2>2. e # NoID => \A g \in FileSystemID : export'[g] = e => g = f
      BY <1>1, <1>3, Zenon DEF Inv, ArrayInv
    <2>3. l \in DeleteLabel
      BY Zenon DEF DeleteLabel
    <2> HIDE DEF m, l
    <2> QED
      BY <1>0, <1>1, <1>3, <1>4, <2>1, <2>2, <2>3, DeleteGoes, Zenon DEF Effect
  <1>5. CASE ReturnError(w)
    BY <1>1, <1>5, ErrorEffect, Zenon DEF Effect
  <1> QED
    BY <1>4, <1>5, Zenon DEF GetExports

\* ... which are deleted, ...
LEMMA DeleteExportStep ==
    ASSUME Inv, NEW w \in Worker, DeleteExport(w)
    PROVE  Effect(w)
  <1>0. my[w].op = "delete" /\ pc[w] = "delExport" /\ pc[w] \in DeleteLabel
    BY Handlers, Zenon DEF DeleteExport, DeleteLabel
  <1>1. MountEffect(w) /\ faults' \in Nat
    BY MountsUnchanged, FaultsCounted, Zenon DEF DeleteExport
  <1>2. ArrayEffect(w)
    <2>1. CASE UNCHANGED array
      BY <2>1, ArrayUnchanged, Zenon
    <2>2. CASE SetExport(my[w].id, NoID, {})
      <3>1. CoverEffect(w) /\ {} \in SUBSET Client
        BY <1>0, Zenon DEF CoverEffect
      <3> QED
        BY <2>2, <3>1, SetExportEffect, Zenon
    <2> QED
      BY <2>1, <2>2, Zenon DEF DeleteExport
  <1>3. Goto(w, "delMeta", my[w]) \/ ReturnError(w)
    BY Zenon DEF DeleteExport
  <1>4. "delMeta" \in DeleteLabel
    BY Zenon DEF DeleteLabel
  <1> QED
    BY <1>0, <1>1, <1>2, <1>3, <1>4, DeleteGoesOn, ErrorEffect, Zenon DEF Effect

\* ... the metadata ...
LEMMA DeleteMetadataStep ==
    ASSUME Inv, NEW w \in Worker, DeleteMetadata(w)
    PROVE  Effect(w)
  <1>0. my[w].op = "delete" /\ pc[w] = "delMeta" /\ pc[w] \in DeleteLabel
    BY Handlers, Zenon DEF DeleteMetadata, DeleteLabel
  <1>1. ArrayEffect(w) /\ MountEffect(w) /\ faults' \in Nat
    BY ReadEffect, FaultsCounted, Zenon DEF DeleteMetadata
  <1>2. Goto(w, "delFS", my[w]) \/ ReturnError(w)
    BY Zenon DEF DeleteMetadata
  <1>3. "delFS" \in DeleteLabel
    BY Zenon DEF DeleteLabel
  <1> QED
    BY <1>0, <1>1, <1>2, <1>3, DeleteGoesOn, ErrorEffect, Zenon DEF Effect

\* ... and the filesystem.
LEMMA DeleteFileSystemStep ==
    ASSUME Inv, NEW w \in Worker, DeleteFileSystem(w)
    PROVE  Effect(w)
  <1>0. my[w].op = "delete" /\ pc[w] = "delFS" /\ pc[w] \in DeleteLabel
    BY Handlers, Zenon DEF DeleteFileSystem, DeleteLabel
  <1>1. MountEffect(w) /\ faults' \in Nat /\ my[w].obj \in Object
    BY <1>0, MountsUnchanged, FaultsCounted, DeleteFacts, Zenon DEF DeleteFileSystem
  <1>2. ArrayEffect(w)
    <2>1. UNCHANGED array \/ RemoveFileSystem(my[w].id)
      BY Zenon DEF DeleteFileSystem
    <2> QED
      BY <1>0, <2>1, ArrayUnchanged, RemoveFileSystemEffect, Zenon
  <1>3. Goto(w, "parent", my[w]) \/ ReturnError(w) \/ ReturnDeleted(w)
    BY Zenon DEF DeleteFileSystem
  <1>4. "parent" \in DeleteLabel
    BY Zenon DEF DeleteLabel
  <1> QED
    BY <1>0, <1>1, <1>2, <1>3, <1>4, DeleteGoesOn, ErrorEffect, DeletedEffect, Zenon DEF Effect

\* A parent is never deleted.
LEMMA DeleteParentFileSystemStep ==
    ASSUME Inv, NEW w \in Worker, DeleteParentFileSystem(w)
    PROVE  Effect(w)
  <1>0. my[w].op = "delete"
    BY Handlers, Zenon DEF DeleteParentFileSystem, DeleteLabel
  <1>1. ArrayEffect(w) /\ MountEffect(w) /\ faults' \in Nat /\ my[w].obj \in Object
    BY <1>0, ReadEffect, FaultsCounted, DeleteFacts, Zenon DEF DeleteParentFileSystem
  <1>2. ReturnError(w) \/ ReturnDeleted(w)
    BY Zenon DEF DeleteParentFileSystem
  <1> QED
    BY <1>0, <1>1, <1>2, ErrorEffect, DeletedEffect, Zenon DEF Effect

\* All steps of DeleteVolume and DeleteSnapshot.
LEMMA DeleteStepEffect ==
    ASSUME Inv, NEW w \in Worker, DeleteStep(w)
    PROVE  Effect(w)
  BY GetFileSystemByIDStep, GetFileSystemsByParentIDStep, GetExportsStep, DeleteExportStep,
     DeleteMetadataStep, DeleteFileSystemStep, DeleteParentFileSystemStep, Zenon DEF DeleteStep

-----------------------------------------------------------------------------
(* ControllerPublishVolume and ControllerUnpublishVolume. *)

\* What the handler knows of its request.
LEMMA AttachFacts ==
    ASSUME Inv, NEW w \in Worker, my[w].op = "attach"
    PROVE  /\ my[w] \in CallType /\ my[w].obj \in Volume /\ my[w].node \in Node
           /\ my[w].id = handle[my[w].obj] /\ my[w].old \in SUBSET Client
           /\ AttachCallInv(pc[w], my[w]) /\ ExportInv(my[w])
  <1>1. my[w] \in CallType
    BY Zenon DEF Inv, TypeOK, ProcessOK
  <1>2. AttachCallInv(pc[w], my[w]) /\ ExportInv(my[w])
    BY Zenon DEF Inv, CallInv
  <1> QED
    BY <1>1, <1>2, Zenon DEF CallType, AttachCallInv

\* The workers that a process takes with it end their calls, and change nothing.
LEMMA DieKeeps ==
    ASSUME Inv, NEW ws, Die(ws), faults' \in Nat
    PROVE  Inv'
  <1>1. UNCHANGED <<fss, name, parent, locked, export, rules, phase, handle, exportID, attach, pods, mounted>>
    BY Zenon DEF Die, array, k8s
  <1>u. /\ fss' = fss /\ name' = name /\ export' = export /\ phase' = phase /\ handle' = handle
        /\ attach' = attach /\ pods' = pods /\ mounted' = mounted
    BY <1>1, Zenon
  <1>2. \A u \in Worker : \/ pc'[u] = "idle" /\ my'[u] = NoCall
                          \/ pc'[u] = pc[u] /\ my'[u] = my[u]
    BY Zenon DEF Die
  <1>3. ProcessOK'
    <2>1. "idle" \in Label
      BY Zenon DEF Label
    <2> QED
      BY <2>1, NoCallFacts, Zenon DEF Die, ProcessOK, Inv, TypeOK
  <1>4. TypeOK'
    BY <1>1, <1>3, Zenon DEF Inv, TypeOK, ArrayOK, KubernetesOK
  <1>5. ArrayInv' /\ HandleInv' /\ AttachInv'
    BY <1>1, Zenon DEF Inv, ArrayInv, HandleInv, AttachInv
  <1>6. BoundServed' /\ MountedCovered'
    BY <1>1, Zenon DEF Inv, BoundServed, MountedCovered, MountedOn, Covered
  <1>7. Exclusive'
    <2>1. \A u \in Worker : my'[u] = my[u] \/ (my'[u].op = "none" /\ my'[u].obj = NoObject)
      BY <1>2, NoCallFacts, Zenon
    <2>2. "none" \notin NodeCall
      BY Zenon DEF NodeCall
    <2>3. \A u \in Worker : my'[u].obj # NoObject \/ my'[u].op \in NodeCall => my'[u] = my[u]
      BY <2>1, <2>2, Zenon
    <2>4. ASSUME NEW u \in Worker, NEW x \in Worker, u # x, my'[u].obj = my'[x].obj, my'[u].obj # NoObject
          PROVE  \/ my'[u].op = my'[x].op /\ my'[u].op \in Overlap
                 \/ my'[u].obj \in Shared /\ my'[u].node # my'[x].node
      <3>1. my'[u] = my[u] /\ my'[x] = my[x]
        BY <2>3, <2>4, Zenon
      <3> QED
        BY <2>4, <3>1, Zenon DEF Inv, Exclusive
    <2>5. ASSUME NEW u \in Worker, NEW x \in Worker, my'[u].op \in NodeCall, my'[x].op \in NodeCall,
                 my'[u].node = my'[x].node
          PROVE  u = x
      <3>1. my'[u] = my[u] /\ my'[x] = my[x]
        BY <2>3, <2>5, Zenon
      <3> QED
        BY <2>5, <3>1, Zenon DEF Inv, Exclusive
    <2> QED
      BY <2>4, <2>5, Zenon DEF Exclusive
  <1>8. ASSUME NEW u \in Worker
        PROVE  CallInv(pc[u], my[u])'
    <2>1. CASE pc'[u] = "idle" /\ my'[u] = NoCall
      BY <2>1, NoCallInvNext, Zenon DEF CallInv, Place, ExportInv, CreateInv, DeleteInv, AttachCallInv,
         DetachCallInv, PodCallInv
    <2>2. CASE pc'[u] = pc[u] /\ my'[u] = my[u]
      <3>1. CallInv(pc[u], my[u])
        BY Zenon DEF Inv
      <3> QED
        BY <1>u, <2>2, <3>1, Zenon DEF CallInv, Place, ExportInv, CreateInv, DeleteInv, AttachCallInv,
           DetachCallInv, PodCallInv
    <2> QED
      BY <1>2, <2>1, <2>2, Zenon
  <1> QED
    BY <1>4, <1>5, <1>6, <1>7, <1>8, Zenon DEF Inv

\* The export is read; if that fails, the process ends.
LEMMA GetExportByIDStep ==
    ASSUME Inv, NEW w \in Worker, GetExportByID(w)
    PROVE  Effect(w) \/ (Die(ControllerWorkers) /\ faults' \in Nat)
  <1> DEFINE v == my[w].obj
             e == exportID[v]
  <1>0. my[w].op = "attach"
    BY Handlers, Zenon DEF GetExportByID, AttachLabel
  <1>1. faults' \in Nat
    BY FaultsCounted, Zenon DEF GetExportByID
  <1>2. /\ my[w] \in CallType /\ v \in Volume /\ my[w].node \in Node /\ my[w].id = handle[v]
        /\ AttachCallInv(pc[w], my[w])
    BY <1>0, AttachFacts, Zenon
  <1>3. CASE UNCHANGED <<array, mounted, faults>> /\ ReturnAttach(w, "attached")
    BY <1>0, <1>1, <1>3, ReadEffect, AttachedEffect, Zenon DEF Effect
  <1>4. ASSUME NEW f \in Exported(e), UNCHANGED <<array, mounted, faults>>,
               Goto(w, "addNode", [my[w] EXCEPT !.exp = e, !.old = rules[f]])
        PROVE  Effect(w)
    <2> DEFINE m == [my[w] EXCEPT !.exp = e, !.old = rules[f]]
    <2>1. f \in FileSystemID /\ rules[f] \in SUBSET Client /\ e \in AnyExport /\ e # NoID
      BY <1>2, Zenon DEF Exported, Inv, TypeOK, ArrayOK, KubernetesOK
    <2>2. ArrayEffect(w) /\ MountEffect(w) /\ export' = export
      BY <1>4, ReadEffect, Zenon
    <2>3. /\ m \in CallType /\ m.op = "attach" /\ m.obj = v /\ m.node = my[w].node /\ m.id = my[w].id
          /\ m.exp = e
      BY <1>0, <1>2, <2>1, Zenon DEF CallType
    <2>4. \A g \in FileSystemID : export'[g] = e => g = my[w].id
      BY <1>2, <2>1, <2>2, Zenon DEF Inv, HandleInv
    <2>5. Goto(w, "addNode", m) /\ "addNode" \in Label
      BY <1>4, Zenon DEF Label, AttachLabel
    <2> HIDE DEF m
    <2>6. /\ KubernetesEffect(w) /\ ProcessOK' /\ Others(w) /\ pc'[w] = "addNode" /\ my'[w] = m
          /\ handle' = handle /\ attach' = attach
      BY <2>3, <2>5, GotoEffect
    <2>7. AttachCallInv(pc[w], my[w])'
      BY <1>0, <1>2, <2>3, <2>6, Zenon DEF AttachCallInv
    <2>8. ExportInv(my[w])' /\ Place(my[w].op, pc[w])'
      BY <2>3, <2>4, <2>6, Zenon DEF ExportInv, Place, AttachLabel
    <2>9. CallInv(pc[w], my[w])'
      BY <2>3, <2>6, <2>7, <2>8, Zenon DEF CallInv, CreateInv, DeleteInv, DetachCallInv, PodCallInv, NodeCall
    <2> QED
      BY <1>0, <1>1, <2>2, <2>3, <2>6, <2>9, Zenon DEF Effect, CallEffect
  <1>5. CASE Die(ControllerWorkers)
    BY <1>1, <1>5, Zenon
  <1> QED
    BY <1>3, <1>4, <1>5, Zenon DEF GetExportByID

\* The node is added to the list that was read.
LEMMA AddNodeInExportStep ==
    ASSUME Inv, NEW w \in Worker, AddNodeInExport(w)
    PROVE  Effect(w)
  <1>0. my[w].op = "attach"
    BY Handlers, Zenon DEF AddNodeInExport, AttachLabel
  <1>1. MountEffect(w) /\ faults' \in Nat
    BY MountsUnchanged, FaultsCounted, Zenon DEF AddNodeInExport
  <1>2. CallEffect(w) /\ KubernetesEffect(w)
    BY <1>0, ErrorEffect, AttachedEffect, Zenon DEF AddNodeInExport
  <1>3. ArrayEffect(w)
    <2>0. UNCHANGED <<fss, name, parent, locked, export>>
      BY Zenon DEF AddNodeInExport
    <2>1. CASE UNCHANGED rules
      BY <2>0, <2>1, ArrayUnchanged, Zenon DEF array
    <2>2. CASE Exported(my[w].exp) # {} /\ PutRules(w, my[w].old \cup {my[w].node})
      <3> DEFINE clients == my[w].old \cup {my[w].node}
      <3>1. clients \in SUBSET Client /\ ExportInv(my[w])
        BY <1>0, AttachFacts, Zenon DEF Client
      <3>2. PICK f \in Exported(my[w].exp) : TRUE
        BY <2>2, Zenon
      <3>3. my[w].exp # NoID /\ f \in FileSystemID /\ f = my[w].id /\ export[f] # NoID
        BY <3>1, <3>2, Zenon DEF Exported, ExportInv, Inv, TypeOK, ArrayOK
      <3>4. CoverEffect(w)
        BY <1>0, <2>0, <2>2, <3>2, <3>3, Zenon DEF CoverEffect, NextCovered, Own, PutRules
      <3> QED
        BY <2>0, <2>2, <3>1, <3>3, <3>4, PutRulesEffect, Zenon
    <2> QED
      BY <2>1, <2>2, Zenon DEF AddNodeInExport
  <1> QED
    BY <1>1, <1>2, <1>3, Zenon DEF Effect

\* Unpublishing changes nothing on the array.
LEMMA DeleteExportRuleStep ==
    ASSUME Inv, NEW w \in Worker, DeleteExportRule(w)
    PROVE  Effect(w)
  <1>0. my[w].op = "detach"
    BY Handlers, Zenon DEF DeleteExportRule
  <1>1. ArrayEffect(w) /\ MountEffect(w) /\ faults' \in Nat
    BY ReadEffect, FaultsCounted, Zenon DEF DeleteExportRule
  <1> QED
    BY <1>0, <1>1, ErrorEffect, AttachedEffect, Zenon DEF Effect, DeleteExportRule

-----------------------------------------------------------------------------
(* NodePublishVolume and NodeUnpublishVolume. *)

\* What the handler knows of its request.
LEMMA PodFacts ==
    ASSUME Inv, NEW w \in Worker, my[w].op \in NodeCall
    PROVE  /\ my[w] \in CallType /\ my[w].obj \in Volume /\ my[w].node \in Node
           /\ my[w].id = handle[my[w].obj] /\ my[w].id \in fss /\ my[w].id \in FileSystemID
           /\ my[w].pod \in Pod /\ Uses[my[w].pod] = <<my[w].obj, my[w].node>>
           /\ pods[my[w].pod] # "absent" /\ my[w].old \in SUBSET Client
           /\ phase[my[w].obj] = "bound" /\ name[my[w].id] = my[w].obj
           /\ PodCallInv(pc[w], my[w]) /\ ExportInv(my[w])
  <1>1. my[w] \in CallType
    BY Zenon DEF Inv, TypeOK, ProcessOK
  <1>2. PodCallInv(pc[w], my[w]) /\ ExportInv(my[w])
    BY Zenon DEF Inv, CallInv
  <1>3. /\ my[w].obj \in Volume /\ my[w].node \in Node /\ my[w].id = handle[my[w].obj]
        /\ my[w].pod \in Pod /\ Uses[my[w].pod] = <<my[w].obj, my[w].node>> /\ pods[my[w].pod] # "absent"
    BY <1>2, Zenon DEF PodCallInv
  <1>4. /\ phase[my[w].obj] = "bound" /\ handle[my[w].obj] \in fss
        /\ name[handle[my[w].obj]] = my[w].obj
    <2>1. my[w].obj \in Object /\ <<my[w].obj, my[w].node>> \in Attachment
      BY <1>3, Zenon DEF Object, Attachment
    <2>2. attach[<<my[w].obj, my[w].node>>] = "attached"
      BY <1>3, Zenon DEF Inv, AttachInv
    <2>3. phase[my[w].obj] = "bound"
      BY <2>1, <2>2, Zenon DEF Inv, AttachInv
    <2> QED
      BY <2>1, <2>3, Zenon DEF Inv, BoundServed, HandleInv
  <1> QED
    BY <1>1, <1>2, <1>3, <1>4, Zenon DEF CallType, Inv, TypeOK, ArrayOK

Dropping == {"dropExport", "dropRule"}

\* The handler goes on with its request.
LEMMA PodGoes ==
    ASSUME Inv, NEW w \in Worker, my[w].op \in NodeCall, ArrayEffect(w),
           NEW l \in Label, NEW m \in CallType, Goto(w, l, m),
           m.op = my[w].op, m.obj = my[w].obj, m.node = my[w].node, m.id = my[w].id, m.pod = my[w].pod,
           Place(m.op, l),
           l \in {"cleanup"} \cup Dropping => m.pod \notin mounted',
           l \in Dropping => \A p \in mounted' : Uses[p] # Uses[m.pod],
           m.exp # NoID => \A f \in FileSystemID : export'[f] = m.exp => f = m.id
    PROVE  CallEffect(w) /\ KubernetesEffect(w)
  <1>1. /\ KubernetesEffect(w) /\ ProcessOK' /\ Others(w) /\ pc'[w] = l /\ my'[w] = m
        /\ handle' = handle /\ pods' = pods
    <2>1. KubernetesEffect(w)
      BY GotoEffect, Zenon
    <2>2. ProcessOK' /\ Others(w)
      BY GotoEffect, Zenon
    <2>3. pc'[w] = l /\ my'[w] = m
      <3>1. w \in DOMAIN pc /\ w \in DOMAIN my
        BY Zenon DEF Inv, TypeOK, ProcessOK
      <3> QED
        BY <3>1, Zenon DEF Goto
    <2>4. handle' = handle /\ pods' = pods
      BY Zenon DEF Goto, k8s
    <2> QED
      BY <2>1, <2>2, <2>3, <2>4, Zenon
  <1>2. ExportInv(my[w])' /\ Place(my[w].op, pc[w])'
    BY <1>1, Zenon DEF ExportInv, Place
  <1>3. PodCallInv(pc[w], my[w])'
    BY <1>1, PodFacts, Zenon DEF PodCallInv, Dropping
  <1>4. CallInv(pc[w], my[w])'
    BY <1>1, <1>2, <1>3, Zenon DEF CallInv, CreateInv, DeleteInv, AttachCallInv, DetachCallInv, NodeCall
  <1> QED
    BY <1>1, <1>4, Zenon DEF CallEffect

\* It goes on with what it knew.
LEMMA PodGoesOn ==
    ASSUME Inv, NEW w \in Worker, my[w].op \in NodeCall, ArrayEffect(w),
           NEW l \in Label, Goto(w, l, my[w]), Place(my[w].op, l),
           l \notin Dropping, l = "cleanup" => my[w].pod \notin mounted'
    PROVE  CallEffect(w) /\ KubernetesEffect(w)
  <1> DEFINE m == my[w]
  <1>1. m \in CallType /\ ExportInv(m)
    BY PodFacts, Zenon
  <1>2. m.exp # NoID => \A f \in FileSystemID : export'[f] = m.exp => f = m.id
    BY <1>1, ExportsKept, Zenon DEF ExportInv
  <1> HIDE DEF m
  <1>3. m = my[w]
    BY Zenon DEF m
  <1> QED
    BY <1>1, <1>2, <1>3, PodGoes, Zenon

\* NodePublishVolume reads the filesystem ...
LEMMA GetExportPathStep ==
    ASSUME Inv, NEW w \in Worker, GetExportPath(w)
    PROVE  Effect(w)
  <1>0. my[w].op = "mount" /\ my[w].op \in NodeCall
    BY Handlers, Zenon DEF GetExportPath, MountLabel, NodeCall
  <1>1. ArrayEffect(w) /\ MountEffect(w) /\ faults' \in Nat
    BY ReadEffect, FaultsCounted, Zenon DEF GetExportPath
  <1>2. Goto(w, "rules", my[w]) \/ ReturnError(w)
    BY Zenon DEF GetExportPath
  <1>3. "rules" \in Label /\ Place(my[w].op, "rules") /\ "rules" \notin Dropping
    BY <1>0, Zenon DEF Label, Place, MountLabel, Dropping
  <1> QED
    BY <1>0, <1>1, <1>2, <1>3, PodGoesOn, ErrorEffect, Zenon DEF Effect

\* ... and the rules.
LEMMA UpdateExportStep ==
    ASSUME Inv, NEW w \in Worker, UpdateExport(w)
    PROVE  Effect(w)
  <1> DEFINE f == my[w].id
             e == export[f]
             old == rules[f]
             l == IF e = NoID THEN "newExport" ELSE IF my[w].node \in old THEN "mount" ELSE "addRule"
             m == [my[w] EXCEPT !.exp = e, !.old = old]
  <1>0. my[w].op = "mount" /\ my[w].op \in NodeCall
    BY Handlers, Zenon DEF UpdateExport, MountLabel, NodeCall
  <1>1. ArrayEffect(w) /\ MountEffect(w) /\ export' = export /\ faults' \in Nat
    BY ReadEffect, FaultsCounted, Zenon DEF UpdateExport
  <1>2. my[w] \in CallType /\ f \in FileSystemID /\ e \in AnyExport /\ old \in SUBSET Client
    BY <1>0, PodFacts, Zenon DEF Inv, TypeOK, ArrayOK
  <1>3. CASE Goto(w, l, m)
    <2>1. /\ m \in CallType /\ m.op = my[w].op /\ m.obj = my[w].obj /\ m.node = my[w].node
          /\ m.id = f /\ m.pod = my[w].pod /\ m.exp = e
      BY <1>2, Zenon DEF CallType
    <2>2. e # NoID => \A g \in FileSystemID : export'[g] = e => g = f
      BY <1>1, <1>2, Zenon DEF Inv, ArrayInv
    <2>3. l \in Label /\ Place(my[w].op, l) /\ l \notin {"cleanup"} \cup Dropping
      BY <1>0, Zenon DEF Label, Place, MountLabel, Dropping
    <2> HIDE DEF m, l
    <2> QED
      BY <1>0, <1>1, <1>3, <2>1, <2>2, <2>3, PodGoes, Zenon DEF Effect
  <1>4. CASE ReturnError(w)
    BY <1>1, <1>4, ErrorEffect, Zenon DEF Effect
  <1> QED
    BY <1>3, <1>4, Zenon DEF UpdateExport

\* The list that was read is put back with a change that suits the node.
LEMMA RulesPut ==
    ASSUME Inv, NEW w \in Worker, my[w].op \in NodeCall, NEW clients \in SUBSET Client,
           PutRules(w, clients), UNCHANGED <<fss, name, parent, export>>,
           \/ my[w].op = "mount" /\ my[w].node \in clients
           \/ my[w].op = "unmount" /\ \A p \in mounted : Uses[p] # Uses[my[w].pod]
    PROVE  ArrayEffect(w)
  <1>1. CASE Exported(my[w].exp) = {}
    <2>1. rules' = rules
      BY <1>1, Zenon DEF PutRules, Inv, TypeOK, ArrayOK
    <2> QED
      BY <2>1, PutRulesEffect, Zenon DEF CoverEffect
  <1>2. ASSUME NEW f \in Exported(my[w].exp)
        PROVE  ArrayEffect(w)
    <2>1. f \in FileSystemID /\ f = my[w].id /\ export[f] # NoID
      BY PodFacts, Zenon DEF Exported, ExportInv, Inv, TypeOK, ArrayOK
    <2>2. CoverEffect(w)
      BY <1>2, <2>1, Zenon DEF CoverEffect, NextCovered, Own, PutRules
    <2> QED
      BY <2>2, PutRulesEffect, Zenon
  <1> QED
    BY <1>1, <1>2, Zenon

\* The node is added to the rules, ...
LEMMA AddRuleStep ==
    ASSUME Inv, NEW w \in Worker, AddRule(w)
    PROVE  Effect(w)
  <1>0. my[w].op = "mount" /\ my[w].op \in NodeCall
    BY Handlers, Zenon DEF AddRule, MountLabel, NodeCall
  <1>1. MountEffect(w) /\ faults' \in Nat
    BY MountsUnchanged, FaultsCounted, Zenon DEF AddRule
  <1>2. ArrayEffect(w)
    <2>0. UNCHANGED <<fss, name, parent, locked, export>>
      BY Zenon DEF AddRule
    <2>1. CASE UNCHANGED rules
      BY <2>0, <2>1, ArrayUnchanged, Zenon DEF array
    <2>2. CASE PutRules(w, OldPlusNew(w))
      <3>1. OldPlusNew(w) \in SUBSET Client /\ my[w].node \in OldPlusNew(w)
        BY <1>0, PodFacts, Zenon DEF Client, OldPlusNew
      <3> QED
        BY <1>0, <2>0, <2>2, <3>1, RulesPut, Zenon
    <2> QED
      BY <2>1, <2>2, Zenon DEF AddRule
  <1>3. Goto(w, "mount", my[w]) \/ ReturnError(w)
    BY Zenon DEF AddRule
  <1>4. "mount" \in Label /\ Place(my[w].op, "mount") /\ "mount" \notin Dropping
    BY <1>0, Zenon DEF Label, Place, MountLabel, Dropping
  <1> QED
    BY <1>0, <1>1, <1>2, <1>3, <1>4, PodGoesOn, ErrorEffect, Zenon DEF Effect

\* ... or gets an export of its own, ...
LEMMA CreateExportStep ==
    ASSUME Inv, NEW w \in Worker, CreateExport(w)
    PROVE  Effect(w)
  <1>0. my[w].op = "mount" /\ my[w].op \in NodeCall
    BY Handlers, Zenon DEF CreateExport, MountLabel, NodeCall
  <1>1. MountEffect(w) /\ faults' \in Nat
    BY MountsUnchanged, FaultsCounted, Zenon DEF CreateExport
  <1>2. ArrayEffect(w)
    <2>1. CASE UNCHANGED array
      BY <2>1, ArrayUnchanged, Zenon
    <2>2. CASE FreshExportID # {} /\ SetExport(my[w].id, NewExportID, {my[w].node})
      <3> DEFINE e == NewExportID
      <3>1. e \in FreshExportID /\ e # NoID
        BY <2>2, NewIDs, NfsIDAssumption, Zenon DEF FreshExportID
      <3>2. SetExport(my[w].id, e, {my[w].node})
        BY <2>2, Zenon
      <3> HIDE DEF e
      <3>3. {my[w].node} \in SUBSET Client /\ my[w].id \in fss /\ my[w].id \in FileSystemID
        BY <1>0, PodFacts, Zenon DEF Client
      <3>4. CoverEffect(w)
        BY <1>0, <3>1, <3>2, <3>3, Zenon DEF CoverEffect, NextCovered, Own, SetExport, Inv, TypeOK, ArrayOK
      <3> QED
        BY <3>1, <3>2, <3>3, <3>4, SetExportEffect, Zenon
    <2> QED
      BY <2>1, <2>2, Zenon DEF CreateExport
  <1>3. Goto(w, "mount", my[w]) \/ ReturnError(w)
    BY Zenon DEF CreateExport
  <1>4. "mount" \in Label /\ Place(my[w].op, "mount") /\ "mount" \notin Dropping
    BY <1>0, Zenon DEF Label, Place, MountLabel, Dropping
  <1> QED
    BY <1>0, <1>1, <1>2, <1>3, <1>4, PodGoesOn, ErrorEffect, Zenon DEF Effect

\* ... before the mount.
LEMMA MountStep ==
    ASSUME Inv, NEW w \in Worker, Mount(w)
    PROVE  Effect(w)
  <1>0. my[w].op = "mount" /\ my[w].op \in NodeCall
    BY Handlers, Zenon DEF Mount, MountLabel, NodeCall
  <1>1. ArrayEffect(w) /\ faults' \in Nat /\ export' = export /\ rules' = rules
    BY ArrayUnchanged, FaultsCounted, Zenon DEF Mount, array
  <1>2. \/ UNCHANGED mounted
        \/ mounted' = mounted \cup {my[w].pod} /\ Covered(my[w].id, my[w].node)
    BY Zenon DEF Mount
  <1>3. MountEffect(w)
    BY <1>0, <1>1, <1>2, PodFacts, Zenon DEF MountEffect, Covered, NextCovered, Own, Inv, TypeOK
  <1>4. ReturnPod(w, "running") \/ ReturnError(w)
    BY Zenon DEF Mount
  <1> QED
    BY <1>0, <1>1, <1>3, <1>4, PodStepEffect, ErrorEffect, Zenon DEF Effect

\* NodeUnpublishVolume unmounts ...
LEMMA UnmountStep ==
    ASSUME Inv, NEW w \in Worker, Unmount(w)
    PROVE  Effect(w)
  <1>0. my[w].op = "unmount" /\ my[w].op \in NodeCall
    BY Handlers, Zenon DEF Unmount, UnmountLabel, NodeCall
  <1>1. ArrayEffect(w) /\ faults' \in Nat
    BY ArrayUnchanged, FaultsCounted, Zenon DEF Unmount
  <1>2. mounted' = mounted \/ mounted' = mounted \ {my[w].pod}
    BY Zenon DEF Unmount
  <1>3. MountEffect(w)
    BY <1>2, Zenon DEF MountEffect, Inv, TypeOK
  <1>4. \/ ReturnError(w)
        \/ /\ my[w].pod \notin mounted'
           /\ Goto(w, "cleanup", my[w]) \/ ReturnPod(w, "absent")
    BY Zenon DEF Unmount, Done, Ok
  <1>5. "cleanup" \in Label /\ Place(my[w].op, "cleanup") /\ "cleanup" \notin Dropping
    BY <1>0, Zenon DEF Label, Place, UnmountLabel, Dropping
  <1> QED
    BY <1>0, <1>1, <1>3, <1>4, <1>5, PodGoesOn, PodStepEffect, ErrorEffect, Zenon DEF Effect

\* ... and looks whether the rule is still needed.
LEMMA cleanupNFSPermsStep ==
    ASSUME Inv, NEW w \in Worker, cleanupNFSPerms(w)
    PROVE  Effect(w)
  <1> DEFINE f == my[w].id
             l == IF rules[f] = {my[w].node} THEN "dropExport" ELSE "dropRule"
             m == [my[w] EXCEPT !.exp = export[f], !.old = rules[f]]
  <1>0. my[w].op = "unmount" /\ my[w].op \in NodeCall /\ pc[w] = "cleanup"
    BY Handlers, Zenon DEF cleanupNFSPerms, UnmountLabel, NodeCall
  <1>1. ArrayEffect(w) /\ MountEffect(w) /\ export' = export /\ mounted' = mounted /\ faults' \in Nat
    BY ReadEffect, FaultsCounted, Zenon DEF cleanupNFSPerms
  <1>2. /\ my[w] \in CallType /\ f \in FileSystemID /\ export[f] \in AnyExport /\ rules[f] \in SUBSET Client
        /\ PodCallInv(pc[w], my[w]) /\ Uses[my[w].pod] = <<my[w].obj, my[w].node>>
    BY <1>0, PodFacts, Zenon DEF Inv, TypeOK, ArrayOK
  <1>3. my[w].pod \notin mounted'
    BY <1>0, <1>1, <1>2, Zenon DEF PodCallInv
  <1>4. CASE Unused(w) /\ Goto(w, l, m)
    <2>1. /\ m \in CallType /\ m.op = my[w].op /\ m.obj = my[w].obj /\ m.node = my[w].node
          /\ m.id = f /\ m.pod = my[w].pod /\ m.exp = export[f]
      BY <1>2, Zenon DEF CallType
    <2>2. export[f] # NoID => \A g \in FileSystemID : export'[g] = export[f] => g = f
      BY <1>1, <1>2, Zenon DEF Inv, ArrayInv
    <2>3. l \in Label /\ Place(my[w].op, l)
      BY <1>0, Zenon DEF Label, Place, UnmountLabel
    <2>4. \A p \in mounted' : Uses[p] # Uses[my[w].pod]
      BY <1>1, <1>2, <1>4, Zenon DEF Unused
    <2>5. Goto(w, l, m)
      BY <1>4, Zenon
    <2> HIDE DEF m, l
    <2> QED
      BY <1>0, <1>1, <1>3, <2>1, <2>2, <2>3, <2>4, <2>5, PodGoes, Zenon DEF Effect
  <1>5. CASE ReturnPod(w, "absent")
    BY <1>0, <1>1, <1>3, <1>5, PodStepEffect, Zenon DEF Effect
  <1> QED
    BY <1>4, <1>5, Zenon DEF cleanupNFSPerms

\* What the handler knows when it takes the rule away.
LEMMA DropFacts ==
    ASSUME Inv, NEW w \in Worker, pc[w] \in Dropping
    PROVE  /\ my[w].op = "unmount" /\ my[w].op \in NodeCall
           /\ my[w].pod \notin mounted /\ \A p \in mounted : Uses[p] # Uses[my[w].pod]
  <1>1. my[w].op = "unmount" /\ my[w].op \in NodeCall
    BY Handlers, Zenon DEF Dropping, UnmountLabel, NodeCall
  <1> QED
    BY <1>1, PodFacts, Zenon DEF PodCallInv, Dropping

\* It deletes the export ...
LEMMA DropExportStep ==
    ASSUME Inv, NEW w \in Worker, DropExport(w)
    PROVE  Effect(w)
  <1>0. /\ my[w].op = "unmount" /\ my[w].op \in NodeCall
        /\ my[w].pod \notin mounted /\ \A p \in mounted : Uses[p] # Uses[my[w].pod]
    BY DropFacts, Zenon DEF DropExport, Dropping
  <1>1. MountEffect(w) /\ faults' \in Nat /\ mounted' = mounted
    BY MountsUnchanged, FaultsCounted, Zenon DEF DropExport
  <1>2. ArrayEffect(w)
    <2>1. CASE UNCHANGED array
      BY <2>1, ArrayUnchanged, Zenon
    <2>2. CASE SetExport(my[w].id, NoID, {})
      <3>1. CoverEffect(w) /\ {} \in SUBSET Client
        BY <1>0, Zenon DEF CoverEffect
      <3> QED
        BY <2>2, <3>1, SetExportEffect, Zenon
    <2> QED
      BY <2>1, <2>2, Zenon DEF DropExport
  <1>3. ReturnPod(w, "absent")
    BY Zenon DEF DropExport
  <1> QED
    BY <1>0, <1>1, <1>2, <1>3, PodStepEffect, Zenon DEF Effect

\* ... or the rule.
LEMMA DropRuleStep ==
    ASSUME Inv, NEW w \in Worker, DropRule(w)
    PROVE  Effect(w)
  <1>0. /\ my[w].op = "unmount" /\ my[w].op \in NodeCall
        /\ my[w].pod \notin mounted /\ \A p \in mounted : Uses[p] # Uses[my[w].pod]
    BY DropFacts, Zenon DEF DropRule, Dropping
  <1>1. MountEffect(w) /\ faults' \in Nat /\ mounted' = mounted
    BY MountsUnchanged, FaultsCounted, Zenon DEF DropRule
  <1>2. ArrayEffect(w)
    <2>0. UNCHANGED <<fss, name, parent, locked, export>>
      BY Zenon DEF DropRule
    <2>1. CASE UNCHANGED rules
      BY <2>0, <2>1, ArrayUnchanged, Zenon DEF array
    <2>2. CASE PutRules(w, my[w].old \ {my[w].node})
      <3>1. my[w].old \ {my[w].node} \in SUBSET Client
        BY <1>0, PodFacts, Zenon
      <3> QED
        BY <1>0, <2>0, <2>2, <3>1, RulesPut, Zenon
    <2> QED
      BY <2>1, <2>2, Zenon DEF DropRule
  <1>3. ReturnPod(w, "absent")
    BY Zenon DEF DropRule
  <1> QED
    BY <1>0, <1>1, <1>2, <1>3, PodStepEffect, Zenon DEF Effect

\* All steps of a worker keep the invariant.
LEMMA StepKeeps ==
    ASSUME Inv, "create" \notin Overlap, NEW w \in Worker, Step(w)
    PROVE  Inv'
  <1>1. ASSUME PublishStep(w)
        PROVE  Effect(w) \/ (Die(ControllerWorkers) /\ faults' \in Nat)
    BY <1>1, GetExportByIDStep, AddNodeInExportStep, DeleteExportRuleStep, Zenon DEF PublishStep
  <1>2. ASSUME NodeStep(w)
        PROVE  Effect(w)
    BY <1>2, GetExportPathStep, UpdateExportStep, AddRuleStep, CreateExportStep, MountStep, UnmountStep,
       cleanupNFSPermsStep, DropExportStep, DropRuleStep, Zenon DEF NodeStep
  <1> QED
    BY <1>1, <1>2, CreateStepEffect, DeleteStepEffect, EffectKeeps, DieKeeps, Zenon DEF Step

-----------------------------------------------------------------------------
(* Kubernetes starts calls. *)

\* The record of a new call.
LEMMA CallFacts ==
    ASSUME NEW op \in Op, NEW o \in Object \cup {NoObject}, NEW n \in Node \cup {NoNode},
           NEW p \in Pod \cup {NoPod}, NEW f \in ID
    PROVE  /\ Call(op, o, n, p, f) \in CallType
           /\ Call(op, o, n, p, f).op = op /\ Call(op, o, n, p, f).obj = o /\ Call(op, o, n, p, f).node = n
           /\ Call(op, o, n, p, f).pod = p /\ Call(op, o, n, p, f).id = f /\ Call(op, o, n, p, f).exp = NoID
  BY Zenon DEF Call, CallType, ID, AnyExport

\* A worker that starts a call excludes what it has to.
LEMMA StartExclusive ==
    ASSUME Inv, NEW w \in Worker, Others(w), NEW op, NEW o, NEW n,
           my'[w].op = op, my'[w].obj = o, my'[w].node = n, Free(op, o, n),
           op \in NodeCall => MutexFree(n)
    PROVE  Exclusive'
  <1>1. \A u \in Worker : u # w => my'[u] = my[u]
    BY Zenon DEF Others
  <1>2. ASSUME NEW u \in Worker, NEW x \in Worker, u # x, my'[u].obj = my'[x].obj, my'[u].obj # NoObject
        PROVE  \/ my'[u].op = my'[x].op /\ my'[u].op \in Overlap
               \/ my'[u].obj \in Shared /\ my'[u].node # my'[x].node
    <2>1. CASE u = w
      BY <1>1, <1>2, <2>1, Zenon DEF Free
    <2>2. CASE x = w
      BY <1>1, <1>2, <2>2, Zenon DEF Free
    <2>3. CASE u # w /\ x # w
      BY <1>1, <1>2, <2>3, Zenon DEF Inv, Exclusive
    <2> QED
      BY <2>1, <2>2, <2>3, Zenon
  <1>3. ASSUME NEW u \in Worker, NEW x \in Worker, my'[u].op \in NodeCall, my'[x].op \in NodeCall,
               my'[u].node = my'[x].node
        PROVE  u = x
    BY <1>1, <1>3, Zenon DEF Inv, Exclusive, MutexFree
  <1> QED
    BY <1>2, <1>3, Zenon DEF Exclusive

\* A worker takes a request; nothing but the state of its object in Kubernetes
\* changes.
LEMMA StartKeeps ==
    ASSUME Inv, NEW w \in Worker, NEW l \in Label, NEW op \in Op, NEW o \in Object,
           NEW n \in Node \cup {NoNode}, NEW p \in Pod \cup {NoPod}, NEW f \in ID,
           pc' = [pc EXCEPT ![w] = l], my' = [my EXCEPT ![w] = Call(op, o, n, p, f)],
           UNCHANGED <<array, handle, exportID, mounted, faults>>,
           KubernetesOK', HandleInv', AttachInv', BoundServed',
           Free(op, o, n), op \in NodeCall => MutexFree(n), Place(op, l),
           \A u \in Worker : /\ CreateInv(pc[u], my[u])' /\ DeleteInv(pc[u], my[u])'
                             /\ AttachCallInv(pc[u], my[u])' /\ DetachCallInv(pc[u], my[u])'
                             /\ PodCallInv(pc[u], my[u])'
    PROVE  Inv'
  <1> DEFINE m == Call(op, o, n, p, f)
  <1>1. m \in CallType /\ m.op = op /\ m.obj = o /\ m.node = n /\ m.exp = NoID
    <2>1. o \in Object \cup {NoObject}
      BY Zenon
    <2>2. m \in CallType
      BY <2>1, CallFacts, Zenon
    <2> QED
      BY <2>2, Zenon DEF Call
  <1>2. my' = [my EXCEPT ![w] = m]
    BY Zenon
  <1> HIDE DEF m
  <1>3. ProcessOK' /\ Others(w) /\ pc'[w] = l /\ my'[w] = m
    BY <1>1, <1>2, Zenon DEF ProcessOK, Others, Inv, TypeOK
  <1>4. UNCHANGED <<fss, name, parent, export, rules>>
    BY Zenon DEF array
  <1>5. TypeOK' /\ ArrayInv'
    BY <1>3, <1>4, Zenon DEF Inv, TypeOK, ArrayOK, ArrayInv
  <1>6. MountedCovered'
    BY <1>4, Zenon DEF Inv, MountedCovered, MountedOn, Covered
  <1>7. Exclusive'
    BY <1>1, <1>3, StartExclusive, Zenon
  <1>8. ASSUME NEW u \in Worker
        PROVE  CallInv(pc[u], my[u])'
    <2>1. Place(my[u].op, pc[u])' /\ ExportInv(my[u])'
      <3>1. CASE u = w
        BY <1>1, <1>3, <3>1, Zenon DEF Place, ExportInv
      <3>2. CASE u # w
        <4>1. Place(my[u].op, pc[u]) /\ ExportInv(my[u])
          BY Zenon DEF Inv, CallInv
        <4> QED
          BY <1>3, <1>4, <3>2, <4>1, Zenon DEF Others, Place, ExportInv
      <3> QED
        BY <3>1, <3>2, Zenon
    <2> QED
      BY <2>1, Zenon DEF CallInv
  <1> QED
    BY <1>5, <1>6, <1>7, <1>8, Zenon DEF Inv

Kept(u) ==
    /\ pc'[u] = pc[u] /\ my'[u] = my[u]
    /\ CreateInv(pc[u], my[u]) /\ DeleteInv(pc[u], my[u]) /\ AttachCallInv(pc[u], my[u])
    /\ DetachCallInv(pc[u], my[u]) /\ PodCallInv(pc[u], my[u])

\* The workers that go on with what they were doing, and the one that starts.
LEMMA Started ==
    ASSUME Inv, NEW w \in Worker, NEW l, NEW m, pc' = [pc EXCEPT ![w] = l], my' = [my EXCEPT ![w] = m]
    PROVE  pc'[w] = l /\ my'[w] = m /\ \A u \in Worker : u # w => Kept(u)
  <1>1. pc'[w] = l /\ my'[w] = m
    BY Zenon DEF Inv, TypeOK, ProcessOK
  <1>2. \A u \in Worker : u # w => pc'[u] = pc[u] /\ my'[u] = my[u]
    BY Zenon DEF Inv, TypeOK, ProcessOK
  <1>3. \A u \in Worker : /\ CreateInv(pc[u], my[u]) /\ DeleteInv(pc[u], my[u]) /\ AttachCallInv(pc[u], my[u])
                          /\ DetachCallInv(pc[u], my[u]) /\ PodCallInv(pc[u], my[u])
    BY Zenon DEF Inv, CallInv
  <1> QED
    BY <1>1, <1>2, <1>3, Zenon DEF Kept

\* A step of another call leaves what a CreateVolume call relies on.
LEMMA StillCreates ==
    ASSUME NEW u, Kept(u), fss' = fss, name' = name,
           my[u].op = "create" => phase'[my[u].obj] = phase[my[u].obj]
    PROVE  CreateInv(pc[u], my[u])'
  BY Zenon DEF Kept, CreateInv

\* A step of another call leaves what a DeleteVolume call relies on.
LEMMA StillDeletes ==
    ASSUME NEW u, Kept(u), handle' = handle,
           my[u].op = "delete" => phase'[my[u].obj] \in {phase[my[u].obj], "deleting"}
    PROVE  DeleteInv(pc[u], my[u])'
  BY Zenon DEF Kept, DeleteInv

\* A ControllerPublishVolume call keeps its facts while its attachment is left as
\* it was or is tried again.
LEMMA StillAttaches ==
    ASSUME NEW u, Kept(u), handle' = handle,
           my[u].op = "attach" => attach'[<<my[u].obj, my[u].node>>] \in {attach[<<my[u].obj, my[u].node>>], "attaching"}
    PROVE  AttachCallInv(pc[u], my[u])'
  BY Zenon DEF Kept, AttachCallInv

\* A ControllerUnpublishVolume call keeps its facts while the pods of its
\* attachment are left as they were.
LEMMA StillDetaches ==
    ASSUME NEW u, Kept(u),
           my[u].op = "detach" => \A p \in Pod : Uses[p] = <<my[u].obj, my[u].node>> => pods'[p] = pods[p]
    PROVE  DetachCallInv(pc[u], my[u])'
  BY Zenon DEF Kept, DetachCallInv

\* A NodePublishVolume or NodeUnpublishVolume call keeps its facts while mounts are
\* left as they were and no pod goes.
LEMMA StillServes ==
    ASSUME NEW u, Kept(u), handle' = handle, mounted' = mounted,
           \A p \in Pod : pods[p] # "absent" => pods'[p] # "absent"
    PROVE  PodCallInv(pc[u], my[u])'
  BY Zenon DEF Kept, PodCallInv

\* CreateVolume and CreateSnapshot.
LEMMA StartCreateKeeps ==
    ASSUME Inv, NEW w \in Worker, NEW o \in Object, StartCreate(w, o)
    PROVE  Inv'
  <1>1. /\ pc' = [pc EXCEPT ![w] = "byName"]
        /\ my' = [my EXCEPT ![w] = Call("create", o, NoNode, NoPod, NoID)]
        /\ UNCHANGED <<phase, handle, exportID, attach, pods, array, mounted, faults>>
        /\ phase[o] = "unbound" /\ Free("create", o, NoNode)
    BY Zenon DEF StartCreate, Goto, k8s
  <1>2. UNCHANGED <<fss, name, export, rules>>
    BY <1>1, Zenon DEF array
  <1>3. /\ "byName" \in Label /\ "create" \in Op /\ NoID \in ID /\ "create" \notin NodeCall
        /\ Place("create", "byName") /\ "byName" \notin FileSystemKnown /\ "byName" # "exports"
    BY Zenon DEF Label, CreateLabel, Op, ID, NodeCall, Place, FileSystemKnown
  <1>u. /\ phase' = phase /\ handle' = handle /\ exportID' = exportID /\ attach' = attach /\ pods' = pods
        /\ mounted' = mounted /\ fss' = fss /\ name' = name /\ export' = export
    BY <1>1, <1>2, Zenon
  <1>4. KubernetesOK' /\ HandleInv' /\ AttachInv' /\ BoundServed'
    <2>1. KubernetesOK' /\ HandleInv'
      BY <1>u, Zenon DEF Inv, TypeOK, KubernetesOK, HandleInv
    <2>2. AttachInv' /\ BoundServed'
      BY <1>u, Zenon DEF Inv, AttachInv, BoundServed
    <2> QED
      BY <2>1, <2>2, Zenon
  <1>s. /\ pc'[w] = "byName" /\ my'[w] = Call("create", o, NoNode, NoPod, NoID)
        /\ \A u \in Worker : u # w => Kept(u)
    BY <1>1, Started, Zenon
  <1>5. ASSUME NEW u \in Worker
        PROVE  /\ CreateInv(pc[u], my[u])' /\ DeleteInv(pc[u], my[u])'
               /\ AttachCallInv(pc[u], my[u])' /\ DetachCallInv(pc[u], my[u])' /\ PodCallInv(pc[u], my[u])'
    <2>1. CASE u = w
      <3>1. my'[u].op = "create" /\ my'[u].obj = o /\ my'[u].node = NoNode /\ my'[u].id = NoID /\ my'[u].exp = NoID
        <4>1. my'[u] = Call("create", o, NoNode, NoPod, NoID)
          BY <1>s, <2>1, Zenon
        <4>2. /\ Call("create", o, NoNode, NoPod, NoID).op = "create"
              /\ Call("create", o, NoNode, NoPod, NoID).obj = o
              /\ Call("create", o, NoNode, NoPod, NoID).node = NoNode
              /\ Call("create", o, NoNode, NoPod, NoID).id = NoID
              /\ Call("create", o, NoNode, NoPod, NoID).exp = NoID
          BY Zenon DEF Call
        <4> QED
          BY <4>1, <4>2, Zenon
      <3>2. NoID \notin fss'
        BY <1>u, NfsIDAssumption, Zenon DEF Inv, TypeOK, ArrayOK
      <3>3. CreateInv(pc[u], my[u])'
        BY <1>1, <1>3, <1>s, <1>u, <2>1, <3>1, <3>2, Zenon DEF CreateInv
      <3> QED
        BY <3>1, <3>3, Zenon DEF DeleteInv, AttachCallInv, DetachCallInv, PodCallInv, NodeCall
    <2>2. CASE u # w
      <3>1. Kept(u)
        BY <1>s, <2>2, Zenon
      <3> QED
        BY <1>u, <3>1, StillCreates, StillDeletes, StillAttaches, StillDetaches, StillServes, Zenon
    <2> QED
      BY <2>1, <2>2, Zenon
  <1> QED
    BY <1>1, <1>3, <1>4, <1>5, StartKeeps, Zenon

\* DeleteVolume and DeleteSnapshot.
LEMMA StartDeleteKeeps ==
    ASSUME Inv, NEW w \in Worker, NEW o \in Object, StartDelete(w, o)
    PROVE  Inv'
  <1>1. /\ pc' = [pc EXCEPT ![w] = "get"]
        /\ my' = [my EXCEPT ![w] = Call("delete", o, NoNode, NoPod, handle[o])]
        /\ phase' = [phase EXCEPT ![o] = "deleting"]
        /\ UNCHANGED <<handle, exportID, attach, pods, array, mounted, faults>>
        /\ phase[o] \in {"bound", "deleting"} /\ Free("delete", o, NoNode)
        /\ \A a \in Attachment : a[1] = o => attach[a] = "detached"
    BY Zenon DEF StartDelete
  <1>2. UNCHANGED <<fss, name, export, rules>>
    BY <1>1, Zenon DEF array
  <1>3. /\ "get" \in Label /\ "delete" \in Op /\ handle[o] \in ID /\ "delete" \notin NodeCall
        /\ Place("delete", "get")
    BY Zenon DEF Label, DeleteLabel, Op, NodeCall, Place, Inv, TypeOK, KubernetesOK
  <1>4. \A x \in Object : phase'[x] = IF x = o THEN "deleting" ELSE phase[x]
    BY <1>1, Zenon DEF Inv, TypeOK, KubernetesOK
  <1>5. KubernetesOK'
    BY <1>1, Zenon DEF Inv, TypeOK, KubernetesOK
  <1>u. /\ handle' = handle /\ exportID' = exportID /\ attach' = attach /\ pods' = pods
        /\ mounted' = mounted /\ fss' = fss /\ name' = name /\ export' = export
    BY <1>1, <1>2, Zenon
  <1>v. \A x \in Object : phase'[x] \in {"unbound", "bound"} => phase[x] = phase'[x]
    BY <1>4, Zenon
  <1>6. HandleInv' /\ BoundServed'
    <2>1. HandleInv'
      BY <1>u, <1>v, Zenon DEF Inv, HandleInv
    <2>2. BoundServed'
      BY <1>u, <1>v, Zenon DEF Inv, BoundServed, Object
    <2> QED
      BY <2>1, <2>2, Zenon
  <1>7. AttachInv'
    <2>1. \A a \in Attachment : a[1] \in Object
      BY Zenon DEF Attachment, Object
    <2>2. \A a \in Attachment : attach'[a] # "detached" => phase'[a[1]] = "bound"
      <3>1. \A a \in Attachment : attach[a] # "detached" => phase[a[1]] = "bound"
        BY Zenon DEF Inv, AttachInv
      <3> QED
        BY <1>1, <1>4, <1>u, <2>1, <3>1, Zenon
    <2> QED
      BY <1>u, <2>2, Zenon DEF Inv, AttachInv
  <1>s. /\ pc'[w] = "get" /\ my'[w] = Call("delete", o, NoNode, NoPod, handle[o])
        /\ \A u \in Worker : u # w => Kept(u)
    BY <1>1, Started, Zenon
  <1>8. ASSUME NEW u \in Worker
        PROVE  /\ CreateInv(pc[u], my[u])' /\ DeleteInv(pc[u], my[u])'
               /\ AttachCallInv(pc[u], my[u])' /\ DetachCallInv(pc[u], my[u])' /\ PodCallInv(pc[u], my[u])'
    <2>1. CASE u = w
      <3>1. my'[u].op = "delete" /\ my'[u].obj = o /\ my'[u].id = handle[o] /\ pc'[u] = "get"
        <4>1. my'[u] = Call("delete", o, NoNode, NoPod, handle[o]) /\ pc'[u] = "get"
          BY <1>s, <2>1, Zenon
        <4>2. /\ Call("delete", o, NoNode, NoPod, handle[o]).op = "delete"
              /\ Call("delete", o, NoNode, NoPod, handle[o]).obj = o
              /\ Call("delete", o, NoNode, NoPod, handle[o]).id = handle[o]
          BY Zenon DEF Call
        <4> QED
          BY <4>1, <4>2, Zenon
      <3>2. phase'[o] = "deleting"
        BY <1>4, Zenon
      <3>3. DeleteInv(pc[u], my[u])'
        BY <1>u, <3>1, <3>2, Zenon DEF DeleteInv
      <3> QED
        BY <3>1, <3>3, Zenon DEF CreateInv, AttachCallInv, DetachCallInv, PodCallInv, NodeCall
    <2>2. CASE u # w
      <3>1. Kept(u)
        BY <1>s, <2>2, Zenon
      <3>2. my[u].op = "create" => phase'[my[u].obj] = phase[my[u].obj]
        BY <1>1, <1>4, <3>1, Zenon DEF Kept, CreateInv
      <3>3. my[u].op = "delete" => phase'[my[u].obj] \in {phase[my[u].obj], "deleting"}
        BY <1>4, <3>1, Zenon DEF Kept, DeleteInv
      <3> QED
        BY <1>u, <3>1, <3>2, <3>3, StillCreates, StillDeletes, StillAttaches, StillDetaches, StillServes, Zenon
    <2> QED
      BY <2>1, <2>2, Zenon
  <1> QED
    BY <1>1, <1>3, <1>5, <1>6, <1>7, <1>8, StartKeeps, Zenon

\* ControllerPublishVolume.
LEMMA StartAttachKeeps ==
    ASSUME Inv, NEW w \in Worker, NEW v \in Volume, NEW n \in Node, StartAttach(w, v, n)
    PROVE  Inv'
  <1>1. /\ pc' = [pc EXCEPT ![w] = "publish"]
        /\ my' = [my EXCEPT ![w] = Call("attach", v, n, NoPod, handle[v])]
        /\ attach' = [attach EXCEPT ![<<v, n>>] = "attaching"]
        /\ UNCHANGED <<phase, handle, exportID, pods, array, mounted, faults>>
        /\ phase[v] = "bound" /\ Free("attach", v, n) /\ attach[<<v, n>>] \in {"detached", "attaching"}
        /\ v \in Shared \/ \A m \in Node \ {n} : attach[<<v, m>>] = "detached"
    BY Zenon DEF StartAttach
  <1>2. UNCHANGED <<fss, name, export, rules>> /\ v \in Object /\ <<v, n>> \in Attachment
    BY <1>1, Zenon DEF array, Object, Attachment
  <1>3. /\ "publish" \in Label /\ "attach" \in Op /\ handle[v] \in ID /\ "attach" \notin NodeCall
        /\ Place("attach", "publish")
    BY <1>2, Zenon DEF Label, AttachLabel, Op, NodeCall, Place, Inv, TypeOK, KubernetesOK
  <1>4. \A a \in Attachment : attach'[a] = IF a = <<v, n>> THEN "attaching" ELSE attach[a]
    BY <1>1, Zenon DEF Inv, TypeOK, KubernetesOK
  <1>5. KubernetesOK' /\ HandleInv' /\ BoundServed'
    BY <1>1, <1>2, Zenon DEF Inv, TypeOK, KubernetesOK, HandleInv, BoundServed
  <1>u. /\ phase' = phase /\ handle' = handle /\ exportID' = exportID /\ pods' = pods
        /\ mounted' = mounted /\ fss' = fss /\ name' = name /\ export' = export
    BY <1>1, <1>2, Zenon
  <1>6. AttachInv'
    <2>1. \A a \in Attachment : attach'[a] # "detached" => phase'[a[1]] = "bound"
      <3>1. \A a \in Attachment : attach[a] # "detached" => phase[a[1]] = "bound"
        BY Zenon DEF Inv, AttachInv
      <3>2. \A a \in Attachment : a = <<v, n>> => phase[a[1]] = "bound"
        <4>1. <<v, n>>[1] = v
          BY Zenon
        <4> QED
          BY <1>1, <4>1, Zenon
      <3> QED
        BY <1>4, <1>u, <3>1, <3>2, Zenon
    <2>2. \A p \in Pod : pods'[p] # "absent" => attach'[Uses[p]] = "attached"
      <3>1. \A p \in Pod : pods[p] # "absent" => attach[Uses[p]] = "attached"
        BY Zenon DEF Inv, AttachInv
      <3> QED
        BY <1>1, <1>4, <1>u, <3>1, PodAssumption, Zenon
    <2>3. \A x \in Volume, k, m \in Node :
              attach'[<<x, k>>] # "detached" /\ attach'[<<x, m>>] # "detached" /\ x \notin Shared => k = m
      <3>1. \A x \in Volume, k \in Node : <<x, k>> \in Attachment
        BY Zenon DEF Attachment
      <3>2. \A x \in Volume, k \in Node :
                attach'[<<x, k>>] # "detached" => attach[<<x, k>>] # "detached" \/ (x = v /\ k = n)
        <4>1. \A x \in Volume, k \in Node : <<x, k>> = <<v, n>> => x = v /\ k = n
          BY SamePair, Zenon
        <4> QED
          BY <1>4, <3>1, <4>1, Zenon
      <3>3. \A x \in Volume, k, m \in Node :
                attach[<<x, k>>] # "detached" /\ attach[<<x, m>>] # "detached" /\ x \notin Shared => k = m
        BY Zenon DEF Inv, AttachInv
      <3>4. \A m \in Node : attach[<<v, m>>] # "detached" /\ v \notin Shared => m = n
        BY <1>1, Zenon
      <3> QED
        BY <3>2, <3>3, <3>4, Zenon
    <2> QED
      BY <1>1, <2>1, <2>2, <2>3, Zenon DEF Inv, AttachInv
  <1>s. /\ pc'[w] = "publish" /\ my'[w] = Call("attach", v, n, NoPod, handle[v])
        /\ \A u \in Worker : u # w => Kept(u)
    BY <1>1, Started, Zenon
  <1>8. ASSUME NEW u \in Worker
        PROVE  /\ CreateInv(pc[u], my[u])' /\ DeleteInv(pc[u], my[u])'
               /\ AttachCallInv(pc[u], my[u])' /\ DetachCallInv(pc[u], my[u])' /\ PodCallInv(pc[u], my[u])'
    <2>1. CASE u = w
      <3>1. my'[u].op = "attach" /\ my'[u].obj = v /\ my'[u].node = n /\ my'[u].id = handle[v]
        <4>1. my'[u] = Call("attach", v, n, NoPod, handle[v])
          BY <1>s, <2>1, Zenon
        <4>2. /\ Call("attach", v, n, NoPod, handle[v]).op = "attach"
              /\ Call("attach", v, n, NoPod, handle[v]).obj = v
              /\ Call("attach", v, n, NoPod, handle[v]).node = n
              /\ Call("attach", v, n, NoPod, handle[v]).id = handle[v]
          BY Zenon DEF Call
        <4> QED
          BY <4>1, <4>2, Zenon
      <3>2. attach'[<<v, n>>] = "attaching"
        BY <1>2, <1>4, Zenon
      <3>3. AttachCallInv(pc[u], my[u])'
        BY <1>u, <3>1, <3>2, Zenon DEF AttachCallInv
      <3> QED
        BY <3>1, <3>3, Zenon DEF CreateInv, DeleteInv, DetachCallInv, PodCallInv, NodeCall
    <2>2. CASE u # w
      <3>1. Kept(u)
        BY <1>s, <2>2, Zenon
      <3>2. my[u].op = "attach" => <<my[u].obj, my[u].node>> \in Attachment
        BY <3>1, Zenon DEF Kept, AttachCallInv, Attachment
      <3>3. my[u].op = "attach" =>
               attach'[<<my[u].obj, my[u].node>>] \in {attach[<<my[u].obj, my[u].node>>], "attaching"}
        BY <1>4, <3>2, Zenon
      <3> QED
        BY <1>u, <3>1, <3>3, StillCreates, StillDeletes, StillAttaches, StillDetaches, StillServes, Zenon
    <2> QED
      BY <2>1, <2>2, Zenon
  <1> QED
    BY <1>1, <1>2, <1>3, <1>5, <1>6, <1>8, StartKeeps, Zenon

\* ControllerUnpublishVolume.
LEMMA StartDetachKeeps ==
    ASSUME Inv, NEW w \in Worker, NEW v \in Volume, NEW n \in Node, StartDetach(w, v, n)
    PROVE  Inv'
  <1>1. /\ pc' = [pc EXCEPT ![w] = "unpublish"]
        /\ my' = [my EXCEPT ![w] = Call("detach", v, n, NoPod, handle[v])]
        /\ attach' = [attach EXCEPT ![<<v, n>>] = "detaching"]
        /\ UNCHANGED <<phase, handle, exportID, pods, array, mounted, faults>>
        /\ Free("detach", v, n) /\ attach[<<v, n>>] # "detached"
        /\ \A p \in Pod : Uses[p] = <<v, n>> => pods[p] = "absent"
    BY Zenon DEF StartDetach
  <1>2. UNCHANGED <<fss, name, export, rules>> /\ v \in Object /\ <<v, n>> \in Attachment
    BY <1>1, Zenon DEF array, Object, Attachment
  <1>3. /\ "unpublish" \in Label /\ "detach" \in Op /\ handle[v] \in ID /\ "detach" \notin NodeCall
        /\ Place("detach", "unpublish")
    BY <1>2, Zenon DEF Label, Op, NodeCall, Place, Inv, TypeOK, KubernetesOK
  <1>4. \A a \in Attachment : attach'[a] = IF a = <<v, n>> THEN "detaching" ELSE attach[a]
    BY <1>1, Zenon DEF Inv, TypeOK, KubernetesOK
  <1>5. KubernetesOK' /\ HandleInv' /\ BoundServed'
    BY <1>1, <1>2, Zenon DEF Inv, TypeOK, KubernetesOK, HandleInv, BoundServed
  <1>u. /\ phase' = phase /\ handle' = handle /\ exportID' = exportID /\ pods' = pods
        /\ mounted' = mounted /\ fss' = fss /\ name' = name /\ export' = export
    BY <1>1, <1>2, Zenon
  <1>6. AttachInv'
    <2>0. \A a \in Attachment : attach'[a] # "detached" => attach[a] # "detached"
      BY <1>1, <1>4, Zenon
    <2>1. \A a \in Attachment : attach'[a] # "detached" => phase'[a[1]] = "bound"
      BY <1>1, <2>0, Zenon DEF Inv, AttachInv
    <2>2. \A p \in Pod : pods'[p] # "absent" => attach'[Uses[p]] = "attached"
      <3>1. \A p \in Pod : pods[p] # "absent" => attach[Uses[p]] = "attached"
        BY Zenon DEF Inv, AttachInv
      <3> QED
        BY <1>1, <1>4, <1>u, <3>1, PodAssumption, Zenon
    <2>3. \A x \in Volume, k, m \in Node :
              attach'[<<x, k>>] # "detached" /\ attach'[<<x, m>>] # "detached" /\ x \notin Shared => k = m
      <3>1. \A x \in Volume, k \in Node : <<x, k>> \in Attachment
        BY Zenon DEF Attachment
      <3> QED
        BY <2>0, <3>1, Zenon DEF Inv, AttachInv
    <2> QED
      BY <1>1, <2>1, <2>2, <2>3, Zenon DEF Inv, AttachInv
  <1>s. /\ pc'[w] = "unpublish" /\ my'[w] = Call("detach", v, n, NoPod, handle[v])
        /\ \A u \in Worker : u # w => Kept(u)
    BY <1>1, Started, Zenon
  <1>8. ASSUME NEW u \in Worker
        PROVE  /\ CreateInv(pc[u], my[u])' /\ DeleteInv(pc[u], my[u])'
               /\ AttachCallInv(pc[u], my[u])' /\ DetachCallInv(pc[u], my[u])' /\ PodCallInv(pc[u], my[u])'
    <2>1. CASE u = w
      <3>1. my'[u].op = "detach" /\ my'[u].obj = v /\ my'[u].node = n
        <4>1. my'[u] = Call("detach", v, n, NoPod, handle[v])
          BY <1>s, <2>1, Zenon
        <4>2. /\ Call("detach", v, n, NoPod, handle[v]).op = "detach"
              /\ Call("detach", v, n, NoPod, handle[v]).obj = v
              /\ Call("detach", v, n, NoPod, handle[v]).node = n
          BY Zenon DEF Call
        <4> QED
          BY <4>1, <4>2, Zenon
      <3>2. DetachCallInv(pc[u], my[u])'
        BY <1>1, <1>u, <3>1, Zenon DEF DetachCallInv
      <3> QED
        BY <3>1, <3>2, Zenon DEF CreateInv, DeleteInv, AttachCallInv, PodCallInv, NodeCall
    <2>2. CASE u # w
      <3>1. Kept(u) /\ (my[u].op = "attach" => <<my[u].obj, my[u].node>> # <<v, n>>)
        BY <1>1, <1>s, <2>2, Zenon DEF Free
      <3>2. my[u].op = "attach" => <<my[u].obj, my[u].node>> \in Attachment
        BY <3>1, Zenon DEF Kept, AttachCallInv, Attachment
      <3>3. my[u].op = "attach" =>
               attach'[<<my[u].obj, my[u].node>>] \in {attach[<<my[u].obj, my[u].node>>], "attaching"}
        BY <1>4, <3>1, <3>2, Zenon
      <3> QED
        BY <1>u, <3>1, <3>3, StillCreates, StillDeletes, StillAttaches, StillDetaches, StillServes, Zenon
    <2> QED
      BY <2>1, <2>2, Zenon
  <1> QED
    BY <1>1, <1>2, <1>3, <1>5, <1>6, <1>8, StartKeeps, Zenon

\* NodePublishVolume and NodeUnpublishVolume.
LEMMA StartPodKeeps ==
    ASSUME Inv, NEW w \in Worker, NEW p \in Pod, NEW op \in NodeCall, NEW from,
           NEW to \in {"starting", "stopping"}, NEW label \in Label,
           Place(op, label), label \notin {"cleanup", "dropExport", "dropRule"},
           StartPod(w, p, op, from, to, label)
    PROVE  Inv'
  <1> DEFINE v == Uses[p][1]
             n == Uses[p][2]
  <1>1. /\ pc' = [pc EXCEPT ![w] = label]
        /\ my' = [my EXCEPT ![w] = Call(op, v, n, p, handle[v])]
        /\ pods' = [pods EXCEPT ![p] = to]
        /\ UNCHANGED <<phase, handle, exportID, attach, array, mounted, faults>>
        /\ Free(op, v, n) /\ MutexFree(n) /\ attach[<<v, n>>] = "attached"
    BY Zenon DEF StartPod
  <1>2. v \in Volume /\ n \in Node /\ Uses[p] = <<v, n>>
    BY PodAssumption DEF Attachment
  <1> HIDE DEF v, n
  <1>3. UNCHANGED <<fss, name, export, rules>> /\ v \in Object
    BY <1>1, <1>2, Zenon DEF array, Object
  <1>u. /\ phase' = phase /\ handle' = handle /\ attach' = attach /\ mounted' = mounted
        /\ fss' = fss /\ name' = name
    BY <1>1, <1>3, Zenon
  <1>4. op \in Op /\ op \in {"mount", "unmount"} /\ handle[v] \in ID
    BY <1>3, Zenon DEF Op, NodeCall, Inv, TypeOK, KubernetesOK
  <1>5. \A q \in Pod : pods'[q] = IF q = p THEN to ELSE pods[q]
    BY <1>1, Zenon DEF Inv, TypeOK, KubernetesOK
  <1>6. KubernetesOK' /\ HandleInv' /\ BoundServed'
    BY <1>1, <1>3, Zenon DEF Inv, TypeOK, KubernetesOK, HandleInv, BoundServed
  <1>7. AttachInv'
    <2>1. mounted \subseteq Pod
      BY Zenon DEF Inv, TypeOK
    <2>2. \A q \in Pod : pods'[q] # "absent" => attach'[Uses[q]] = "attached"
      <3>1. \A q \in Pod : pods[q] # "absent" => attach[Uses[q]] = "attached"
        BY Zenon DEF Inv, AttachInv
      <3> QED
        BY <1>1, <1>2, <1>5, <1>u, <3>1, Zenon
    <2>3. \A q \in mounted' : pods'[q] # "absent"
      <3>1. \A q \in mounted : pods[q] # "absent"
        BY Zenon DEF Inv, AttachInv
      <3> QED
        BY <1>5, <1>u, <2>1, <3>1, Zenon
    <2> QED
      BY <1>u, <2>2, <2>3, Zenon DEF Inv, AttachInv
  <1>s. /\ pc'[w] = label /\ my'[w] = Call(op, v, n, p, handle[v])
        /\ \A u \in Worker : u # w => Kept(u)
    BY <1>1, Started, Zenon
  <1>8. ASSUME NEW u \in Worker
        PROVE  /\ CreateInv(pc[u], my[u])' /\ DeleteInv(pc[u], my[u])'
               /\ AttachCallInv(pc[u], my[u])' /\ DetachCallInv(pc[u], my[u])' /\ PodCallInv(pc[u], my[u])'
    <2>1. CASE u = w
      <3>1. /\ pc'[u] = label /\ my'[u].op = op /\ my'[u].obj = v /\ my'[u].node = n /\ my'[u].pod = p
            /\ my'[u].id = handle[v]
        <4>1. my'[u] = Call(op, v, n, p, handle[v]) /\ pc'[u] = label
          BY <1>s, <2>1, Zenon
        <4>2. /\ Call(op, v, n, p, handle[v]).op = op
              /\ Call(op, v, n, p, handle[v]).obj = v
              /\ Call(op, v, n, p, handle[v]).node = n
              /\ Call(op, v, n, p, handle[v]).pod = p
              /\ Call(op, v, n, p, handle[v]).id = handle[v]
          BY Zenon DEF Call
        <4> QED
          BY <4>1, <4>2, Zenon
      <3>2. PodCallInv(pc[u], my[u])'
        BY <1>2, <1>5, <1>u, <3>1, Zenon DEF PodCallInv
      <3> QED
        BY <1>4, <3>1, <3>2, Zenon DEF CreateInv, DeleteInv, AttachCallInv, DetachCallInv
    <2>2. CASE u # w
      <3>1. my[u].op = "detach" => <<my[u].obj, my[u].node>> # <<v, n>>
        BY <1>1, <1>4, Zenon DEF Free
      <3>2. DetachCallInv(pc[u], my[u])'
        BY <1>2, <1>5, <1>s, <2>2, <3>1, Zenon DEF Kept, DetachCallInv
      <3>3. Kept(u) /\ \A q \in Pod : pods[q] # "absent" => pods'[q] # "absent"
        BY <1>5, <1>s, <2>2, Zenon
      <3> QED
        BY <1>u, <3>2, <3>3, StillCreates, StillDeletes, StillAttaches, StillServes, Zenon
    <2> QED
      BY <2>1, <2>2, Zenon
  <1> QED
    BY <1>1, <1>2, <1>3, <1>4, <1>6, <1>7, <1>8, StartKeeps, Zenon

\* The two kinds of node calls.
LEMMA StartNodeCallKeeps ==
    ASSUME Inv, NEW w \in Worker, NEW p \in Pod, StartMount(w, p) \/ StartUnmount(w, p)
    PROVE  Inv'
  <1>1. CASE StartMount(w, p)
    <2> DEFINE l == IF Permissions[Uses[p][1]] = {} THEN "fsName" ELSE "mount"
    <2>1. l \in Label /\ Place("mount", l) /\ l \notin {"cleanup", "dropExport", "dropRule"} /\ "mount" \in NodeCall
      BY Zenon DEF Label, MountLabel, Place, NodeCall
    <2>2. StartPod(w, p, "mount", {"absent", "starting"}, "starting", l)
      BY <1>1, Zenon DEF StartMount
    <2> HIDE DEF l
    <2> QED
      BY <2>1, <2>2, StartPodKeeps, Zenon
  <1>2. CASE StartUnmount(w, p)
    <2>1. "unmount" \in Label /\ Place("unmount", "unmount") /\ "unmount" \in NodeCall
      BY Zenon DEF Label, UnmountLabel, Place, NodeCall
    <2> QED
      BY <1>2, <2>1, StartPodKeeps, Zenon DEF StartUnmount
  <1> QED
    BY <1>1, <1>2, Zenon

-----------------------------------------------------------------------------
(* The invariant holds of every reachable state. *)

\* Nothing of the invariant is about locks.
LEMMA UnlockedKeeps ==
    ASSUME Inv, UNCHANGED <<fss, name, parent, export, rules, k8s, mounted, pc, my, faults>>
    PROVE  Inv'
  <1>1. UNCHANGED <<phase, handle, exportID, attach, pods>>
    BY Zenon DEF k8s
  <1>2. TypeOK' /\ ArrayInv' /\ HandleInv'
    BY <1>1, Zenon DEF Inv, TypeOK, ArrayOK, KubernetesOK, ProcessOK, ArrayInv, HandleInv
  <1>4. AttachInv' /\ Exclusive'
    BY <1>1, Zenon DEF Inv, AttachInv, Exclusive
  <1>5. BoundServed' /\ MountedCovered'
    BY <1>1, Zenon DEF Inv, BoundServed, MountedCovered, MountedOn, Covered
  <1>3. ASSUME NEW u \in Worker
        PROVE  CallInv(pc[u], my[u])'
    <2>1. CallInv(pc[u], my[u])
      BY Zenon DEF Inv
    <2> QED
      BY <1>1, <2>1, Zenon DEF CallInv, Place, ExportInv, CreateInv, DeleteInv, AttachCallInv, DetachCallInv, PodCallInv
  <1> QED
    BY <1>2, <1>3, <1>4, <1>5, Zenon DEF Inv

\* Initially nothing exists and nobody calls.
LEMMA InitInv == Init => Inv
  <1> SUFFICES ASSUME Init
               PROVE  Inv
    BY Zenon
  <1>1. "idle" \in Label
    BY Zenon DEF Label
  <1>2. TypeOK
    BY <1>1, NoCallFacts, Zenon DEF Init, TypeOK, ArrayOK, KubernetesOK, ProcessOK, ID, AnyExport
  <1>3. ArrayInv /\ HandleInv /\ BoundServed
    BY Zenon DEF Init, ArrayInv, HandleInv, BoundServed
  <1>4. AttachInv
    BY Zenon DEF Init, AttachInv, Attachment
  <1>5. Exclusive /\ MountedCovered
    BY NoCallFacts, Zenon DEF Init, Exclusive, NodeCall, MountedCovered, MountedOn
  <1>6. \A u \in Worker : CallInv(pc[u], my[u])
    BY NoCallInv, Zenon DEF Init
  <1> QED
    BY <1>2, <1>3, <1>4, <1>5, <1>6, Zenon DEF Inv

\* Every step keeps it.
LEMMA NextInv ==
    ASSUME Inv, "create" \notin Overlap, [Next]_vars
    PROVE  Inv'
  <1>1. ASSUME NEW w \in Worker, NEW o \in Object, StartCreate(w, o) \/ StartDelete(w, o)
        PROVE  Inv'
    BY <1>1, StartCreateKeeps, StartDeleteKeeps, Zenon
  <1>2. ASSUME NEW w \in Worker, NEW v \in Volume, NEW n \in Node, StartAttach(w, v, n) \/ StartDetach(w, v, n)
        PROVE  Inv'
    BY <1>2, StartAttachKeeps, StartDetachKeeps, Zenon
  <1>3. ASSUME NEW w \in Worker, NEW p \in Pod, StartMount(w, p) \/ StartUnmount(w, p)
        PROVE  Inv'
    BY <1>3, StartNodeCallKeeps, Zenon
  <1>4. ASSUME NEW w \in Worker, Step(w)
        PROVE  Inv'
    BY <1>4, StepKeeps, Zenon
  <1>5. ASSUME NEW f \in FileSystemID, LockExpires(f)
        PROVE  Inv'
    BY <1>5, UnlockedKeeps, Zenon DEF LockExpires
  <1>6. ASSUME NEW ws, Crash(ws)
        PROVE  Inv'
    BY <1>6, FaultsCounted, DieKeeps, Zenon DEF Crash
  <1>7. CASE UNCHANGED vars
    BY <1>7, UnlockedKeeps, Zenon DEF vars, array
  <1> QED
    BY <1>1, <1>2, <1>3, <1>4, <1>5, <1>6, <1>7 DEF Next

\* BoundServed: neither the rollback of a CreateVolume that failed nor the
\* deletion of another object takes the filesystem of a bound volume or
\* snapshot away, whatever calls run side by side, fail, lose their answers or
\* die with their process.  (A CreateVolume that is repeated while it still
\* runs is excluded: its rollback may take what the repetition answered with.)
THEOREM Bound ==
    ASSUME "create" \notin Overlap
    PROVE  Spec => []BoundServed
  <1>1. Inv /\ [Next]_vars => Inv'
    BY NextInv, Zenon
  <1>2. Inv => BoundServed
    BY Zenon DEF Inv
  <1> QED
    BY InitInv, <1>1, <1>2, PTL DEF Spec

\* MountedCovered: the export of a mounted volume that is not shared admits the
\* node where it is mounted: neither the cleanup of cleanupNFSPerms, nor a
\* deletion, nor the rules that ControllerPublishVolume or NodePublishVolume put
\* back after reading them two calls earlier take the node's rule away.
THEOREM Admitted ==
    ASSUME "create" \notin Overlap
    PROVE  Spec => []MountedCovered
  <1>1. Inv /\ [Next]_vars => Inv'
    BY NextInv, Zenon
  <1>2. Inv => MountedCovered
    BY Zenon DEF Inv
  <1> QED
    BY InitInv, <1>1, <1>2, PTL DEF Spec

-----------------------------------------------------------------------------
(* Rules that nobody needs are taken back, as long as no call fails. *)

\* Volumes whose rules are the nodes' affair, one node at a time.
NodesOwn(v) == v \in Volume /\ v \notin Shared /\ Permissions[v] = {}

Updating == {"addRule"} \cup Dropping

\* The class decides who makes rules, and the rules that a node read are still
\* those of the export.
RulesKnown(label, m) ==
    /\ label \in {"export", "addNode"} => Permissions[m.obj] # {}
    /\ label \in Updating /\ m.obj \notin Shared => m.old = rules[m.id] /\ m.exp = export[m.id]

\* A rule stands for a pod that is not gone, and a filesystem whose volume is
\* not bound yet has no rules.
Justified ==
    /\ \A v \in Volume, n \in Node :
          NodesOwn(v) /\ phase[v] = "bound" /\ n \in rules[handle[v]] =>
              \E p \in Pod : Uses[p] = <<v, n>> /\ pods[p] # "absent"
    /\ \A f \in fss : NodesOwn(name[f]) /\ phase[name[f]] = "unbound" => rules[f] = {}

CleanInv ==
    Cleanup /\ faults = 0 => Justified /\ \A w \in Worker : RulesKnown(pc[w], my[w])

\* What a step of worker w does to rules if nothing failed so far.
RuleEffect(w) ==
    /\ Own(w) \in FileSystemID /\ NodesOwn(my[w].obj) =>
          /\ my[w].op = "create" => rules'[Own(w)] \in {rules[Own(w)], {}}
          /\ my[w].op = "attach" => rules'[Own(w)] = rules[Own(w)]
    /\ my[w].op = "mount" /\ NodesOwn(my[w].obj) =>
          pods'[my[w].pod] # "absent" /\ rules'[Own(w)] \subseteq rules[Own(w)] \cup {my[w].node}
    /\ my[w].op = "unmount" /\ NodesOwn(my[w].obj) =>
          /\ rules'[Own(w)] \subseteq rules[Own(w)]
          /\ pods'[my[w].pod] = "absent" =>
                \/ my[w].node \notin rules'[Own(w)]
                \/ \E p \in mounted : p # my[w].pod /\ Uses[p] = Uses[my[w].pod]
    /\ RulesKnown(pc[w], my[w])'

\* A volume is bound where it is attached.
LEMMA BoundAttached ==
    ASSUME Inv, NEW v \in Volume, NEW n \in Node, attach[<<v, n>>] # "detached"
    PROVE  phase[v] = "bound"
  <1>1. <<v, n>> \in Attachment /\ <<v, n>>[1] = v
    BY Zenon DEF Attachment
  <1> QED
    BY <1>1, Zenon DEF Inv, AttachInv

\* The object of a call on a filesystem that a volume's handle names is that
\* volume.
LEMMA SameObject ==
    ASSUME Inv, NEW w \in Worker, NEW v \in Object, handle[v] \in fss, handle[v] = Own(w),
           my[w].op \in {"create", "delete", "attach", "mount", "unmount"}
    PROVE  my[w].obj = v
  <1>1. name[handle[v]] = v
    BY Zenon DEF Inv, HandleInv
  <1>2. CASE my[w].op \in {"create", "delete"}
    BY <1>1, <1>2, RemovedUnbound, Zenon
  <1>3. CASE my[w].op = "attach"
    <2>1. my[w].id = handle[my[w].obj] /\ my[w].obj \in Object
      BY <1>3, AttachFacts, Zenon DEF Object
    <2> QED
      BY <1>1, <2>1, Zenon DEF Inv, HandleInv, Own
  <1>4. CASE my[w].op \in NodeCall
    BY <1>1, <1>4, PodFacts, Zenon DEF Inv, HandleInv, Own, Object
  <1> QED
    BY <1>2, <1>3, <1>4, Zenon DEF NodeCall

\* Calls other than these leave the rules alone.
LEMMA RulesOf ==
    ASSUME Inv, NEW w \in Worker, Effect(w), NEW f \in FileSystemID,
           rules'[f] # rules[f] \/ export'[f] # export[f]
    PROVE  f = Own(w) /\ my[w].op \in {"create", "delete", "attach", "mount", "unmount"}
  BY Zenon DEF Effect, ArrayEffect, ExportEffect, CoverEffect

\* A new filesystem has no rules.
LEMMA FreshRules ==
    ASSUME Inv, NEW w \in Worker, Effect(w), NEW f \in fss', f \notin fss
    PROVE  f \in FileSystemID /\ rules'[f] = {}
  <1>1. f \in FreshFileSystemID /\ f \in FileSystemID /\ f # Own(w)
    BY Zenon DEF Effect, ArrayEffect, FileSystemEffect, FreshFileSystemID, Own
  <1> QED
    BY <1>1, RulesOf, Zenon DEF Inv, ArrayInv

\* Filesystems of volumes that are not bound yet get no rules ...
LEMMA UnboundClean ==
    ASSUME Inv, NEW w \in Worker, Effect(w), RuleEffect(w), Justified,
           NEW f \in fss', NodesOwn(name'[f]), phase[name'[f]] = "unbound"
    PROVE  rules'[f] = {}
  <1>1. CASE f \notin fss
    BY <1>1, FreshRules, Zenon
  <1>2. CASE f \in fss
    <2>1. f \in FileSystemID /\ name'[f] = name[f] /\ rules[f] = {}
      BY <1>2, Zenon DEF Effect, ArrayEffect, FileSystemEffect, Justified, Inv, TypeOK, ArrayOK
    <2>2. CASE rules'[f] = rules[f]
      BY <2>1, <2>2, Zenon
    <2>3. CASE rules'[f] # rules[f]
      <3>1. f = Own(w) /\ my[w].op \in {"create", "delete", "attach", "mount", "unmount"}
        BY <2>1, <2>3, RulesOf, Zenon
      <3>2. CASE my[w].op = "create"
        <4>1. name[f] = my[w].obj
          BY <1>2, <3>1, <3>2, RemovedUnbound, Zenon
        <4> QED
          BY <2>1, <2>3, <3>1, <3>2, <4>1, Zenon DEF RuleEffect
      <3>3. CASE my[w].op = "delete"
        BY <1>2, <2>1, <3>1, <3>3, RemovedUnbound, Zenon
      <3>4. CASE my[w].op = "attach"
        <4>1. my[w].obj \in Volume /\ my[w].obj \in Object /\ my[w].id = handle[my[w].obj]
              /\ attach[<<my[w].obj, my[w].node>>] # "detached" /\ my[w].node \in Node
          BY <3>4, AttachFacts, Zenon DEF AttachCallInv, Object
        <4>2. phase[my[w].obj] = "bound"
          BY <4>1, BoundAttached, Zenon
        <4>3. name[f] = my[w].obj
          BY <1>2, <3>1, <4>1, Zenon DEF Inv, HandleInv, Own
        <4> QED
          BY <2>1, <4>2, <4>3, Zenon
      <3>5. CASE my[w].op \in NodeCall
        <4>1. phase[my[w].obj] = "bound" /\ name[f] = my[w].obj
          BY <3>1, <3>5, PodFacts, Zenon DEF Own
        <4> QED
          BY <2>1, <4>1, Zenon
      <3> QED
        BY <3>1, <3>2, <3>3, <3>4, <3>5, Zenon DEF NodeCall
    <2> QED
      BY <2>2, <2>3, Zenon
  <1> QED
    BY <1>1, <1>2, Zenon

\* ... and those of bound ones get them for pods that are there.
LEMMA BoundClean ==
    ASSUME Inv, NEW w \in Worker, Effect(w), RuleEffect(w), Justified,
           NEW v \in Volume, NEW n \in Node, NodesOwn(v), phase[v] = "bound", n \in rules'[handle[v]]
    PROVE  \E p \in Pod : Uses[p] = <<v, n>> /\ pods'[p] # "absent"
  <1> DEFINE f == handle[v]
  <1>0. v \in Object /\ f \in fss /\ f \in FileSystemID
    BY Zenon DEF Object, Inv, BoundServed, TypeOK, ArrayOK
  <1>1. CASE n \in rules[f]
    <2>1. PICK p \in Pod : Uses[p] = <<v, n>> /\ pods[p] # "absent"
      BY <1>1, Zenon DEF Justified
    <2>2. CASE pods'[p] # "absent"
      BY <2>1, <2>2, Zenon
    <2>3. CASE pods'[p] = "absent"
      <3>1. p = my[w].pod /\ my[w].op \in NodeCall
        BY <2>1, <2>3, Zenon DEF Effect, KubernetesEffect, PodEffect
      <3>2. my[w].obj = v /\ my[w].node = n /\ my[w].id = f
        <4>1. Uses[my[w].pod] = <<my[w].obj, my[w].node>> /\ my[w].id = handle[my[w].obj]
          BY <3>1, PodFacts, Zenon
        <4>2. <<my[w].obj, my[w].node>> = <<v, n>>
          BY <2>1, <3>1, <4>1, Zenon
        <4>3. my[w].obj = v /\ my[w].node = n
          BY <4>2, SamePair, Zenon
        <4> QED
          BY <4>1, <4>3, Zenon
      <3>3. \E q \in mounted : q # p /\ Uses[q] = Uses[p]
        BY <2>3, <3>1, <3>2, Zenon DEF RuleEffect, Own, NodeCall
      <3>4. PICK q \in mounted : q # p /\ Uses[q] = Uses[p]
        BY <3>3, Zenon
      <3>5. q \in Pod /\ pods[q] # "absent" /\ pods'[q] = pods[q]
        BY <3>1, <3>4, Zenon DEF Inv, TypeOK, AttachInv, Effect, KubernetesEffect, PodEffect
      <3> QED
        BY <2>1, <3>4, <3>5, Zenon
    <2> QED
      BY <2>2, <2>3, Zenon
  <1>2. CASE n \notin rules[f]
    <2>1. f = Own(w) /\ my[w].op \in {"create", "delete", "attach", "mount", "unmount"}
      BY <1>0, <1>2, RulesOf, Zenon
    <2>2. my[w].obj = v
      BY <1>0, <2>1, SameObject, Zenon
    <2>3. my[w].op = "mount"
      BY <1>0, <1>2, <2>1, <2>2, RemovedUnbound, Zenon DEF RuleEffect
    <2>4. n = my[w].node /\ pods'[my[w].pod] # "absent"
      BY <1>2, <2>1, <2>2, <2>3, Zenon DEF RuleEffect
    <2> QED
      BY <2>2, <2>3, <2>4, PodFacts, Zenon DEF NodeCall
  <1> QED
    BY <1>1, <1>2, Zenon

\* What the other handlers read of their rules stays true.
LEMMA RulesStillKnown ==
    ASSUME Inv, "create" \notin Overlap, NEW w \in Worker, Effect(w), NEW u \in Worker, u # w,
           RulesKnown(pc[u], my[u])
    PROVE  RulesKnown(pc[u], my[u])'
  <1>1. pc'[u] = pc[u] /\ my'[u] = my[u]
    BY Zenon DEF Effect, CallEffect, Others
  <1>2. ASSUME pc[u] \in Updating, my[u].obj \notin Shared
        PROVE  rules'[my[u].id] = rules[my[u].id] /\ export'[my[u].id] = export[my[u].id]
    <2>0. my[u].op \in NodeCall
      BY <1>2, Handlers, Zenon DEF Updating, Dropping, MountLabel, UnmountLabel, NodeCall
    <2>1. /\ my[u].obj \in Volume /\ my[u].obj \in Object /\ my[u].node \in Node
          /\ my[u].id = handle[my[u].obj] /\ my[u].id \in fss
          /\ my[u].id \in FileSystemID /\ my[u].pod \in Pod
          /\ Uses[my[u].pod] = <<my[u].obj, my[u].node>> /\ pods[my[u].pod] # "absent"
      BY <2>0, PodFacts, Zenon DEF Object
    <2>2. /\ attach[<<my[u].obj, my[u].node>>] = "attached" /\ phase[my[u].obj] = "bound"
          /\ name[handle[my[u].obj]] = my[u].obj
      <3>1. phase[my[u].obj] = "bound" /\ name[my[u].id] = my[u].obj
        BY <2>0, PodFacts, Zenon
      <3>2. Uses[my[u].pod] = <<my[u].obj, my[u].node>> => attach[<<my[u].obj, my[u].node>>] = "attached"
        BY <2>1, Zenon DEF Inv, AttachInv
      <3> QED
        BY <2>1, <3>1, <3>2, Zenon
    <2>3. SUFFICES ASSUME rules'[my[u].id] # rules[my[u].id] \/ export'[my[u].id] # export[my[u].id]
                   PROVE  FALSE
      BY Zenon
    <2>4. my[u].id = Own(w) /\ my[w].op \in {"create", "delete", "attach", "mount", "unmount"}
      BY <2>1, <2>3, RulesOf, Zenon
    <2>5. my[w].op \notin {"create", "delete"}
      BY <2>1, <2>2, <2>4, RemovedUnbound, Zenon
    <2>6. my[w].obj = my[u].obj /\ my[w].node = my[u].node
      BY <1>2, <2>1, <2>2, <2>4, <2>5, SameNode, Zenon
    <2>7. my[w].op = my[u].op
      BY <2>1, <2>6, Excluded, Zenon
    <2> QED
      BY <2>0, <2>6, <2>7, Zenon DEF Inv, Exclusive
  <1> QED
    BY <1>1, <1>2, Zenon DEF RulesKnown

\* A step of one worker with these effects keeps the rules justified.
LEMMA RuleEffectKeeps ==
    ASSUME Inv, "create" \notin Overlap, NEW w \in Worker, Effect(w), RuleEffect(w),
           Justified, \A u \in Worker : RulesKnown(pc[u], my[u])
    PROVE  Justified' /\ \A u \in Worker : RulesKnown(pc[u], my[u])'
  <1>1. ASSUME NEW v \in Volume, NEW n \in Node, NodesOwn(v), phase'[v] = "bound", n \in rules'[handle'[v]]
        PROVE  \E p \in Pod : Uses[p] = <<v, n>> /\ pods'[p] # "absent"
    <2>0. v \in Object
      BY Zenon DEF Object
    <2>1. CASE phase[v] = "bound"
      <3>1. handle'[v] = handle[v]
        BY <2>0, <2>1, HandlesKept, Zenon
      <3> QED
        BY <1>1, <2>1, <3>1, BoundClean, Zenon
    <2>2. CASE phase[v] # "bound"
      <3>1. my[w].op = "create" /\ my[w].obj = v /\ handle'[v] \in fss' /\ name'[handle'[v]] = v
        BY <1>1, <2>0, <2>2, Zenon DEF Effect, KubernetesEffect, ObjectEffect
      <3>2. phase[v] = "unbound"
        BY <3>1, CreateFacts, Zenon
      <3> QED
        BY <1>1, <3>1, <3>2, UnboundClean, Zenon
    <2> QED
      BY <2>1, <2>2, Zenon
  <1>2. ASSUME NEW f \in fss', NodesOwn(name'[f]), phase'[name'[f]] = "unbound"
        PROVE  rules'[f] = {}
    <2>1. phase[name'[f]] = "unbound"
      BY <1>2, Zenon DEF NodesOwn, Object, Effect, KubernetesEffect, ObjectEffect
    <2> QED
      BY <1>2, <2>1, UnboundClean, Zenon
  <1>3. Justified'
    <2>1. (\A v \in Volume, n \in Node :
              NodesOwn(v) /\ phase[v] = "bound" /\ n \in rules[handle[v]] =>
                  \E p \in Pod : Uses[p] = <<v, n>> /\ pods[p] # "absent")'
      BY <1>1, Zenon DEF NodesOwn
    <2>2. (\A f \in fss : NodesOwn(name[f]) /\ phase[name[f]] = "unbound" => rules[f] = {})'
      BY <1>2, Zenon DEF NodesOwn
    <2> QED
      BY <2>1, <2>2, Zenon DEF Justified
  <1>4. \A u \in Worker : RulesKnown(pc[u], my[u])'
    BY RulesStillKnown, Zenon DEF RuleEffect
  <1> QED
    BY <1>3, <1>4, Zenon

\* A handler that ends its call, or goes on to a label where nothing depends on
\* rules, knows nothing of them.
LEMMA RulesUnknown ==
    ASSUME NEW w \in Worker, pc'[w] \notin {"export", "addNode"} \cup Updating
    PROVE  RulesKnown(pc[w], my[w])'
  BY Zenon DEF RulesKnown

\* Where the handler of each call can be after a step.
LEMMA NextLabel ==
    ASSUME Inv, NEW w \in Worker, Effect(w)
    PROVE  \/ pc'[w] = "idle"
           \/ Place(my[w].op, pc'[w])
  BY Zenon DEF Effect, CallEffect, CallInv, Place

\* Deletions and detachments do not matter: their volume is not in use.
LEMMA DeleteRules ==
    ASSUME Inv, NEW w \in Worker, Effect(w), my[w].op \in {"delete", "detach"}
    PROVE  RuleEffect(w)
  <1>1. pc'[w] \notin {"export", "addNode"} \cup Updating
    BY NextLabel, Zenon DEF Place, DeleteLabel, Updating, Dropping
  <1> QED
    BY <1>1, RulesUnknown, Zenon DEF RuleEffect

\* Where a step goes.
LEMMA GotoLabel ==
    ASSUME Inv, NEW w \in Worker
    PROVE  /\ \A l, m : Goto(w, l, m) => pc'[w] = l /\ my'[w] = m /\ pods' = pods
           /\ ReturnError(w) => pc'[w] = "idle" /\ pods' = pods
           /\ \A f, e : ReturnCreated(w, f, e) => pc'[w] = "idle"
           /\ \A s : ReturnAttach(w, s) => pc'[w] = "idle"
           /\ \A s : ReturnPod(w, s) => pc'[w] = "idle" /\ pods' = [pods EXCEPT ![my[w].pod] = s]
  BY Zenon DEF Inv, TypeOK, ProcessOK, Goto, ReturnError, ReturnCreated, ReturnAttach, ReturnPod, Leave, k8s

\* A volume whose class lists no clients gets no rules from CreateVolume.
LEMMA CreateRules ==
    ASSUME Inv, NEW w \in Worker, CreateStep(w), Effect(w), RulesKnown(pc[w], my[w])
    PROVE  RuleEffect(w)
  <1>0. my[w].op = "create"
    BY Handlers, Zenon DEF CreateStep, GetFileSystemByName, ExistingVolume, CreateFileSystem, GetSource,
       CreateFileSystemSnapshot, createExportPath, AddMetadata, UndoExport, UndoFileSystem, CreateLabel
  <1>1. my[w].id \in FileSystemID /\ rules'[my[w].id] # rules[my[w].id] =>
            rules'[my[w].id] = {} \/ pc[w] = "export"
    <2>1. CASE GetFileSystemByName(w) \/ ExistingVolume(w) \/ GetSource(w) \/ AddMetadata(w)
      BY <2>1, Zenon DEF GetFileSystemByName, ExistingVolume, GetSource, AddMetadata, array
    <2>2. CASE CreateFileSystem(w)
      <3>1. UNCHANGED array \/ \E f, o, p : NewFileSystem(f, o, p)
        BY <2>2, Zenon DEF CreateFileSystem
      <3> QED
        BY <3>1, Zenon DEF NewFileSystem, array
    <2>3. CASE CreateFileSystemSnapshot(w)
      <3>1. UNCHANGED array \/ \E f, o, p : NewFileSystem(f, o, p)
        BY <2>3, Zenon DEF CreateFileSystemSnapshot
      <3> QED
        BY <3>1, Zenon DEF NewFileSystem, array
    <2>4. CASE createExportPath(w)
      BY <2>4, Zenon DEF createExportPath
    <2>5. CASE UndoExport(w)
      <3>1. UNCHANGED array \/ SetExport(my[w].id, NoID, {})
        BY <2>5, Zenon DEF UndoExport
      <3> QED
        BY <3>1, Zenon DEF SetExport, array, Inv, TypeOK, ArrayOK
    <2>6. CASE UndoFileSystem(w)
      <3>1. UNCHANGED array \/ RemoveFileSystem(my[w].id)
        BY <2>6, Zenon DEF UndoFileSystem
      <3> QED
        BY <3>1, Zenon DEF RemoveFileSystem, array, Inv, TypeOK, ArrayOK
    <2> QED
      BY <2>1, <2>2, <2>3, <2>4, <2>5, <2>6, Zenon DEF CreateStep
  <1>2. pc'[w] = "export" => Permissions[my[w].obj] # {}
    <2>1. CASE CreateFileSystem(w)
      <3>1. pc'[w] \in {"idle", Prepare(my[w].obj)}
        <4>1. ReturnError(w) \/ \E m : Goto(w, Prepare(my[w].obj), m)
          BY <2>1, Zenon DEF CreateFileSystem
        <4> QED
          BY <4>1, GotoLabel, Zenon
      <3> QED
        BY <3>1, Zenon DEF Prepare
    <2>2. CASE CreateFileSystemSnapshot(w)
      <3>1. pc'[w] \in {"idle", Prepare(my[w].obj)}
        <4>1. ReturnError(w) \/ (\E f, e : ReturnCreated(w, f, e)) \/ \E m : Goto(w, Prepare(my[w].obj), m)
          BY <2>2, Zenon DEF CreateFileSystemSnapshot
        <4> QED
          BY <4>1, GotoLabel, Zenon
      <3> QED
        BY <3>1, Zenon DEF Prepare
    <2>3. CASE GetFileSystemByName(w)
      <3>1. \/ ReturnError(w) \/ \E f, e : ReturnCreated(w, f, e)
            \/ \E l \in {"create", "source", "exports"} : \E m : Goto(w, l, m)
        BY <2>3, Zenon DEF GetFileSystemByName
      <3> QED
        BY <3>1, GotoLabel, Zenon
    <2>5. CASE ExistingVolume(w) \/ GetSource(w)
      BY <2>5, GotoLabel DEF ExistingVolume, GetSource
    <2>4. CASE createExportPath(w) \/ AddMetadata(w) \/ UndoExport(w) \/ UndoFileSystem(w)
      BY <2>4, GotoLabel DEF createExportPath, AddMetadata, UndoExport, UndoFileSystem
    <2> QED
      BY <2>1, <2>2, <2>3, <2>4, <2>5, Zenon DEF CreateStep
  <1>3. RulesKnown(pc[w], my[w])'
    <2>1. pc'[w] \notin {"addNode"} \cup Updating
      BY <1>0, NextLabel, Zenon DEF Place, CreateLabel, Updating, Dropping
    <2>2. pc'[w] = "export" => my'[w].obj = my[w].obj
      BY Zenon DEF Effect, CallEffect
    <2> QED
      BY <1>2, <2>1, <2>2, Zenon DEF RulesKnown
  <1> QED
    BY <1>0, <1>1, <1>3, Zenon DEF RuleEffect, RulesKnown, NodesOwn, Own

\* Nor does it get any from ControllerPublishVolume.
LEMMA PublishRules ==
    ASSUME Inv, NEW w \in Worker, PublishStep(w), Effect(w), RulesKnown(pc[w], my[w])
    PROVE  RuleEffect(w)
  <1>1. CASE DeleteExportRule(w)
    BY <1>1, Handlers, DeleteRules, Zenon DEF DeleteExportRule
  <1>2. CASE GetExportByID(w)
    <2>0. my[w].op = "attach" /\ my[w].obj \in Volume
      BY <1>2, Handlers, AttachFacts, Zenon DEF GetExportByID, AttachLabel
    <2>1. rules' = rules
      BY <1>2, Zenon DEF GetExportByID, Die, array
    <2>2. pc'[w] = "addNode" => Permissions[my[w].obj] # {}
      <3>1. \/ Permissions[my[w].obj] # {}
            \/ ReturnAttach(w, "attached")
        BY <1>2, Zenon DEF GetExportByID
      <3> QED
        BY <3>1, GotoLabel, Zenon
    <2>3. pc'[w] \notin {"export"} \cup Updating
      BY <2>0, NextLabel, Zenon DEF Place, AttachLabel, Updating, Dropping
    <2>4. pc'[w] = "addNode" => my'[w].obj = my[w].obj
      BY Zenon DEF Effect, CallEffect
    <2>5. RulesKnown(pc[w], my[w])'
      BY <2>2, <2>3, <2>4, Zenon DEF RulesKnown
    <2> QED
      BY <2>0, <2>1, <2>5, Zenon DEF RuleEffect
  <1>3. CASE AddNodeInExport(w)
    <2>0. my[w].op = "attach" /\ my[w].obj \in Volume /\ pc[w] = "addNode"
      BY <1>3, Handlers, AttachFacts, Zenon DEF AddNodeInExport, AttachLabel
    <2>1. Permissions[my[w].obj] # {}
      BY <2>0, Zenon DEF RulesKnown
    <2>2. pc'[w] = "idle"
      BY <1>3, GotoLabel, Zenon DEF AddNodeInExport
    <2> QED
      BY <2>0, <2>1, <2>2, RulesUnknown, Zenon DEF RuleEffect, NodesOwn, Updating, Dropping
  <1> QED
    BY <1>1, <1>2, <1>3, Zenon DEF PublishStep

\* What a step without a fault cannot have done.
LEMMA NoFault ==
    ASSUME Inv, faults' = 0
    PROVE  /\ \A c : ~Fault(c)
           /\ \A c, o : Charge(c, o) => o = "ok" /\ faults' = faults
  <1>1. faults + 1 # 0
    BY DEF Inv, TypeOK
  <1>2. \A c : ~Fault(c)
    BY <1>1, Zenon DEF Fault
  <1> QED
    BY <1>2, Zenon DEF Charge, Ok

\* NodePublishVolume adds nothing but the rule of its node.
LEMMA MountRules ==
    ASSUME Inv, NEW w \in Worker, NodeStep(w), Effect(w), RulesKnown(pc[w], my[w]), my[w].op = "mount"
    PROVE  RuleEffect(w)
  <1>0. /\ my[w].op \in NodeCall /\ pc[w] \in MountLabel /\ my[w].id \in FileSystemID /\ my[w].pod \in Pod
        /\ pods[my[w].pod] # "absent" /\ my[w].id \in fss
    BY PodFacts, Handlers, Zenon DEF NodeCall, Inv, CallInv, Place
  <1>1. pods'[my[w].pod] # "absent"
    <2>1. pods' = pods \/ pods' = [pods EXCEPT ![my[w].pod] = "running"]
      <3>1. CASE GetExportPath(w) \/ UpdateExport(w)
        BY <3>1, GotoLabel, Zenon DEF GetExportPath, UpdateExport
      <3>2. CASE AddRule(w)
        BY <3>2, GotoLabel, Zenon DEF AddRule
      <3>3. CASE CreateExport(w)
        BY <3>3, GotoLabel, Zenon DEF CreateExport
      <3>4. CASE Mount(w)
        BY <3>4, GotoLabel, Zenon DEF Mount
      <3> QED
        BY <1>0, <3>1, <3>2, <3>3, <3>4, Zenon DEF NodeStep, Unmount, cleanupNFSPerms, DropExport, DropRule, MountLabel
    <2> QED
      BY <1>0, <2>1, Zenon DEF Inv, TypeOK, KubernetesOK
  <1>2. ASSUME NodesOwn(my[w].obj)
        PROVE  rules'[my[w].id] \subseteq rules[my[w].id] \cup {my[w].node}
    <2>1. CASE GetExportPath(w) \/ UpdateExport(w) \/ Mount(w)
      BY <2>1, Zenon DEF GetExportPath, UpdateExport, Mount, array
    <2>2. CASE AddRule(w)
      <3>1. my[w].old = rules[my[w].id]
        BY <1>2, <2>2, Zenon DEF AddRule, RulesKnown, Updating, NodesOwn
      <3>2. UNCHANGED rules \/ PutRules(w, OldPlusNew(w))
        BY <2>2, Zenon DEF AddRule
      <3> QED
        BY <1>0, <3>1, <3>2, Zenon DEF PutRules, OldPlusNew
    <2>3. CASE CreateExport(w)
      <3>1. UNCHANGED array \/ SetExport(my[w].id, NewExportID, {my[w].node})
        BY <2>3, Zenon DEF CreateExport
      <3> QED
        BY <1>0, <3>1, Zenon DEF SetExport, array, Inv, TypeOK, ArrayOK
    <2> QED
      BY <1>0, <2>1, <2>2, <2>3, Zenon DEF NodeStep, Unmount, cleanupNFSPerms, DropExport, DropRule, MountLabel
  <1>3. RulesKnown(pc[w], my[w])'
    <2>1. pc'[w] \notin {"export", "addNode"} \cup Dropping
      BY NextLabel, Zenon DEF Place, MountLabel, Dropping
    <2>2. ASSUME pc'[w] = "addRule"
          PROVE  my'[w].old = rules'[my'[w].id] /\ my'[w].exp = export'[my'[w].id]
      <3>1. UpdateExport(w)
        <4>1. pc[w] \notin UnmountLabel
          BY <1>0, Zenon DEF MountLabel, UnmountLabel
        <4>2. ~(Unmount(w) \/ cleanupNFSPerms(w) \/ DropExport(w) \/ DropRule(w))
          BY <4>1, Zenon DEF Unmount, cleanupNFSPerms, DropExport, DropRule, UnmountLabel
        <4>3. ~GetExportPath(w)
          <5>1. ASSUME GetExportPath(w)
                PROVE  Goto(w, "rules", my[w]) \/ ReturnError(w)
            BY <5>1, Zenon DEF GetExportPath
          <5>2. Goto(w, "rules", my[w]) => pc'[w] = "rules"
            BY GotoLabel, Zenon
          <5>3. ReturnError(w) => pc'[w] = "idle"
            BY GotoLabel, Zenon
          <5> QED
            BY <2>2, <5>1, <5>2, <5>3, Zenon
        <4>4. ~Mount(w)
          BY <2>2, GotoLabel, Zenon DEF Mount
        <4>5. ~AddRule(w)
          BY <2>2, GotoLabel, Zenon DEF AddRule
        <4>6. ~CreateExport(w)
          BY <2>2, GotoLabel, Zenon DEF CreateExport
        <4> QED
          BY <4>2, <4>3, <4>4, <4>5, <4>6, Zenon DEF NodeStep
      <3> DEFINE m == [my[w] EXCEPT !.exp = export[my[w].id], !.old = rules[my[w].id]]
      <3>2. m.old = rules[my[w].id] /\ m.exp = export[my[w].id] /\ m.id = my[w].id
        BY <1>0, PodFacts, Zenon DEF CallType
      <3>3. (\E l : Goto(w, l, m)) \/ ReturnError(w)
        BY <3>1, Zenon DEF UpdateExport
      <3> HIDE DEF m
      <3>4. my'[w] = m
        BY <2>2, <3>3, GotoLabel, Zenon
      <3> QED
        BY <3>1, <3>2, <3>4, Zenon DEF UpdateExport, array
    <2> QED
      BY <2>1, <2>2, Zenon DEF RulesKnown, Updating
  <1> QED
    BY <1>1, <1>2, <1>3, Zenon DEF RuleEffect, Own

\* NodeUnpublishVolume takes the rule back, unless another pod of the node still
\* has the volume mounted.
LEMMA UnmountRules ==
    ASSUME Inv, NEW w \in Worker, NodeStep(w), Effect(w), RulesKnown(pc[w], my[w]), my[w].op = "unmount",
           Cleanup, faults' = 0
    PROVE  RuleEffect(w)
  <1>0. /\ my[w].op \in NodeCall /\ pc[w] \in UnmountLabel /\ my[w].id \in FileSystemID /\ my[w].pod \in Pod
        /\ pods[my[w].pod] # "absent" /\ my[w].id \in fss /\ my[w].node \in Node
        /\ Uses[my[w].pod] = <<my[w].obj, my[w].node>>
    BY PodFacts, Handlers, Zenon DEF NodeCall, Inv, CallInv, Place
  <1>d. Unmount(w) \/ cleanupNFSPerms(w) \/ DropExport(w) \/ DropRule(w)
    BY <1>0, Zenon DEF NodeStep, GetExportPath, UpdateExport, AddRule, CreateExport, Mount, UnmountLabel
  <1>n. my[w].node \in rules[my[w].id] => export[my[w].id] # NoID
    BY <1>0, Zenon DEF Inv, ArrayInv
  <1>i. ASSUME pc'[w] \notin Dropping
        PROVE  RulesKnown(pc[w], my[w])'
    BY <1>i, NextLabel, RulesUnknown, Zenon DEF Place, UnmountLabel, Updating, Dropping
  <1>1. CASE Unmount(w)
    <2>1. Goto(w, "cleanup", my[w])
      <3>1. PICK out \in Outcome : /\ Charge("Unmount", out)
                                   /\ Ok(out) => Goto(w, "cleanup", my[w])
        BY <1>1, Zenon DEF Unmount
      <3>2. Ok(out)
        BY <3>1, NoFault, Zenon DEF Ok
      <3> QED
        BY <3>1, <3>2, Zenon
    <2>2. pc'[w] = "cleanup" /\ pods' = pods
      BY <2>1, GotoLabel, Zenon
    <2>3. rules' = rules
      BY <1>1, Zenon DEF Unmount, array
    <2> QED
      BY <1>0, <1>i, <2>2, <2>3, Zenon DEF RuleEffect, Dropping
  <1>2. CASE cleanupNFSPerms(w)
    <2> DEFINE clean == /\ my[w].id \in fss /\ export[my[w].id] # NoID /\ Unused(w)
                        /\ my[w].node \in rules[my[w].id]
               l == IF rules[my[w].id] = {my[w].node} THEN "dropExport" ELSE "dropRule"
               m == [my[w] EXCEPT !.exp = export[my[w].id], !.old = rules[my[w].id]]
    <2>1. (~clean /\ ReturnPod(w, "absent")) \/ Goto(w, l, m)
      BY <1>2, NoFault, Zenon DEF cleanupNFSPerms
    <2>2. m.old = rules[my[w].id] /\ m.exp = export[my[w].id] /\ m.id = my[w].id /\ l \in Dropping
      BY <1>0, PodFacts, Zenon DEF CallType, Dropping
    <2>3. rules' = rules /\ export' = export
      BY <1>2, Zenon DEF cleanupNFSPerms, array
    <2>4. CASE ~clean /\ ReturnPod(w, "absent")
      <3>1. pc'[w] = "idle"
        BY <2>4, GotoLabel, Zenon
      <3>2. my[w].node \in rules[my[w].id] => \E p \in mounted : Uses[p] = Uses[my[w].pod]
        BY <1>0, <1>n, <2>4, Zenon DEF Unused
      <3>3. my[w].pod \notin mounted
        BY <1>0, <1>2, PodFacts, Zenon DEF cleanupNFSPerms, PodCallInv
      <3> QED
        BY <1>0, <1>i, <2>3, <3>1, <3>2, <3>3, Zenon DEF RuleEffect, Own, Dropping
    <2>5. CASE Goto(w, l, m)
      <3> HIDE DEF l, m
      <3>1. pc'[w] = l /\ my'[w] = m /\ pods' = pods
        BY <2>5, GotoLabel, Zenon
      <3>2. RulesKnown(pc[w], my[w])'
        BY <2>2, <2>3, <3>1, Zenon DEF RulesKnown, Updating, Dropping
      <3> QED
        BY <1>0, <2>3, <3>1, <3>2, Zenon DEF RuleEffect
    <2> QED
      BY <2>1, <2>4, <2>5, Zenon
  <1>3. CASE DropExport(w)
    <2>1. pc'[w] = "idle"
      BY <1>3, GotoLabel, Zenon DEF DropExport
    <2>2. ASSUME NodesOwn(my[w].obj)
          PROVE  rules'[my[w].id] \subseteq rules[my[w].id] /\ my[w].node \notin rules'[my[w].id]
      <3>1. my[w].exp = export[my[w].id]
        BY <1>3, <2>2, Zenon DEF DropExport, RulesKnown, Updating, Dropping, NodesOwn
      <3>2. IF Exported(my[w].exp) # {} THEN SetExport(my[w].id, NoID, {}) ELSE UNCHANGED array
        BY <1>3, NoFault, Zenon DEF DropExport, Done
      <3>3. CASE SetExport(my[w].id, NoID, {})
        BY <1>0, <3>3, Zenon DEF SetExport, Inv, TypeOK, ArrayOK
      <3>4. CASE Exported(my[w].exp) = {} /\ UNCHANGED array
        BY <1>0, <1>n, <3>1, <3>4, Zenon DEF Exported, array
      <3> QED
        BY <3>2, <3>3, <3>4, Zenon
    <2> QED
      BY <1>0, <1>i, <2>1, <2>2, Zenon DEF RuleEffect, Own, Dropping
  <1>4. CASE DropRule(w)
    <2>1. pc'[w] = "idle"
      BY <1>4, GotoLabel, Zenon DEF DropRule
    <2>2. ASSUME NodesOwn(my[w].obj)
          PROVE  rules'[my[w].id] \subseteq rules[my[w].id] /\ my[w].node \notin rules'[my[w].id]
      <3>1. my[w].exp = export[my[w].id] /\ my[w].old = rules[my[w].id]
        BY <1>4, <2>2, Zenon DEF DropRule, RulesKnown, Updating, Dropping, NodesOwn
      <3>2. PutRules(w, my[w].old \ {my[w].node})
        BY <1>4, NoFault, Zenon DEF DropRule, Done
      <3> QED
        BY <1>0, <1>n, <3>1, <3>2, Zenon DEF PutRules, Exported
    <2> QED
      BY <1>0, <1>i, <2>1, <2>2, Zenon DEF RuleEffect, Own, Dropping
  <1> QED
    BY <1>d, <1>1, <1>2, <1>3, <1>4, Zenon

\* A step that touches neither rules nor filesystems and lets no pod end.
LEMMA CalmKeeps ==
    ASSUME Inv, UNCHANGED <<fss, name, export, rules, handle>>,
           \A o \in Object : phase'[o] \in {phase[o], "deleting"},
           \A p \in Pod : pods[p] # "absent" => pods'[p] # "absent",
           \A u \in Worker : \/ pc'[u] = pc[u] /\ my'[u] = my[u]
                             \/ pc'[u] \notin {"export", "addNode"} \cup Updating,
           Justified, \A u \in Worker : RulesKnown(pc[u], my[u])
    PROVE  Justified' /\ \A u \in Worker : RulesKnown(pc[u], my[u])'
  <1>1. \A u \in Worker : RulesKnown(pc[u], my[u])'
    BY Zenon DEF RulesKnown
  <1>2. ASSUME NEW v \in Volume, NEW n \in Node, NodesOwn(v), phase'[v] = "bound", n \in rules'[handle'[v]]
        PROVE  \E p \in Pod : Uses[p] = <<v, n>> /\ pods'[p] # "absent"
    <2>1. phase[v] = "bound"
      BY <1>2, Zenon DEF Object
    <2>2. n \in rules[handle[v]]
      BY <1>2, Zenon
    <2>3. \E p \in Pod : Uses[p] = <<v, n>> /\ pods[p] # "absent"
      BY <1>2, <2>1, <2>2, Zenon DEF Justified
    <2> QED
      BY <2>3, Zenon
  <1>3. ASSUME NEW f \in fss', NodesOwn(name'[f]), phase'[name'[f]] = "unbound"
        PROVE  rules'[f] = {}
    BY <1>3, Zenon DEF Justified, NodesOwn, Object
  <1> QED
    BY <1>1, <1>2, <1>3, Zenon DEF Justified, NodesOwn

\* The steps of the handlers.
LEMMA StepClean ==
    ASSUME Inv, "create" \notin Overlap, NEW w \in Worker, Step(w), CleanInv
    PROVE  CleanInv'
  <1> SUFFICES ASSUME Cleanup, faults' = 0
               PROVE  Justified' /\ \A u \in Worker : RulesKnown(pc[u], my[u])'
    BY Zenon DEF CleanInv
  <1>f. faults = 0
    <2>1. CASE faults' = faults
      BY <2>1, Zenon
    <2>2. CASE faults' # faults
      BY <2>2, NoFault, Zenon DEF Step, CreateStep, DeleteStep, PublishStep, NodeStep, GetFileSystemByName,
         ExistingVolume, CreateFileSystem, GetSource, CreateFileSystemSnapshot, createExportPath, AddMetadata,
         UndoExport, UndoFileSystem, GetFileSystemByID, GetFileSystemsByParentID, GetExports, DeleteExport,
         DeleteMetadata, DeleteFileSystem, DeleteParentFileSystem, GetExportByID, AddNodeInExport,
         DeleteExportRule, GetExportPath, UpdateExport, AddRule, CreateExport, Mount, Unmount,
         cleanupNFSPerms, DropExport, DropRule
    <2> QED
      BY <2>1, <2>2, Zenon
  <1>0. Justified /\ \A u \in Worker : RulesKnown(pc[u], my[u])
    BY <1>f, Zenon DEF CleanInv
  <1>1. CASE CreateStep(w)
    BY <1>0, <1>1, CreateStepEffect, CreateRules, RuleEffectKeeps, Zenon
  <1>2. CASE DeleteStep(w)
    <2>1. my[w].op = "delete"
      BY <1>2, Handlers, Zenon DEF DeleteStep, GetFileSystemByID, GetFileSystemsByParentID, GetExports, DeleteExport,
         DeleteMetadata, DeleteFileSystem, DeleteParentFileSystem, DeleteLabel
    <2> QED
      BY <1>0, <1>2, <2>1, DeleteStepEffect, DeleteRules, RuleEffectKeeps, Zenon
  <1>3. CASE PublishStep(w)
    <2>1. Effect(w) \/ Die(ControllerWorkers)
      BY <1>3, GetExportByIDStep, AddNodeInExportStep, DeleteExportRuleStep, Zenon DEF PublishStep
    <2>2. CASE Effect(w)
      BY <1>0, <1>3, <2>2, PublishRules, RuleEffectKeeps, Zenon
    <2>3. CASE Die(ControllerWorkers)
      <3>1. UNCHANGED <<fss, name, export, rules, handle, phase, pods>>
        BY <2>3, Zenon DEF Die, array, k8s
      <3>2. \A u \in Worker : (pc'[u] = pc[u] /\ my'[u] = my[u]) \/ pc'[u] = "idle"
        BY <2>3, Zenon DEF Die
      <3> QED
        BY <1>0, <3>1, <3>2, CalmKeeps, Zenon DEF Updating, Dropping
    <2> QED
      BY <2>1, <2>2, <2>3, Zenon
  <1>4. CASE NodeStep(w)
    <2>1. my[w].op \in NodeCall
      BY <1>4, Handlers, Zenon DEF NodeStep, GetExportPath, UpdateExport, AddRule, CreateExport, Mount, Unmount,
         cleanupNFSPerms, DropExport, DropRule, MountLabel, UnmountLabel, NodeCall
    <2>2. Effect(w)
      BY <1>4, GetExportPathStep, UpdateExportStep, AddRuleStep, CreateExportStep, MountStep, UnmountStep,
         cleanupNFSPermsStep, DropExportStep, DropRuleStep DEF NodeStep
    <2>3. RuleEffect(w)
      BY <1>0, <1>4, <2>1, <2>2, MountRules, UnmountRules, Zenon DEF NodeCall
    <2> QED
      BY <1>0, <2>2, <2>3, RuleEffectKeeps, Zenon
  <1> QED
    BY <1>1, <1>2, <1>3, <1>4, Zenon DEF Step

\* A call that starts.
LEMMA StartClean ==
    ASSUME Inv, CleanInv, NEW w \in Worker,
           NEW l \in {"byName", "get", "publish", "unpublish", "fsName", "mount", "unmount"}, NEW m,
           pc' = [pc EXCEPT ![w] = l], my' = [my EXCEPT ![w] = m],
           UNCHANGED <<array, handle, faults>>,
           \A o \in Object : phase'[o] \in {phase[o], "deleting"},
           \A p \in Pod : pods[p] # "absent" => pods'[p] # "absent"
    PROVE  CleanInv'
  <1>1. \A u \in Worker : \/ pc'[u] = pc[u] /\ my'[u] = my[u]
                          \/ pc'[u] \notin {"export", "addNode"} \cup Updating
    BY Zenon DEF Inv, TypeOK, ProcessOK, Updating, Dropping
  <1>2. UNCHANGED <<fss, name, export, rules, handle>>
    BY Zenon DEF array
  <1> QED
    BY <1>1, <1>2, CalmKeeps, Zenon DEF CleanInv

\* Every step.
LEMMA NextClean ==
    ASSUME Inv, "create" \notin Overlap, CleanInv, [Next]_vars
    PROVE  CleanInv'
  <1>1. ASSUME NEW w \in Worker, NEW o \in Object, StartCreate(w, o)
        PROVE  CleanInv'
    <2>1. /\ pc' = [pc EXCEPT ![w] = "byName"]
          /\ my' = [my EXCEPT ![w] = Call("create", o, NoNode, NoPod, NoID)]
          /\ UNCHANGED <<array, handle, faults>> /\ phase' = phase /\ pods' = pods
      BY <1>1, Zenon DEF StartCreate, Goto, k8s
    <2> QED
      BY <2>1, StartClean, Zenon
  <1>2. ASSUME NEW w \in Worker, NEW o \in Object, StartDelete(w, o)
        PROVE  CleanInv'
    <2>1. /\ pc' = [pc EXCEPT ![w] = "get"]
          /\ my' = [my EXCEPT ![w] = Call("delete", o, NoNode, NoPod, handle[o])]
          /\ UNCHANGED <<array, handle, faults>> /\ pods' = pods
      BY <1>2, Zenon DEF StartDelete
    <2>2. \A x \in Object : phase'[x] \in {phase[x], "deleting"}
      BY <1>2, Zenon DEF StartDelete, Inv, TypeOK, KubernetesOK
    <2> QED
      BY <2>1, <2>2, StartClean, Zenon
  <1>3. ASSUME NEW w \in Worker, NEW v \in Volume, NEW n \in Node, StartAttach(w, v, n) \/ StartDetach(w, v, n)
        PROVE  CleanInv'
    <2>1. /\ \E l \in {"publish", "unpublish"} : pc' = [pc EXCEPT ![w] = l]
          /\ \E m : my' = [my EXCEPT ![w] = m]
          /\ UNCHANGED <<array, handle, faults>> /\ phase' = phase /\ pods' = pods
      BY <1>3, Zenon DEF StartAttach, StartDetach
    <2>2. PICK l \in {"publish", "unpublish"} : pc' = [pc EXCEPT ![w] = l]
      BY <2>1, Zenon
    <2>3. PICK m : my' = [my EXCEPT ![w] = m]
      BY <2>1, Zenon
    <2> QED
      BY <2>1, <2>2, <2>3, StartClean, Zenon
  <1>4. ASSUME NEW w \in Worker, NEW p \in Pod, StartMount(w, p) \/ StartUnmount(w, p)
        PROVE  CleanInv'
    <2>1. /\ \E l \in {"fsName", "mount", "unmount"} : pc' = [pc EXCEPT ![w] = l]
          /\ \E m : my' = [my EXCEPT ![w] = m]
          /\ \E s \in {"starting", "stopping"} : pods' = [pods EXCEPT ![p] = s]
          /\ UNCHANGED <<array, handle, faults>> /\ phase' = phase
      BY <1>4, Zenon DEF StartMount, StartUnmount, StartPod
    <2>2. PICK l \in {"fsName", "mount", "unmount"} : pc' = [pc EXCEPT ![w] = l]
      BY <2>1, Zenon
    <2>3. PICK m : my' = [my EXCEPT ![w] = m]
      BY <2>1, Zenon
    <2>4. \A q \in Pod : pods[q] # "absent" => pods'[q] # "absent"
      BY <2>1, Zenon DEF Inv, TypeOK, KubernetesOK
    <2> QED
      BY <2>1, <2>2, <2>3, <2>4, StartClean, Zenon
  <1>5. ASSUME NEW w \in Worker, Step(w)
        PROVE  CleanInv'
    BY <1>5, StepClean, Zenon
  <1>6. ASSUME UNCHANGED <<fss, name, export, rules, k8s, pc, my, faults>>
        PROVE  CleanInv'
    <2>1. UNCHANGED <<fss, name, export, rules, handle>> /\ phase' = phase /\ pods' = pods
      BY <1>6, Zenon DEF k8s
    <2> QED
      BY <1>6, <2>1, CalmKeeps, Zenon DEF CleanInv
  <1>7. ASSUME NEW ws, Crash(ws)
        PROVE  CleanInv'
    <2>1. faults \in Nat
      BY Zenon DEF Inv, TypeOK
    <2>2. faults' = faults + 1
      BY <1>7, Zenon DEF Crash, Fault
    <2>3. faults' # 0
      BY <2>1, <2>2
    <2> QED
      BY <2>3, Zenon DEF CleanInv
  <1>8. CASE \E f \in FileSystemID : LockExpires(f)
    BY <1>6, <1>8, Zenon DEF LockExpires
  <1>9. CASE UNCHANGED vars
    BY <1>6, <1>9, Zenon DEF vars, array
  <1> QED
    BY <1>1, <1>2, <1>3, <1>4, <1>5, <1>7, <1>8, <1>9, Zenon DEF Next

\* Initially there are no filesystems and no rules.
LEMMA InitClean == Init => CleanInv
  <1> SUFFICES ASSUME Init
               PROVE  Justified /\ \A w \in Worker : RulesKnown(pc[w], my[w])
    BY Zenon DEF CleanInv
  <1>1. Justified
    BY Zenon DEF Init, Justified, Object
  <1>2. \A w \in Worker : RulesKnown(pc[w], my[w])
    BY Zenon DEF Init, RulesKnown, Updating, Dropping
  <1> QED
    BY <1>1, <1>2, Zenon

\* RulesCleaned: as long as no call failed, cleanupNFSPerms leaves no rule for a
\* node that has no pod with the volume any more: not when the cleanup of one
\* pod and the mount of the next one follow each other, not when the volume
\* moves from node to node, and not by what a mount read before.
THEOREM Cleaned ==
    ASSUME "create" \notin Overlap
    PROVE  Spec => []RulesCleaned
  <1>1. Inv /\ CleanInv /\ [Next]_vars => Inv' /\ CleanInv'
    BY NextInv, NextClean, Zenon
  <1>2. CleanInv => RulesCleaned
    BY Zenon DEF CleanInv, Justified, NodesOwn, RulesCleaned
  <1> QED
    BY InitInv, InitClean, <1>1, <1>2, PTL DEF Spec
=============================================================================
