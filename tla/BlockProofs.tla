---------------------------- MODULE BlockProofs ----------------------------
(***************************************************************************)
(* Proofs about block volumes, snapshots and clones, for every value of    *)
(* the constants: any family of volumes, any number of handlers, any       *)
(* faults.                                                                 *)
(*                                                                         *)
(* Served says that no delete reaches a volume in use.  Its inductive      *)
(* invariant, ServedInv, says that marks and delete handlers only ever     *)
(* concern volumes whose object Kubernetes asked to delete, and that       *)
(* handles and creating handlers name volumes of their own object.         *)
(*                                                                         *)
(* LocksRespected says that no snapshot is deleted while it is locked.     *)
(***************************************************************************)
EXTENDS BlockVolume, TLAPS

USE DEF Call, NoCall

CallType ==
    [op : {"none", "create", "delete"}, obj : Object \cup {NoObject}, id : ID, up : ID]

\* A step of w leaves the other workers alone.
StepOf(w) == \A u \in Worker \ {w} : pc'[u] = pc[u] /\ my'[u] = my[u]

\* What a step may do to the array: IDs keep their names, only volumes of
\* deleted objects go away or are marked.
ArrayStep ==
    /\ used \subseteq used' /\ vols' \subseteq used' /\ marked' \subseteq used
    /\ \A i \in used : name'[i] = name[i]
    /\ \A i \in vols \ vols' : Doomed(i)
    /\ \A i \in marked' \ marked : Doomed(i)

\* What a step may do to Kubernetes objects: an unbound one may be bound to a
\* volume of its own, and handles never change.
KubernetesStep ==
    \A o \in Object :
        /\ phase[o] \in Deleted => phase'[o] \in Deleted
        /\ phase[o] = "bound" => phase'[o] \in {"bound"} \cup Deleted
        /\ phase[o] # "unbound" => handle'[o] = handle[o]
        /\ phase[o] = "unbound" =>
            \/ phase'[o] = "unbound" /\ handle'[o] = handle[o]
            \/ /\ phase'[o] = "bound"
               /\ handle'[o] \in vols' /\ name'[handle'[o]] = o

NextWorkerInv(w) ==
    /\ pc'[w] # "idle" => my'[w].obj \in Object
    /\ pc'[w] \in DeleteLabel =>
        /\ phase'[my'[w].obj] \in Deleted /\ my'[w].id \in used'
        /\ name'[my'[w].id] \in Object /\ phase'[name'[my'[w].id]] \in Deleted
    /\ pc'[w] \in {"confirm", "promote", "tag"} =>
        /\ my'[w].id \in used' /\ name'[my'[w].id] = my'[w].obj
        /\ phase'[my'[w].obj] = "unbound" => my'[w].id \in vols'

\* A step with these effects keeps the invariant of the other workers.
LEMMA OthersKept ==
    ASSUME ServedInv, TypeOK', ArrayStep, KubernetesStep,
           NEW u \in Worker, pc'[u] = pc[u], my'[u] = my[u]
    PROVE  NextWorkerInv(u)
  <1>1. WorkerInv(u)
    BY Zenon DEF ServedInv
  <1>2. ASSUME pc[u] \in DeleteLabel
        PROVE  /\ phase'[my[u].obj] \in Deleted /\ my[u].id \in used'
               /\ name'[my[u].id] \in Object /\ phase'[name'[my[u].id]] \in Deleted
    BY <1>1, <1>2, Zenon DEF WorkerInv, Doomed, ArrayStep, KubernetesStep, DeleteLabel
  <1>3. ASSUME pc[u] \in {"confirm", "promote", "tag"}
        PROVE  /\ my[u].id \in used' /\ name'[my[u].id] = my[u].obj
               /\ phase'[my[u].obj] = "unbound" => my[u].id \in vols'
    <2>1. my[u].obj \in Object /\ my[u].id \in used /\ name[my[u].id] = my[u].obj
      BY <1>1, <1>3, Zenon DEF WorkerInv
    <2>2. ASSUME phase'[my[u].obj] = "unbound" PROVE my[u].id \in vols'
      <3>1. phase[my[u].obj] = "unbound"
        BY <2>1, <2>2 DEF KubernetesStep, Deleted, ServedInv, TypeOK, KubernetesOK
      <3>2. my[u].id \in vols /\ ~Doomed(my[u].id)
        BY <1>1, <1>3, <2>1, <3>1, Zenon DEF WorkerInv, Doomed, Deleted
      <3> QED
        BY <3>2, Zenon DEF ArrayStep
    <2> QED
      BY <2>1, <2>2, Zenon DEF ArrayStep
  <1> QED
    BY <1>1, <1>2, <1>3, Zenon DEF NextWorkerInv, WorkerInv

\* A step with these effects keeps the whole invariant.
LEMMA StepKeeps ==
    ASSUME ServedInv, TypeOK', ArrayStep, KubernetesStep,
           NEW w \in Worker, StepOf(w), NextWorkerInv(w)
    PROVE  ServedInv'
  <1>1. ArrayInv'
    BY Zenon DEF ServedInv, ArrayInv, ArrayStep, KubernetesStep, Doomed
  <1>2. HandleInv'
    BY DEF ServedInv, HandleInv, ArrayStep, KubernetesStep, Deleted, TypeOK, KubernetesOK
  <1>3. \A u \in Worker : NextWorkerInv(u)
    BY OthersKept, Zenon DEF StepOf
  <1>4. (\A u \in Worker : WorkerInv(u))'
    BY <1>3, Zenon DEF NextWorkerInv, WorkerInv, Doomed
  <1>5. BoundServed'
    <2> SUFFICES ASSUME NEW o \in Object, phase'[o] = "bound" PROVE handle'[o] \in vols'
      BY Zenon DEF BoundServed
    <2>1. CASE phase[o] = "bound"
      <3>1. handle[o] \in vols /\ ~Doomed(handle[o])
        BY <2>1, Zenon DEF ServedInv, BoundServed, HandleInv, Doomed, Deleted
      <3> QED
        BY <2>1, <3>1, Zenon DEF ArrayStep, KubernetesStep
    <2>2. CASE phase[o] # "bound"
      BY <2>2, Zenon DEF KubernetesStep, Deleted, ServedInv, TypeOK, KubernetesOK
    <2> QED
      BY <2>1, <2>2, Zenon
  <1> QED
    BY <1>1, <1>2, <1>4, <1>5, Zenon DEF ServedInv

-----------------------------------------------------------------------------
(* How a handler goes on. *)

\* The part of a step of w that is not about the array.
Proceeds(w) ==
    /\ KubernetesOK' /\ ProcessOK'
    /\ KubernetesStep /\ StepOf(w) /\ NextWorkerInv(w)

\* Such a step with an allowed effect on the array keeps the invariant.
LEMMA ProceedsKeeps ==
    ASSUME ServedInv, NEW w \in Worker, Proceeds(w), ArrayOK', ArrayStep, faults' \in Nat
    PROVE  ServedInv'
  BY StepKeeps, Zenon DEF Proceeds, TypeOK

\* The fault budget stays a natural number.
LEMMA FaultType ==
    ASSUME faults \in Nat, NEW c, NEW o, UNCHANGED faults \/ Fault(c) \/ Charge(c, o)
    PROVE  faults' \in Nat
  BY DEF Fault, Charge

\* A step that leaves the array alone.
LEMMA ArraySame ==
    ASSUME ServedInv, UNCHANGED array
    PROVE  ArrayOK' /\ ArrayStep
  BY Zenon DEF ServedInv, TypeOK, ArrayOK, ArrayInv, ArrayStep, array

\* The handler returns an error.
LEMMA ReturnErrorStep ==
    ASSUME ServedInv, NEW w \in Worker, ReturnError(w)
    PROVE  Proceeds(w)
  <1>1. KubernetesOK' /\ KubernetesStep
    BY Zenon DEF ReturnError, k8s, ServedInv, TypeOK, KubernetesOK, KubernetesStep, Deleted
  <1>2. ProcessOK' /\ StepOf(w) /\ pc'[w] = "idle"
    BY Zenon DEF ReturnError, Leave, ServedInv, TypeOK, ProcessOK, StepOf, ID
  <1> QED
    BY <1>1, <1>2, Zenon DEF Proceeds, NextWorkerInv, DeleteLabel

\* The handler returns success for a deleted object.
LEMMA ReturnDeletedStep ==
    ASSUME ServedInv, NEW w \in Worker, ReturnDeleted(w),
           my[w].obj \in Object, phase[my[w].obj] \in Deleted
    PROVE  Proceeds(w)
  <1>1. KubernetesOK' /\ KubernetesStep
    BY Zenon DEF ReturnDeleted, ServedInv, TypeOK, KubernetesOK, KubernetesStep, Deleted
  <1>2. ProcessOK' /\ StepOf(w) /\ pc'[w] = "idle"
    BY Zenon DEF ReturnDeleted, Leave, ServedInv, TypeOK, ProcessOK, StepOf, ID
  <1> QED
    BY <1>1, <1>2, Zenon DEF Proceeds, NextWorkerInv, DeleteLabel

\* The handler returns the ID of a volume that exists for its object, if the
\* object is still unbound.
LEMMA ReturnCreatedStep ==
    ASSUME ServedInv, NEW w \in Worker, NEW i \in VolumeID, ReturnCreated(w, i),
           my[w].obj \in Object,
           phase[my[w].obj] = "unbound" => i \in vols' /\ name'[i] = my[w].obj
    PROVE  Proceeds(w)
  <1> DEFINE o == my[w].obj
  <1>1. KubernetesOK'
    BY Zenon DEF ReturnCreated, ServedInv, TypeOK, KubernetesOK, ID
  <1>2. KubernetesStep
    <2>1. \A p \in Object \ {o} : phase'[p] = phase[p] /\ handle'[p] = handle[p]
      BY Zenon DEF ReturnCreated, ServedInv, TypeOK, KubernetesOK
    <2>2. CASE phase[o] = "unbound"
      <3>1. phase'[o] = "bound" /\ handle'[o] = i
        BY <2>2, Zenon DEF ReturnCreated, ServedInv, TypeOK, KubernetesOK, HandleInv
      <3> QED
        BY <2>1, <2>2, <3>1, Zenon DEF KubernetesStep, Deleted, ServedInv, TypeOK, KubernetesOK
    <2>3. CASE phase[o] # "unbound"
      <3>1. handle[o] \in VolumeID
        BY <2>3, Zenon DEF ServedInv, TypeOK, ArrayOK, HandleInv
      <3>2. phase'[o] = phase[o] /\ handle'[o] = handle[o]
        BY <2>3, <3>1, IDAssumption, Zenon DEF ReturnCreated, ServedInv, TypeOK, KubernetesOK
      <3> QED
        BY <2>1, <2>3, <3>2, Zenon DEF KubernetesStep, Deleted, ServedInv, TypeOK, KubernetesOK
    <2> QED
      BY <2>2, <2>3, Zenon
  <1>3. ProcessOK' /\ StepOf(w) /\ pc'[w] = "idle"
    BY Zenon DEF ReturnCreated, Leave, ServedInv, TypeOK, ProcessOK, StepOf, ID
  <1> QED
    BY <1>1, <1>2, <1>3, Zenon DEF Proceeds, NextWorkerInv, DeleteLabel

\* The handler goes on to the next call.
LEMMA GotoStep ==
    ASSUME ServedInv, NEW w \in Worker, NEW l \in CreateLabel \cup DeleteLabel,
           NEW m \in CallType, Goto(w, l, m), m.obj \in Object,
           l \in DeleteLabel =>
               /\ phase[m.obj] \in Deleted /\ m.id \in used'
               /\ name'[m.id] \in Object /\ phase[name'[m.id]] \in Deleted,
           l \in {"confirm", "promote", "tag"} =>
               /\ m.id \in used' /\ name'[m.id] = m.obj
               /\ phase[m.obj] = "unbound" => m.id \in vols'
    PROVE  Proceeds(w)
  <1>1. KubernetesOK' /\ KubernetesStep /\ phase' = phase
    BY Zenon DEF Goto, k8s, ServedInv, TypeOK, KubernetesOK, KubernetesStep, Deleted
  <1>2. ProcessOK' /\ StepOf(w) /\ pc'[w] = l /\ my'[w] = m
    BY Zenon DEF Goto, ServedInv, TypeOK, ProcessOK, StepOf, CallType
  <1> QED
    BY <1>1, <1>2, Zenon DEF Proceeds, NextWorkerInv

-----------------------------------------------------------------------------
(* What a call does to the array. *)

\* CreateVolume and CreateSnapshotVolume: a new ID, with the object's name.
LEMMA NewVolumeStep ==
    ASSUME ServedInv, NEW i \in VolumeID, NEW o \in Object, NEW p \in ID, NewVolume(i, o, p)
    PROVE  ArrayOK' /\ ArrayStep /\ i \in used' /\ i \in vols' /\ name'[i] = o
  BY Zenon DEF NewVolume, ServedInv, TypeOK, ArrayOK, ArrayInv, ArrayStep

\* PutMetadata marks the volume of a deleted object, DeleteMetadata unmarks.
LEMMA SetMarkedStep ==
    ASSUME ServedInv, NEW i, i \in used => Doomed(i), NEW ms, ms \subseteq used,
           ms \subseteq marked \cup {i}, SetMarked(ms)
    PROVE  ArrayOK' /\ ArrayStep /\ used' = used /\ name' = name
  BY Zenon DEF SetMarked, ServedInv, TypeOK, ArrayOK, ArrayInv, ArrayStep

\* The local variables a handler may go on with.
LEMMA CallTypes ==
    ASSUME NEW m \in CallType, NEW i \in ID
    PROVE  /\ [m EXCEPT !.id = i] \in CallType
           /\ [m EXCEPT !.id = i].obj = m.obj /\ [m EXCEPT !.id = i].id = i
           /\ [m EXCEPT !.up = i] \in CallType
           /\ [m EXCEPT !.up = i].obj = m.obj /\ [m EXCEPT !.up = i].id = m.id
  BY Zenon DEF CallType

-----------------------------------------------------------------------------
(* One lemma per group of actions. *)

\* Every step of CreateVolume and CreateSnapshot keeps the invariant.
LEMMA CreateStepKeeps ==
    ASSUME ServedInv, NEW w \in Worker, CreateStep(w)
    PROVE  ServedInv'
  <1> DEFINE m == my[w]
             o == my[w].obj
  <1>a. /\ m \in CallType /\ m.id \in ID /\ m.up \in ID /\ faults \in Nat
        /\ vols \subseteq VolumeID /\ WorkerInv(w)
    BY Zenon DEF ServedInv, TypeOK, ProcessOK, ArrayOK, CallType
  <1>b. /\ pc[w] # "idle" => o \in Object
        /\ pc[w] \in {"confirm", "promote", "tag"} =>
            /\ m.id \in used /\ name[m.id] = o
            /\ phase[o] = "unbound" => m.id \in vols
    BY <1>a, Zenon DEF WorkerInv
  <1>1. CASE GetVolumeByName(w)
    <2>1. o \in Object
      BY <1>1, <1>b, Zenon DEF GetVolumeByName
    <2>2. ArrayOK' /\ ArrayStep /\ vols' = vols /\ name' = name
      BY <1>1, ArraySame, Zenon DEF GetVolumeByName, array
    <2>3. faults' \in Nat
      BY <1>1, <1>a, FaultType, Zenon DEF GetVolumeByName
    <2>4. Proceeds(w)
      <3>1. CASE Goto(w, "create", m) \/ Goto(w, "source", m)
        BY <3>1, <1>a, <2>1, GotoStep, Zenon DEF CreateLabel, DeleteLabel
      <3>2. ASSUME NEW i \in Named(o), ReturnCreated(w, i) PROVE Proceeds(w)
        BY <3>2, <1>a, <2>1, <2>2, ReturnCreatedStep, Zenon DEF Named
      <3> QED
        BY <1>1, <3>1, <3>2, ReturnErrorStep, Zenon DEF GetVolumeByName
    <2> QED
      BY <2>2, <2>3, <2>4, ProceedsKeeps, Zenon
  <1>2. CASE CreateVolume(w)
    <2>1. o \in Object
      BY <1>2, <1>b, Zenon DEF CreateVolume
    <2>2. CASE ReturnError(w) /\ UNCHANGED array
      <3>1. faults' \in Nat
        BY <1>2, <1>a, FaultType, Zenon DEF CreateVolume
      <3> QED
        BY <2>2, <3>1, ArraySame, ReturnErrorStep, ProceedsKeeps, Zenon
    <2>3. ASSUME NEW i \in VolumeID, NewVolume(i, o, NoID),
                 \/ Goto(w, "confirm", [m EXCEPT !.id = i]) /\ UNCHANGED faults
                 \/ ReturnError(w) /\ Fault("CreateVolume")
          PROVE  ServedInv'
      <3>1. ArrayOK' /\ ArrayStep /\ i \in used' /\ i \in vols' /\ name'[i] = o
        BY <2>1, <2>3, NewVolumeStep, Zenon DEF ID
      <3>2. faults' \in Nat
        BY <2>3, <1>a, FaultType, Zenon
      <3>3. [m EXCEPT !.id = i] \in CallType /\ [m EXCEPT !.id = i].obj = o
            /\ [m EXCEPT !.id = i].id = i
        BY <1>a, CallTypes, Zenon DEF ID
      <3>4. Proceeds(w)
        BY <2>1, <2>3, <3>1, <3>3, ReturnErrorStep, GotoStep, Zenon DEF CreateLabel, DeleteLabel
      <3> QED
        BY <3>1, <3>2, <3>4, ProceedsKeeps, Zenon
    <2> QED
      BY <1>2, <2>2, <2>3, Zenon DEF CreateVolume
  <1>3. CASE GetSource(w)
    <2>1. o \in Object
      BY <1>3, <1>b, Zenon DEF GetSource
    <2>2. ArrayOK' /\ ArrayStep
      BY <1>3, ArraySame, Zenon DEF GetSource
    <2>3. faults' \in Nat
      BY <1>3, <1>a, FaultType, Zenon DEF GetSource
    <2>4. ASSUME NEW i \in vols, Goto(w, "snap", [m EXCEPT !.up = i]) PROVE Proceeds(w)
      <3>1. [m EXCEPT !.up = i] \in CallType /\ [m EXCEPT !.up = i].obj = o
        BY <1>a, CallTypes, Zenon DEF ID
      <3> QED
        BY <2>1, <2>4, <3>1, GotoStep, Zenon DEF CreateLabel, DeleteLabel
    <2>5. Proceeds(w)
      BY <1>3, <2>4, ReturnErrorStep, Zenon DEF GetSource
    <2> QED
      BY <2>2, <2>3, <2>5, ProceedsKeeps, Zenon
  <1>4. CASE CreateSnapshotVolume(w)
    <2>1. o \in Object
      BY <1>4, <1>b, Zenon DEF CreateSnapshotVolume
    <2>2. CASE ReturnError(w) /\ UNCHANGED array
      <3>1. faults' \in Nat
        BY <1>4, <1>a, FaultType, Zenon DEF CreateSnapshotVolume
      <3> QED
        BY <2>2, <3>1, ArraySame, ReturnErrorStep, ProceedsKeeps, Zenon
    <2>3. ASSUME NEW i \in VolumeID, NewVolume(i, o, m.up),
                 \/ ReturnCreated(w, i) /\ UNCHANGED faults
                 \/ Goto(w, "confirm", [m EXCEPT !.id = i]) /\ UNCHANGED faults
                 \/ ReturnError(w) /\ Fault("CreateSnapshotVolume")
          PROVE  ServedInv'
      <3>1. ArrayOK' /\ ArrayStep /\ i \in used' /\ i \in vols' /\ name'[i] = o
        BY <1>a, <2>1, <2>3, NewVolumeStep, Zenon
      <3>2. faults' \in Nat
        BY <2>3, <1>a, FaultType, Zenon
      <3>3. [m EXCEPT !.id = i] \in CallType /\ [m EXCEPT !.id = i].obj = o
            /\ [m EXCEPT !.id = i].id = i
        BY <1>a, CallTypes, Zenon DEF ID
      <3>4. Proceeds(w)
        BY <2>1, <2>3, <3>1, <3>3, ReturnErrorStep, ReturnCreatedStep, GotoStep, Zenon
        DEF CreateLabel, DeleteLabel
      <3> QED
        BY <3>1, <3>2, <3>4, ProceedsKeeps, Zenon
    <2> QED
      BY <1>4, <2>2, <2>3, Zenon DEF CreateSnapshotVolume
  <1>5. CASE ConfirmVolume(w)
    <2>1. o \in Object /\ m.id \in used /\ name[m.id] = o
      BY <1>5, <1>b, Zenon DEF ConfirmVolume
    <2>2. ArrayOK' /\ ArrayStep /\ vols' = vols /\ name' = name /\ used' = used
      BY <1>5, ArraySame, Zenon DEF ConfirmVolume, array
    <2>3. faults' \in Nat
      BY <1>5, <1>a, FaultType, Zenon DEF ConfirmVolume
    <2>4. ASSUME m.id \in vols, Goto(w, "promote", m) \/ Goto(w, "tag", m)
          PROVE  Proceeds(w)
      BY <1>a, <2>1, <2>2, <2>4, GotoStep, Zenon DEF CreateLabel, DeleteLabel
    <2>5. Proceeds(w)
      BY <1>5, <2>4, ReturnErrorStep, Zenon DEF ConfirmVolume
    <2> QED
      BY <2>2, <2>3, <2>5, ProceedsKeeps, Zenon
  <1>6. CASE PromoteSnapshot(w)
    <2>1. o \in Object /\ m.id \in used /\ name[m.id] = o
      BY <1>6, <1>b, Zenon DEF PromoteSnapshot
    <2>2. /\ ArrayOK' /\ ArrayStep /\ vols' = vols /\ name' = name /\ used' = used
      BY <1>6, Zenon DEF PromoteSnapshot, ServedInv, TypeOK, ArrayOK, ArrayInv, ArrayStep, array, ID
    <2>3. faults' \in Nat
      BY <1>6, <1>a, FaultType, Zenon DEF PromoteSnapshot
    <2>4. ASSUME m.id \in vols, Goto(w, "tag", m) PROVE Proceeds(w)
      BY <1>a, <2>1, <2>2, <2>4, GotoStep, Zenon DEF CreateLabel, DeleteLabel
    <2>5. Proceeds(w)
      BY <1>6, <2>4, ReturnErrorStep, Zenon DEF PromoteSnapshot
    <2> QED
      BY <2>2, <2>3, <2>5, ProceedsKeeps, Zenon
  <1>7. CASE PutPVName(w)
    <2>1. o \in Object /\ m.id \in used /\ name[m.id] = o
      BY <1>7, <1>b, Zenon DEF PutPVName
    <2>2. ArrayOK' /\ ArrayStep /\ vols' = vols /\ name' = name
      BY <1>7, ArraySame, Zenon DEF PutPVName, array
    <2>3. faults' \in Nat
      BY <1>7, <1>a, FaultType, Zenon DEF PutPVName
    <2>4. ASSUME m.id \in vols, ReturnCreated(w, m.id) PROVE Proceeds(w)
      BY <1>a, <2>1, <2>2, <2>4, ReturnCreatedStep, Zenon
    <2>5. Proceeds(w)
      BY <1>7, <2>4, ReturnErrorStep, Zenon DEF PutPVName
    <2> QED
      BY <2>2, <2>3, <2>5, ProceedsKeeps, Zenon
  <1> QED
    BY <1>1, <1>2, <1>3, <1>4, <1>5, <1>6, <1>7, Zenon DEF CreateStep

\* Every step of DeleteVolume, the recursion to the parent included, keeps the
\* invariant.
LEMMA DeleteStepKeeps ==
    ASSUME ServedInv, NEW w \in Worker, DeleteStep(w)
    PROVE  ServedInv'
  <1> DEFINE m == my[w]
             o == my[w].obj
             i == my[w].id
  <1>a. /\ m \in CallType /\ m.up \in ID /\ faults \in Nat
        /\ parent \in [VolumeID -> ID] /\ vols \subseteq VolumeID /\ WorkerInv(w)
        /\ vols \subseteq used /\ marked \subseteq used
    BY Zenon DEF ServedInv, TypeOK, ProcessOK, ArrayOK, ArrayInv, CallType
  <1>b. o \in Object /\ phase[o] \in Deleted /\ i \in used /\ Doomed(i)
    BY <1>a, Zenon DEF DeleteStep, WorkerInv, DeleteLabel, GetVolume, GetVolumesByParentID,
                MarkToBeDeleted, DeleteMetadata, DeleteVolume, CheckParent
  <1>c. ReturnError(w) \/ ReturnDeleted(w) => Proceeds(w)
    BY <1>b, ReturnErrorStep, ReturnDeletedStep, Zenon
  <1>d. ASSUME used' = used, name' = name, NEW l \in DeleteLabel, NEW n \in CallType,
               n.obj = o, n.id \in used, Doomed(n.id), Goto(w, l, n)
        PROVE  Proceeds(w)
    <2>1. l \notin {"confirm", "promote", "tag"}
      BY Zenon DEF DeleteLabel
    <2> QED
      BY <1>b, <1>d, <2>1, GotoStep, Zenon DEF Doomed
  <1>e. ASSUME used' = used, name' = name,
               \E l \in {"mark", "delMeta", "delVol", "parentMeta"} : Goto(w, l, m)
        PROVE  Proceeds(w)
    BY <1>a, <1>b, <1>d, <1>e, Zenon DEF DeleteLabel
  <1>1. CASE GetVolume(w)
    <2>1. ArrayOK' /\ ArrayStep /\ used' = used /\ name' = name
      BY <1>1, ArraySame, Zenon DEF GetVolume, array
    <2>2. faults' \in Nat
      BY <1>1, <1>a, FaultType, Zenon DEF GetVolume
    <2>3. ASSUME i \in vols, Goto(w, "children", [m EXCEPT !.up = parent[i]])
          PROVE  Proceeds(w)
      <3>1. /\ [m EXCEPT !.up = parent[i]] \in CallType
            /\ [m EXCEPT !.up = parent[i]].obj = o /\ [m EXCEPT !.up = parent[i]].id = i
        BY <1>a, <2>3, CallTypes, Zenon
      <3> QED
        BY <1>b, <1>d, <2>1, <2>3, <3>1, Zenon DEF DeleteLabel
    <2>4. Proceeds(w)
      BY <1>1, <1>c, <2>3, Zenon DEF GetVolume, AlreadyDeleted
    <2> QED
      BY <2>1, <2>2, <2>4, ProceedsKeeps, Zenon
  <1>2. CASE GetVolumesByParentID(w)
    <2>1. ArrayOK' /\ ArrayStep /\ used' = used /\ name' = name
      BY <1>2, ArraySame, Zenon DEF GetVolumesByParentID, array
    <2>2. faults' \in Nat
      BY <1>2, <1>a, FaultType, Zenon DEF GetVolumesByParentID
    <2>3. Proceeds(w)
      BY <1>2, <1>e, <2>1, Zenon DEF GetVolumesByParentID
    <2> QED
      BY <2>1, <2>2, <2>3, ProceedsKeeps, Zenon
  <1>3. CASE MarkToBeDeleted(w)
    <2>1. ArrayOK' /\ ArrayStep
      BY <1>3, <1>a, <1>b, ArraySame, SetMarkedStep, Zenon DEF MarkToBeDeleted
    <2>2. faults' \in Nat
      BY <1>3, <1>a, FaultType, Zenon DEF MarkToBeDeleted
    <2>3. Proceeds(w)
      BY <1>3, <1>c, Zenon DEF MarkToBeDeleted
    <2> QED
      BY <2>1, <2>2, <2>3, ProceedsKeeps, Zenon
  <1>4. CASE DeleteMetadata(w)
    <2>1. ArrayOK' /\ ArrayStep /\ used' = used /\ name' = name
      BY <1>4, <1>a, <1>b, ArraySame, SetMarkedStep DEF DeleteMetadata, array
    <2>2. faults' \in Nat
      BY <1>4, <1>a, FaultType, Zenon DEF DeleteMetadata
    <2>3. Proceeds(w)
      BY <1>4, <1>c, <1>e, <2>1, Zenon DEF DeleteMetadata
    <2> QED
      BY <2>1, <2>2, <2>3, ProceedsKeeps, Zenon
  <1>5. CASE DeleteVolume(w)
    <2>1. ArrayOK' /\ ArrayStep /\ used' = used /\ name' = name
      BY <1>5, <1>b, Zenon DEF DeleteVolume, ServedInv, TypeOK, ArrayOK, ArrayInv, ArrayStep, array
    <2>2. faults' \in Nat
      BY <1>5, <1>a, FaultType, Zenon DEF DeleteVolume
    <2>3. Proceeds(w)
      BY <1>5, <1>c, <1>e, <2>1, Zenon DEF DeleteVolume
    <2> QED
      BY <2>1, <2>2, <2>3, ProceedsKeeps, Zenon
  <1>6. CASE CheckParent(w)
    <2>1. ArrayOK' /\ ArrayStep /\ used' = used /\ name' = name
      BY <1>6, ArraySame, Zenon DEF CheckParent, array
    <2>2. faults' \in Nat
      BY <1>6, <1>a, FaultType, Zenon DEF CheckParent
    <2>3. ASSUME m.up \in marked, Goto(w, "get", [m EXCEPT !.id = m.up])
          PROVE  Proceeds(w)
      <3>1. Doomed(m.up) /\ m.up \in used
        BY <1>a, <2>3, Zenon DEF ServedInv, ArrayInv
      <3>2. /\ [m EXCEPT !.id = m.up] \in CallType
            /\ [m EXCEPT !.id = m.up].obj = o /\ [m EXCEPT !.id = m.up].id = m.up
        BY <1>a, CallTypes, Zenon
      <3> QED
        BY <1>d, <2>1, <2>3, <3>1, <3>2, Zenon DEF DeleteLabel
    <2>4. Proceeds(w)
      BY <1>6, <1>c, <2>3, Zenon DEF CheckParent, ToBeDeleted
    <2> QED
      BY <2>1, <2>2, <2>4, ProceedsKeeps, Zenon
  <1> QED
    BY <1>1, <1>2, <1>3, <1>4, <1>5, <1>6, Zenon DEF DeleteStep

\* Starting a call, the expiry of a lock and a crash keep the invariant.
LEMMA OtherStepKeeps ==
    ASSUME ServedInv, [Next]_vars, ~ \E w \in Worker : Step(w)
    PROVE  ServedInv'
  <1>1. ASSUME NEW w \in Worker, NEW o \in Object, StartCreate(w, o)
        PROVE  ServedInv'
    <2>1. ArrayOK' /\ ArrayStep /\ faults' \in Nat
      BY <1>1, ArraySame, Zenon DEF StartCreate, ServedInv, TypeOK
    <2>2. Call("create", o, NoID) \in CallType /\ Call("create", o, NoID).obj = o
      BY Zenon DEF CallType, ID
    <2>3. Goto(w, "byName", Call("create", o, NoID))
      BY <1>1, Zenon DEF StartCreate
    <2>4. Proceeds(w)
      BY <2>2, <2>3, GotoStep, Zenon DEF CreateLabel, DeleteLabel
    <2> QED
      BY <2>1, <2>4, ProceedsKeeps, Zenon
  <1>2. ASSUME NEW w \in Worker, NEW o \in Object, StartDelete(w, o)
        PROVE  ServedInv'
    <2>1. ArrayOK' /\ ArrayStep /\ faults' \in Nat /\ used' = used /\ name' = name
      BY <1>2, ArraySame, Zenon DEF StartDelete, ServedInv, TypeOK, array
    <2>2. KubernetesOK' /\ KubernetesStep /\ phase'[o] \in Deleted
      BY <1>2, Zenon DEF StartDelete, ServedInv, TypeOK, KubernetesOK, KubernetesStep, Deleted
    <2>3. Call("delete", o, handle[o]) \in CallType
      <3>1. handle[o] \in ID /\ NoID \in ID
        BY Zenon DEF ServedInv, TypeOK, KubernetesOK, ID
      <3> QED
        BY <3>1, Zenon DEF CallType
    <2>4. /\ ProcessOK' /\ StepOf(w)
          /\ pc'[w] = "get" /\ my'[w] = Call("delete", o, handle[o])
      BY <1>2, <2>3, Zenon
      DEF StartDelete, ServedInv, TypeOK, ProcessOK, StepOf, CallType, DeleteLabel
    <2>5. handle[o] \in used /\ name[handle[o]] = o
      BY <1>2, Zenon DEF StartDelete, ServedInv, HandleInv
    <2>6. my'[w].obj = o /\ my'[w].id = handle[o]
      BY <2>4
    <2>7. NextWorkerInv(w)
      BY <2>1, <2>2, <2>4, <2>5, <2>6, Zenon DEF NextWorkerInv
    <2> QED
      BY <2>1, <2>2, <2>4, <2>7, ProceedsKeeps, Zenon DEF Proceeds
  <1>3. CASE (\E i \in VolumeID : LockExpires(i)) \/ UNCHANGED vars
    <2>1. UNCHANGED <<vols, used, name, parent, marked, phase, handle, pc, my, faults>>
      BY <1>3, Zenon DEF LockExpires, vars, array, k8s
    <2>2. locked' \subseteq locked
      BY <1>3, Zenon DEF LockExpires, vars, array
    <2>3. TypeOK'
      BY <2>1, <2>2, Zenon DEF ServedInv, TypeOK, ArrayOK, KubernetesOK, ProcessOK
    <2> QED
      BY <2>1, <2>3, Zenon
      DEF ServedInv, ArrayInv, HandleInv, WorkerInv, BoundServed, Doomed
  <1>4. CASE Crash
    <2>1. /\ UNCHANGED <<vols, used, name, parent, marked, locked, phase, handle>>
          /\ pc' = [w \in Worker |-> "idle"] /\ my' = [w \in Worker |-> NoCall]
      BY <1>4, Zenon DEF Crash, array, k8s
    <2>2. faults' \in Nat
      BY <1>4, FaultType, Zenon DEF Crash, ServedInv, TypeOK
    <2>3. ProcessOK'
      BY <2>1, Zenon DEF ProcessOK, ID
    <2>4. TypeOK'
      BY <2>1, <2>2, <2>3, Zenon DEF ServedInv, TypeOK, ArrayOK, KubernetesOK
    <2> QED
      BY <2>1, <2>4, Zenon
      DEF ServedInv, ArrayInv, HandleInv, WorkerInv, BoundServed, Doomed, DeleteLabel
  <1> QED
    BY <1>1, <1>2, <1>3, <1>4, Zenon DEF Next

\* ServedInv is an invariant.
LEMMA ServedInvariant == Spec => []ServedInv
  <1>1. Init => ServedInv
    BY SMTT(60) DEF Init, ServedInv, TypeOK, ArrayOK, KubernetesOK, ProcessOK, ArrayInv,
           HandleInv, WorkerInv, BoundServed, DeleteLabel, ID
  <1>2. ServedInv /\ [Next]_vars => ServedInv'
    BY CreateStepKeeps, DeleteStepKeeps, OtherStepKeeps, Zenon DEF Step
  <1> QED
    BY <1>1, <1>2, PTL DEF Spec

\* Every variable keeps its type.
THEOREM BlockTypeCorrect == Spec => []TypeOK
  <1>1. ServedInv => TypeOK
    BY Zenon DEF ServedInv
  <1> QED
    BY <1>1, ServedInvariant, PTL

\* No delete, retried, interrupted or interleaved with others, and no recursion
\* to a parent takes away the volume of a bound PV or snapshot.
THEOREM Served == Spec => []BoundServed
  <1>1. ServedInv => BoundServed
    BY Zenon DEF ServedInv
  <1> QED
    BY <1>1, ServedInvariant, PTL

-----------------------------------------------------------------------------
(* Locked snapshots. *)

\* What a step of w has to do to keep LockInv: lock only a new volume, delete
\* only an unlocked one, and look at the lock before it sets out to delete.
LockStep(w) ==
    /\ StepOf(w)
    /\ locked' \subseteq vols' /\ \A i \in locked : i \in vols'
    /\ \A i \in locked' \ locked : i \notin used
    /\ pc'[w] \in LockRead => my'[w].id \notin locked'

\* Such a step keeps LockInv.
LEMMA LockStepKeeps ==
    ASSUME ServedInv, LockInv, NEW w \in Worker, LockStep(w)
    PROVE  LockInv' /\ \A i \in locked : i \in vols'
  <1>1. ASSUME NEW u \in Worker, u # w, pc'[u] \in LockRead PROVE my'[u].id \notin locked'
    <2>1. pc[u] \in LockRead /\ my'[u].id = my[u].id
      BY <1>1, Zenon DEF LockStep, StepOf
    <2>2. my[u].id \in used /\ my[u].id \notin locked
      BY <2>1, Zenon DEF ServedInv, WorkerInv, LockInv, LockRead, DeleteLabel
    <2> QED
      BY <2>1, <2>2, Zenon DEF LockStep
  <1> QED
    BY <1>1, Zenon DEF LockStep, LockInv

\* What the continuations of a handler do to its own label.
LEMMA Continuations ==
    ASSUME ServedInv, NEW w \in Worker
    PROVE  /\ ReturnError(w) \/ ReturnDeleted(w) => StepOf(w) /\ pc'[w] = "idle"
           /\ \A i : ReturnCreated(w, i) => StepOf(w) /\ pc'[w] = "idle"
           /\ \A l, m : Goto(w, l, m) => StepOf(w) /\ pc'[w] = l /\ my'[w] = m
  BY Zenon DEF ReturnError, ReturnDeleted, ReturnCreated, Leave, Goto, StepOf, ServedInv,
         TypeOK, ProcessOK

\* Every step of CreateVolume and CreateSnapshot keeps LockInv.
LEMMA CreateKeepsLock ==
    ASSUME ServedInv, LockInv, NEW w \in Worker, CreateStep(w)
    PROVE  LockStep(w)
  <1>1. StepOf(w) /\ pc'[w] \notin LockRead
    <2>1. \/ ReturnError(w) \/ \E i : ReturnCreated(w, i)
          \/ \E l \in CreateLabel : \E m : Goto(w, l, m)
      <3>1. CASE GetVolumeByName(w) \/ GetSource(w)
        BY <3>1, Zenon DEF GetVolumeByName, GetSource, CreateLabel
      <3>2. CASE CreateVolume(w) \/ CreateSnapshotVolume(w)
        BY <3>2, Zenon DEF CreateVolume, CreateSnapshotVolume, CreateLabel
      <3>3. CASE ConfirmVolume(w) \/ PromoteSnapshot(w) \/ PutPVName(w)
        BY <3>3, Zenon DEF ConfirmVolume, PromoteSnapshot, PutPVName, CreateLabel
      <3> QED
        BY <3>1, <3>2, <3>3, Zenon DEF CreateStep
    <2> QED
      BY <2>1, Continuations, Zenon DEF LockRead, CreateLabel
  <1>2. CASE vols' = vols /\ locked' = locked
    BY <1>1, <1>2, Zenon DEF LockStep, LockInv
  <1>3. CASE \E i \in VolumeID : \E o, p : NewVolume(i, o, p)
    BY <1>1, <1>3, Zenon DEF LockStep, LockInv, NewVolume
  <1> QED
    BY <1>2, <1>3, Zenon
    DEF CreateStep, GetVolumeByName, CreateVolume, GetSource, CreateSnapshotVolume,
        ConfirmVolume, PromoteSnapshot, PutPVName, array

\* Every step of DeleteVolume keeps LockInv.
LEMMA DeleteKeepsLock ==
    ASSUME ServedInv, LockInv, NEW w \in Worker, DeleteStep(w)
    PROVE  LockStep(w)
  <1>1. locked \subseteq vols /\ (pc[w] \in LockRead => my[w].id \notin locked)
    BY Zenon DEF LockInv
  <1>2. CASE GetVolume(w)
    <2>1. vols' = vols /\ locked' = locked
      BY <1>2, Zenon DEF GetVolume, array
    <2>2. my[w] \in CallType
      BY Zenon DEF ServedInv, TypeOK, ProcessOK, CallType
    <2>3. ASSUME NEW p, ~Locked(my[w].id), Goto(w, "children", [my[w] EXCEPT !.up = p])
          PROVE  StepOf(w) /\ my'[w].id \notin locked
      BY <2>2, <2>3, Continuations DEF Locked, CallType
    <2>4. StepOf(w) /\ (pc'[w] \in LockRead => my'[w].id \notin locked)
      BY <1>2, <2>3, Continuations, Zenon DEF GetVolume, AlreadyDeleted, LockRead
    <2> QED
      BY <1>1, <2>1, <2>4, Zenon DEF LockStep
  <1>3. CASE GetVolumesByParentID(w)
    <2>1. vols' = vols /\ locked' = locked
      BY <1>3, Zenon DEF GetVolumesByParentID, array
    <2>2. StepOf(w) /\ my'[w] = my[w]
      BY <1>3, Continuations, Zenon DEF GetVolumesByParentID
    <2> QED
      BY <1>1, <1>3, <2>1, <2>2, Zenon DEF LockStep, LockRead, GetVolumesByParentID
  <1>4. CASE MarkToBeDeleted(w)
    <2>1. vols' = vols /\ locked' = locked
      BY <1>4, Zenon DEF MarkToBeDeleted, SetMarked, array
    <2>2. StepOf(w) /\ pc'[w] = "idle"
      BY <1>4, Continuations, Zenon DEF MarkToBeDeleted
    <2> QED
      BY <1>1, <2>1, <2>2, Zenon DEF LockStep, LockRead
  <1>5. CASE DeleteMetadata(w)
    <2>1. vols' = vols /\ locked' = locked
      BY <1>5, Zenon DEF DeleteMetadata, SetMarked, array
    <2>2. StepOf(w) /\ (pc'[w] = "idle" \/ my'[w] = my[w])
      BY <1>5, Continuations, Zenon DEF DeleteMetadata
    <2> QED
      BY <1>1, <1>5, <2>1, <2>2, Zenon DEF LockStep, LockRead, DeleteMetadata
  <1>6. CASE DeleteVolume(w)
    <2>1. my[w].id \notin locked /\ pc[w] = "delVol"
      BY <1>1, <1>6, Zenon DEF DeleteVolume, LockRead
    <2>2. /\ vols' = vols \/ vols' = vols \ {my[w].id}
          /\ locked' = locked \/ locked' = locked \ {my[w].id}
      BY <1>6, Zenon DEF DeleteVolume, array
    <2>3. StepOf(w) /\ pc'[w] \in {"idle", "parentMeta"}
      BY <1>6, Continuations, Zenon DEF DeleteVolume
    <2> QED
      BY <1>1, <2>1, <2>2, <2>3, Zenon DEF LockStep, LockRead
  <1>7. CASE CheckParent(w)
    <2>1. vols' = vols /\ locked' = locked
      BY <1>7, Zenon DEF CheckParent, array
    <2>2. StepOf(w) /\ pc'[w] \in {"idle", "get"}
      BY <1>7, Continuations, Zenon DEF CheckParent
    <2> QED
      BY <1>1, <2>1, <2>2, Zenon DEF LockStep, LockRead
  <1> QED
    BY <1>2, <1>3, <1>4, <1>5, <1>6, <1>7, Zenon DEF DeleteStep

\* Every step keeps LockInv and every locked volume.
LEMMA NextKeepsLock ==
    ASSUME ServedInv, LockInv, [Next]_vars
    PROVE  LockInv' /\ \A i \in locked : i \in vols'
  <1>1. ASSUME NEW w \in Worker, Step(w)
        PROVE  LockInv' /\ \A i \in locked : i \in vols'
    BY <1>1, CreateKeepsLock, DeleteKeepsLock, LockStepKeeps, Zenon DEF Step
  <1>2. ASSUME NEW w \in Worker, NEW o \in Object, StartCreate(w, o) \/ StartDelete(w, o)
        PROVE  LockInv' /\ \A i \in locked : i \in vols'
    <2>1. vols' = vols /\ locked' = locked
      BY <1>2, Zenon DEF StartCreate, StartDelete, array
    <2>2. \A u \in Worker :
              (pc'[u] = pc[u] /\ my'[u] = my[u]) \/ pc'[u] \in {"byName", "get"}
      BY <1>2, Zenon DEF StartCreate, StartDelete, Goto, ServedInv, TypeOK, ProcessOK
    <2> QED
      BY <2>1, <2>2, Zenon DEF LockInv, LockRead
  <1>3. CASE (\E i \in VolumeID : LockExpires(i)) \/ UNCHANGED vars
    BY <1>3, Zenon DEF LockExpires, LockInv, vars, array
  <1>4. CASE Crash
    BY <1>4, Zenon DEF Crash, LockInv, LockRead, array
  <1> QED
    BY <1>1, <1>2, <1>3, <1>4, Zenon DEF Next

\* A snapshot is never deleted while it is locked, although DeleteVolume reads
\* the lock several calls before it deletes and holds no mutex.
THEOREM LocksRespected == Spec => LockedKept
  <1>1. Init => LockInv
    BY Zenon DEF Init, LockInv, LockRead
  <1>2. ServedInv /\ LockInv /\ [Next]_vars => LockInv' /\ [\A i \in locked : i \in vols']_vars
    BY NextKeepsLock, Zenon
  <1> QED
    BY <1>1, <1>2, ServedInvariant, PTL DEF Spec, LockedKept
=============================================================================
