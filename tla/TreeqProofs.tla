---------------------------- MODULE TreeqProofs ----------------------------
(***************************************************************************)
(* Proofs about the treeq service, for every value of its constants: any   *)
(* number of handlers, volumes and filesystems, any limits, any faults.    *)
(*                                                                         *)
(* TypeCorrect is the type invariant; it is inductive as it stands.        *)
(* LimitRespected holds for any number of handlers: what makes it so is    *)
(* the create mutex.                                                       *)
(***************************************************************************)
EXTENDS Treeq, FiniteSetTheorems, TLAPS

USE DEF Call, NoCall

CallsFor(v) == {c \in CallType : c.vol = v}

\* A worker without a call has variables of the right type.
LEMMA NoCallType == NoCall \in CallType
  BY DEF CallType

\* A filesystem has finitely many treeqs.
LEMMA TreeqsFinite ==
    \A f : IsFiniteSet(Treeqs(f)) /\ Cardinality(Treeqs(f)) \in Nat
  BY VolumeAssumption, FS_Subset, FS_CardinalityType, Zenon DEF Treeqs

\* Every step keeps the types.
LEMMA NextType == TypeOK /\ [Next]_vars => TypeOK'
  \* CreateTreeq, UpdateTreeq and DeleteTreeq on the array keep its type.
  <1>SetQuotaType.
      ASSUME ArrayOK, NEW f, NEW v \in Volume, NEW c \in Nat, SetQuota(f, v, c)
      PROVE  ArrayOK'
    <2> USE <1>SetQuotaType
    <2>1. quota' \in [FileSystem -> [Volume -> Nat]]
      BY Zenon DEF ArrayOK, SetQuota
    <2>2. allotted' \in [FileSystem -> Int]
      <3>1. CASE f \in FileSystem
        <4>1. allotted[f] + c - quota[f][v] \in Int
          BY <3>1 DEF ArrayOK
        <4> QED
          BY <3>1, <4>1, Zenon DEF ArrayOK, SetQuota
      <3>2. CASE f \notin FileSystem
        <4>1. allotted' = allotted
          BY <3>2, Zenon DEF ArrayOK, SetQuota
        <4> QED
          BY <4>1, Zenon DEF ArrayOK
      <3> QED
        BY <3>1, <3>2, Zenon
    <2>3. data' \subseteq data
      BY Zenon DEF SetQuota
    <2> QED
      BY <2>1, <2>2, <2>3, Zenon DEF ArrayOK, SetQuota

  \* DeleteFileSystem on the array keeps its type.
  <1>RemoveType.
      ASSUME ArrayOK, NEW f, RemoveFileSystem(f)
      PROVE  ArrayOK'
    <2> USE <1>RemoveType
    <2>1. quota' \in [FileSystem -> [Volume -> Nat]]
      BY Zenon DEF ArrayOK, RemoveFileSystem
    <2>2. data' \subseteq data
      BY Zenon DEF RemoveFileSystem
    <2> QED
      BY <2>1, <2>2 DEF ArrayOK, RemoveFileSystem

  \* UpdateFileSystem on the array keeps its type.
  <1>SetSizeType.
      ASSUME ArrayOK, NEW f, NEW s \in Int, SetSize(f, s)
      PROVE  ArrayOK'
    BY <1>SetSizeType, Zenon DEF ArrayOK, SetSize

  \* PutMetadata and DeleteMetadata on the array keep its type.
  <1>SetCountType.
      ASSUME ArrayOK, NEW f, NEW c \in Int, SetCount(f, c)
      PROVE  ArrayOK'
    BY <1>SetCountType, Zenon DEF ArrayOK, SetCount

  \* CreateExport and DeleteExport on the array keep its type.
  <1>SetExportedType.
      ASSUME ArrayOK, NEW S, S \subseteq FileSystem, SetExported(S)
      PROVE  ArrayOK'
    BY <1>SetExportedType, Zenon DEF ArrayOK, SetExported

  \* A worker moves on to a label with new local variables.
  <1>ProcessUpdate.
      ASSUME ProcessOK, NEW w \in Worker, NEW l \in Label, NEW v \in Volume, NEW m \in CallsFor(v),
             pc' = [pc EXCEPT ![w] = l], my' = [my EXCEPT ![w] = m],
             l \in Placing => m.fs \in FileSystem,
             createMutex' \in Worker \cup {Nobody}, deleteMutex' \in Worker \cup {Nobody}
      PROVE  ProcessOK'
    BY <1>ProcessUpdate, Zenon DEF CallsFor, ProcessOK

  \* Going on to the next call keeps the types of the process and of the PVs.
  <1>GotoType.
      ASSUME KubernetesOK, ProcessOK, NEW w \in Worker, NEW l \in Label,
             NEW v \in Volume, NEW m \in CallsFor(v), Goto(w, l, m),
             l \in Placing => m.fs \in FileSystem
      PROVE  KubernetesOK' /\ ProcessOK'
    BY <1>GotoType, Zenon DEF CallsFor, Placing, KubernetesOK, ProcessOK, Goto, k8s, mutexes

  \* Returning from a handler, its deferred Unlock calls included, keeps the
  \* types.
  <1>LeaveType.
      ASSUME ProcessOK, NEW w \in Worker, Leave(w)
      PROVE  ProcessOK'
    BY <1>LeaveType DEF ProcessOK, Leave, CallType, Label, Placing

  \* Returning an error keeps the types.
  <1>ReturnErrorType.
      ASSUME KubernetesOK, ProcessOK, NEW w \in Worker, ReturnError(w)
      PROVE  KubernetesOK' /\ ProcessOK'
    BY <1>ReturnErrorType, <1>LeaveType, Zenon DEF KubernetesOK, ReturnError, k8s

  \* Returning a volume ID keeps the types if it names a filesystem.
  <1>ReturnVolumeType.
      ASSUME KubernetesOK, ProcessOK, NEW w \in Worker, NEW f \in FileSystem \cup {NoFS}, ReturnVolume(w, f)
      PROVE  KubernetesOK' /\ ProcessOK'
    BY <1>ReturnVolumeType, <1>LeaveType, Zenon DEF KubernetesOK, ReturnVolume

  \* Reporting a deletion keeps the types.
  <1>ReturnDeletedType.
      ASSUME KubernetesOK, ProcessOK, NEW w \in Worker, ReturnDeleted(w)
      PROVE  KubernetesOK' /\ ProcessOK'
    BY <1>ReturnDeletedType, <1>LeaveType, Zenon DEF KubernetesOK, ReturnDeleted

  \* The fault budget stays a natural number.
  <1>FaultType.
      ASSUME faults \in Nat, NEW c, NEW o, UNCHANGED faults \/ Fault(c) \/ Charge(c, o)
      PROVE  faults' \in Nat
    BY <1>FaultType DEF Fault, Charge

  \* Updates of a worker's local variables keep their type and the volume.
  <1>NoChangeType.
      ASSUME NEW m \in CallType
      PROVE  m \in CallsFor(m.vol)
    BY <1>NoChangeType, Zenon DEF CallType, CallsFor

  \* The filesystem a worker works on is set.
  <1>FsType.
      ASSUME NEW m \in CallType, NEW f \in FileSystem \cup {NoFS}
      PROVE  [m EXCEPT !.fs = f] \in CallsFor(m.vol)
    BY <1>FsType, Zenon DEF CallType, CallsFor

  \* CreateFileSystem made a filesystem for this call.
  <1>FreshType.
      ASSUME NEW m \in CallType, NEW f \in FileSystem, NEW b \in BOOLEAN, NEW n \in Int
      PROVE  [m EXCEPT !.fs = f, !.fresh = b, !.num = n] \in CallsFor(m.vol)
    BY <1>FreshType, Zenon DEF CallType, CallsFor

  \* The filesystems still to examine are set.
  <1>TodoType.
      ASSUME NEW m \in CallType, NEW S \in SUBSET FileSystem
      PROVE  [m EXCEPT !.todo = S] \in CallsFor(m.vol)
    BY <1>TodoType, Zenon DEF CallType, CallsFor

  \* GetFileSystemsByPool answered with filesystems and sizes.
  <1>ListType.
      ASSUME NEW m \in CallType, NEW S \in SUBSET FileSystem, NEW l \in [FileSystem -> Int]
      PROVE  [m EXCEPT !.todo = S, !.listed = l] \in CallsFor(m.vol)
    BY <1>ListType, Zenon DEF CallType, CallsFor

  \* The count or size being computed is set.
  <1>NumType.
      ASSUME NEW m \in CallType, NEW n \in Int
      PROVE  [m EXCEPT !.num = n] \in CallsFor(m.vol)
    BY <1>NumType, Zenon DEF CallType, CallsFor

  \* CreateTreeqVolume passes its own count to UpdateTreeqCnt.
  <1>CountType.
      ASSUME NEW m \in CallType, NEW n \in Int
      PROVE  [m EXCEPT !.num = n, !.action = "none"] \in CallsFor(m.vol)
    BY <1>CountType, Zenon DEF CallType, CallsFor

  \* The Action of UpdateTreeqCnt is set.
  <1>ActionType.
      ASSUME NEW m \in CallType, NEW a \in {"none", "inc", "dec"}
      PROVE  [m EXCEPT !.action = a] \in CallsFor(m.vol)
    BY <1>ActionType, Zenon DEF CallType, CallsFor

  \* DeleteTreeq failed and the count is to be incremented again.
  <1>GoneType.
      ASSUME NEW m \in CallType, NEW b \in BOOLEAN
      PROVE  [m EXCEPT !.action = "inc", !.gone = b] \in CallsFor(m.vol)
    BY <1>GoneType, Zenon DEF CallType, CallsFor

  \* GetFileSystemByID answered with a size.
  <1>SizeType.
      ASSUME NEW m \in CallType, NEW f \in FileSystem, NEW n \in Int
      PROVE  [m EXCEPT !.listed[f] = n] \in CallsFor(m.vol)
    BY <1>SizeType, Zenon DEF CallType, CallsFor

  \* A step that leaves the array alone keeps its type.
  <1>ArraySame.
      ASSUME ArrayOK, UNCHANGED array
      PROVE  ArrayOK'
    BY <1>ArraySame, Zenon DEF ArrayOK, array

  \* Every step of CreateVolume keeps the types.
  <1>CreateStepType.
      ASSUME TypeOK, NEW w \in Worker, CreateStep(w)
      PROVE  TypeOK'
    <2> USE <1>CreateStepType
    <2> DEFINE m == my[w]
    <2>a. ArrayOK /\ KubernetesOK /\ ProcessOK /\ faults \in Nat
      BY Zenon DEF TypeOK
    <2>b. /\ m \in CallType /\ m.fs \in FileSystem \cup {NoFS} /\ m.todo \in SUBSET FileSystem
          /\ m.cap \in Nat /\ m.num \in Int
          /\ pc[w] # "idle" => m.vol \in Volume
          /\ pc[w] \in Placing => m.fs \in FileSystem
      BY <2>a, Zenon DEF ProcessOK, CallType
    <2>c. live \in SUBSET FileSystem /\ size \in [FileSystem -> Int]
      BY <2>a, Zenon DEF ArrayOK
    <2>d. m \in CallsFor(m.vol)
      BY <2>b, <1>NoChangeType, Zenon
    <2> HIDE DEF m
    <2>1. CASE ListForExist(w)
      <3>1. ArrayOK'
        BY <2>a, <2>b, <2>c, <2>1, <1>ArraySame, Zenon DEF ListForExist
      <3>2. faults' \in Nat
        BY <2>a, <2>1, <1>FaultType, Zenon DEF ListForExist
      <3>3. [m EXCEPT !.todo = live] \in CallsFor(m.vol)
        BY <2>b, <2>c, <1>TodoType, Zenon
      <3> QED
        BY <2>a, <2>b, <2>d, <2>1, <3>1, <3>2, <3>3, <1>ReturnErrorType, <1>GotoType, Zenon
        DEF ListForExist, TypeOK, Label, Placing, m
    <2>2. CASE CheckTreeqName(w)
      <3>1. ArrayOK'
        BY <2>a, <2>b, <2>c, <2>2, <1>ArraySame, Zenon DEF CheckTreeqName
      <3>2. faults' \in Nat
        BY <2>a, <2>2, <1>FaultType, Zenon DEF CheckTreeqName
      <3>3. \A f \in live : [m EXCEPT !.fs = f] \in CallsFor(m.vol)
        BY <2>b, <2>c, <1>FsType, Zenon
      <3> QED
        BY <2>a, <2>b, <2>d, <2>2, <3>1, <3>2, <3>3, <1>GotoType, Zenon
        DEF CheckTreeqName, TypeOK, Label, Placing, m
    <2>3. CASE ExistingVolume(w)
      <3>1. ArrayOK'
        BY <2>a, <2>b, <2>c, <2>3, <1>ArraySame, Zenon DEF ExistingVolume
      <3>2. faults' \in Nat
        BY <2>a, <2>3, <1>FaultType, Zenon DEF ExistingVolume
      <3>3. [m EXCEPT !.fs = NoFS] \in CallsFor(m.vol)
        BY <2>b, <2>c, <1>FsType, Zenon
      <3> QED
        BY <2>a, <2>b, <2>d, <2>3, <3>1, <3>2, <3>3, <1>ReturnErrorType, <1>GotoType, <1>ReturnVolumeType, Zenon
        DEF ExistingVolume, TypeOK, Label, Placing, m
    <2>4. CASE PrepareFails(w)
      <3>1. ArrayOK'
        BY <2>a, <2>b, <2>c, <2>4, <1>ArraySame, Zenon DEF PrepareFails
      <3>2. faults' \in Nat
        BY <2>a, <2>4, <1>FaultType, Zenon DEF PrepareFails
      <3> QED
        BY <2>a, <2>b, <2>d, <2>4, <3>1, <3>2, <1>ReturnErrorType, Zenon
        DEF PrepareFails, TypeOK, Label, Placing, m
    <2>5. CASE GetExpectedFileSystem(w)
      <3>1. ArrayOK'
        BY <2>a, <2>5, <1>ArraySame, Zenon DEF GetExpectedFileSystem
      <3>2. faults' \in Nat
        BY <2>a, <2>5, <1>FaultType, Zenon DEF GetExpectedFileSystem
      <3>3. [m EXCEPT !.todo = live, !.listed = size] \in CallsFor(m.vol)
        BY <2>b, <2>c, <1>ListType, Zenon
      <3>4. CASE ReturnError(w)
        BY <2>a, <3>1, <3>2, <3>4, <1>ReturnErrorType, Zenon DEF TypeOK
      <3>5. CASE ~ReturnError(w)
        <4>1. KubernetesOK'
          BY <2>a, <2>5, <3>5, Zenon DEF GetExpectedFileSystem, KubernetesOK, k8s
        <4>2. ProcessOK'
          <5>1. /\ pc' = [pc EXCEPT ![w] = "scan"]
                /\ my' = [my EXCEPT ![w] = [m EXCEPT !.todo = live, !.listed = size]]
                /\ createMutex' = w /\ deleteMutex' = deleteMutex
            BY <2>5, <3>5, Zenon DEF GetExpectedFileSystem, LockCreate, m
          <5>2. m.vol \in Volume
            BY <2>b, <2>5, Zenon DEF GetExpectedFileSystem
          <5>3. createMutex' \in Worker \cup {Nobody} /\ deleteMutex' \in Worker \cup {Nobody}
            BY <2>a, <5>1, Zenon DEF ProcessOK
          <5>4. "scan" \in Label /\ "scan" \notin Placing
            BY Zenon DEF Label, Placing
          <5> QED
            BY <2>a, <3>3, <5>1, <5>2, <5>3, <5>4, <1>ProcessUpdate, Zenon
        <4> QED
          BY <3>1, <3>2, <4>1, <4>2, Zenon DEF TypeOK
      <3> QED
        BY <3>4, <3>5, Zenon
    <2>s. ASSUME NEW f \in FileSystem, ScanFileSystem(w, f)
          PROVE  TypeOK'
      <3>1. ArrayOK'
        BY <2>a, <2>b, <2>c, <2>s, <1>ArraySame, Zenon DEF ScanFileSystem
      <3>2. faults' \in Nat
        BY <2>a, <2>s, <1>FaultType, Zenon DEF ScanFileSystem
      <3>3. /\ [m EXCEPT !.todo = @ \ {f}] \in CallsFor(m.vol)
            /\ [m EXCEPT !.fs = f, !.num = Cardinality(Treeqs(f))] \in CallsFor(m.vol)
            /\ [m EXCEPT !.fs = f, !.num = Cardinality(Treeqs(f))].fs = f
        <4>1. Cardinality(Treeqs(f)) \in Int
          BY TreeqsFinite
        <4> QED
          BY <2>b, <4>1, Zenon DEF CallsFor, CallType
      <3>4. m.vol \in Volume
        BY <2>b, <2>s, Zenon DEF ScanFileSystem
      <3>5. \/ ReturnError(w)
            \/ Goto(w, "scan", [m EXCEPT !.todo = @ \ {f}])
            \/ Goto(w, "treeq", [m EXCEPT !.fs = f, !.num = Cardinality(Treeqs(f))])
        BY <2>s, Zenon DEF ScanFileSystem, m
      <3>6. {"scan", "treeq"} \subseteq Label /\ "scan" \notin Placing
        BY Zenon DEF Label, Placing
      <3>7. KubernetesOK' /\ ProcessOK'
        <4>1. CASE ReturnError(w)
          BY <2>a, <4>1, <1>ReturnErrorType, Zenon
        <4>2. CASE Goto(w, "scan", [m EXCEPT !.todo = @ \ {f}])
          BY <2>a, <3>3, <3>4, <3>6, <4>2, <1>GotoType, Zenon
        <4>3. CASE Goto(w, "treeq", [m EXCEPT !.fs = f, !.num = Cardinality(Treeqs(f))])
          BY <2>a, <3>3, <3>4, <3>6, <4>3, <1>GotoType, Zenon
        <4> QED
          BY <3>5, <4>1, <4>2, <4>3, Zenon
      <3> QED
        BY <3>1, <3>2, <3>7, Zenon DEF TypeOK
    <2>6. CASE CreateFileSystem(w)
      <3>1. ArrayOK'
        <4>1. CASE UNCHANGED array
          BY <2>a, <4>1, <1>ArraySame, Zenon
        <4>2. CASE ~UNCHANGED array
          <5>1. PICK f \in FileSystem :
                  /\ live' = live \cup {f}
                  /\ used' = used \cup {f}
                  /\ name' = [name EXCEPT ![f] = m.vol]
                  /\ size' = [size EXCEPT ![f] = m.cap]
                  /\ UNCHANGED <<quota, allotted, count, exported, data>>
            BY <2>6, <4>2, Zenon DEF CreateFileSystem, m
          <5>2. m.vol \in Volume
            BY <2>b, <2>6, Zenon DEF CreateFileSystem
          <5>3. name' \in [FileSystem -> Volume \cup {NoVolume}] /\ size' \in [FileSystem -> Int]
            BY <2>a, <2>b, <5>1, <5>2 DEF ArrayOK
          <5> QED
            BY <2>a, <5>1, <5>3, Zenon DEF ArrayOK
        <4> QED
          BY <4>1, <4>2, Zenon
      <3>2. faults' \in Nat
        BY <2>a, <2>6, <1>FaultType, Zenon DEF CreateFileSystem
      <3>3. \A f \in FileSystem :
              /\ [m EXCEPT !.fs = f, !.fresh = TRUE, !.num = 0] \in CallsFor(m.vol)
              /\ [m EXCEPT !.fs = f, !.fresh = TRUE, !.num = 0].fs = f
        <4>1. \A f \in FileSystem : [m EXCEPT !.fs = f, !.fresh = TRUE, !.num = 0].fs = f
          BY <2>b, Zenon DEF CallType
        <4>2. 0 \in Int
          OBVIOUS
        <4> QED
          BY <2>b, <4>1, <4>2, <1>FreshType, Zenon
      <3>4. CASE ReturnError(w)
        BY <2>a, <3>1, <3>2, <3>4, <1>ReturnErrorType, Zenon DEF TypeOK
      <3>5. CASE ~ReturnError(w)
        <4>1. PICK f \in FileSystem :
                Goto(w, IF ExportPermissions THEN "export" ELSE "meta",
                     [m EXCEPT !.fs = f, !.fresh = TRUE, !.num = 0])
          BY <2>6, <3>5, Zenon DEF CreateFileSystem, m
        <4>2. m.vol \in Volume
          BY <2>b, <2>6, Zenon DEF CreateFileSystem
        <4> DEFINE l == IF ExportPermissions THEN "export" ELSE "meta"
                   c == [m EXCEPT !.fs = f, !.fresh = TRUE, !.num = 0]
        <4>3. l \in Label /\ c \in CallsFor(m.vol) /\ c.fs \in FileSystem
          BY <3>3, Zenon DEF Label
        <4>4. Goto(w, l, c)
          BY <4>1, Zenon
        <4> HIDE DEF l, c
        <4> QED
          BY <2>a, <3>1, <3>2, <4>2, <4>3, <4>4, <1>GotoType, Zenon DEF TypeOK
      <3> QED
        BY <3>4, <3>5, Zenon
    <2>7. CASE CreateExportPath(w)
      <3>1. ArrayOK'
        BY <2>a, <2>b, <2>c, <2>7, <1>ArraySame, <1>SetExportedType, Zenon DEF CreateExportPath, ArrayOK, Placing, m
      <3>2. faults' \in Nat
        BY <2>a, <2>7, <1>FaultType, Zenon DEF CreateExportPath
      <3> QED
        BY <2>a, <2>b, <2>d, <2>7, <3>1, <3>2, <1>GotoType, Zenon
        DEF CreateExportPath, TypeOK, Label, Placing, m
    <2>8. CASE AddMetadata(w)
      <3>1. ArrayOK'
        BY <2>a, <2>b, <2>c, <2>8, <1>ArraySame, Zenon DEF AddMetadata
      <3>2. faults' \in Nat
        BY <2>a, <2>8, <1>FaultType, Zenon DEF AddMetadata
      <3> QED
        BY <2>a, <2>b, <2>d, <2>8, <3>1, <3>2, <1>GotoType, Zenon
        DEF AddMetadata, TypeOK, Label, Placing, m
    <2>9. CASE UndoExport(w)
      <3>1. ArrayOK'
        BY <2>a, <2>b, <2>c, <2>9, <1>ArraySame, <1>SetExportedType, Zenon DEF UndoExport, ArrayOK, m
      <3>2. faults' \in Nat
        BY <2>a, <2>9, <1>FaultType, Zenon DEF UndoExport
      <3> QED
        BY <2>a, <2>b, <2>d, <2>9, <3>1, <3>2, <1>GotoType, Zenon
        DEF UndoExport, TypeOK, Label, Placing, m
    <2>10. CASE UndoFileSystem(w)
      <3>1. ArrayOK'
        BY <2>a, <2>b, <2>c, <2>10, <1>ArraySame, <1>RemoveType, Zenon DEF UndoFileSystem
      <3>2. faults' \in Nat
        BY <2>a, <2>10, <1>FaultType, Zenon DEF UndoFileSystem
      <3> QED
        BY <2>a, <2>b, <2>d, <2>10, <3>1, <3>2, <1>ReturnErrorType, Zenon
        DEF UndoFileSystem, TypeOK, Label, Placing, m
    <2>11. CASE CreateTreeq(w)
      <3>1. ArrayOK'
        BY <2>a, <2>b, <2>c, <2>11, <1>ArraySame, <1>SetQuotaType, Zenon DEF CreateTreeq, m
      <3>2. faults' \in Nat
        BY <2>a, <2>11, <1>FaultType, Zenon DEF CreateTreeq, CreateTreeqFailed
      <3>3. [m EXCEPT !.num = @ + 1, !.action = "none"] \in CallsFor(m.vol)
        <4>1. m.num + 1 \in Int
          BY <2>b
        <4> QED
          BY <2>b, <4>1, <1>CountType, Zenon
      <3> QED
        BY <2>a, <2>b, <2>d, <2>11, <3>1, <3>2, <3>3, <1>ReturnErrorType, <1>GotoType, Zenon
        DEF CreateTreeq, TypeOK, Label, Placing, m, CreateTreeqFailed
    <2>12. CASE RevertTreeq(w)
      <3>1. ArrayOK'
        BY <2>a, <2>b, <2>c, <2>12, <1>ArraySame, <1>SetQuotaType, Zenon DEF RevertTreeq, m
      <3>2. faults' \in Nat
        BY <2>a, <2>12, <1>FaultType, Zenon DEF RevertTreeq
      <3> QED
        BY <2>a, <2>b, <2>d, <2>12, <3>1, <3>2, <1>ReturnErrorType, Zenon
        DEF RevertTreeq, TypeOK, Label, Placing, m
    <2>13. CASE GrowFileSystem(w)
      <3>1. ArrayOK'
        BY <2>a, <2>b, <2>c, <2>13, <1>ArraySame, <1>SetSizeType DEF GrowFileSystem, GrownSize, CallType, m
      <3>2. faults' \in Nat
        BY <2>a, <2>13, <1>FaultType, Zenon DEF GrowFileSystem
      <3>3. [m EXCEPT !.action = "dec"] \in CallsFor(m.vol)
        BY <2>b, <2>c, <1>ActionType, Zenon
      <3> QED
        BY <2>a, <2>b, <2>d, <2>13, <3>1, <3>2, <3>3, <1>GotoType, <1>ReturnVolumeType, Zenon
        DEF GrowFileSystem, TypeOK, Label, Placing, m
    <2> QED
      BY <2>1, <2>2, <2>3, <2>4, <2>5, <2>6, <2>7, <2>8, <2>9, <2>10, <2>11, <2>12, <2>13, <2>s, Zenon DEF CreateStep

  \* Every step of UpdateTreeqCnt keeps the types.
  <1>CountStepType.
      ASSUME TypeOK, NEW w \in Worker, CountStep(w)
      PROVE  TypeOK'
    <2> USE <1>CountStepType
    <2> DEFINE m == my[w]
    <2>a. ArrayOK /\ KubernetesOK /\ ProcessOK /\ faults \in Nat
      BY Zenon DEF TypeOK
    <2>b. /\ m \in CallType /\ m.fs \in FileSystem \cup {NoFS} /\ m.todo \in SUBSET FileSystem
          /\ m.cap \in Nat /\ m.num \in Int
          /\ pc[w] # "idle" => m.vol \in Volume
          /\ pc[w] \in Placing => m.fs \in FileSystem
      BY <2>a, Zenon DEF ProcessOK, CallType
    <2>c. live \in SUBSET FileSystem /\ size \in [FileSystem -> Int]
      BY <2>a, Zenon DEF ArrayOK
    <2>d. m \in CallsFor(m.vol)
      BY <2>b, <1>NoChangeType, Zenon
    <2> HIDE DEF m
    <2>1. CASE ReadCount(w)
      <3>1. ArrayOK'
        BY <2>a, <2>b, <2>c, <2>1, <1>ArraySame, Zenon DEF ReadCount
      <3>2. faults' \in Nat
        BY <2>a, <2>1, <1>FaultType, Zenon DEF ReadCount
      <3>3. [m EXCEPT !.num = NewCount(w)] \in CallsFor(m.vol)
        <4>1. NewCount(w) \in Int
          BY TreeqsFinite DEF NewCount
        <4> QED
          BY <2>b, <4>1, <1>NumType, Zenon
      <3> QED
        BY <2>a, <2>b, <2>d, <2>1, <3>1, <3>2, <3>3, <1>ReturnErrorType, <1>GotoType, <1>ReturnVolumeType, <1>ReturnDeletedType
        DEF ReadCount, TypeOK, Label, Placing, m, CountNotWritten
    <2>2. CASE WriteCount(w)
      <3>1. ArrayOK'
        BY <2>a, <2>b, <2>c, <2>2, <1>ArraySame, <1>SetCountType, Zenon DEF WriteCount, m
      <3>2. faults' \in Nat
        BY <2>a, <2>2, <1>FaultType, Zenon DEF WriteCount
      <3>3. m.vol \in Volume
        BY <2>b, <2>2, Zenon DEF WriteCount
      <3>4. \/ ReturnError(w) \/ ReturnVolume(w, m.fs) \/ ReturnDeleted(w)
            \/ \E l \in {"revert", "grow", "remove"} : Goto(w, l, m)
        BY <2>2, Zenon DEF WriteCount, CountNotWritten, CountWritten, m
      <3>5. KubernetesOK' /\ ProcessOK'
        <4>1. CASE ReturnError(w)
          BY <2>a, <4>1, <1>ReturnErrorType, Zenon
        <4>2. CASE ReturnVolume(w, m.fs)
          BY <2>a, <2>b, <4>2, <1>ReturnVolumeType, Zenon
        <4>3. CASE ReturnDeleted(w)
          BY <2>a, <4>3, <1>ReturnDeletedType, Zenon
        <4>4. ASSUME NEW l \in {"revert", "grow", "remove"}, Goto(w, l, m)
              PROVE  KubernetesOK' /\ ProcessOK'
          <5>1. l \in Label /\ l \notin Placing
            BY Zenon DEF Label, Placing
          <5> QED
            BY <2>a, <2>d, <3>3, <4>4, <5>1, <1>GotoType, Zenon
        <4> QED
          BY <3>4, <4>1, <4>2, <4>3, <4>4, Zenon
      <3> QED
        BY <3>1, <3>2, <3>5, Zenon DEF TypeOK
    <2> QED
      BY <2>1, <2>2, Zenon DEF CountStep

  \* Every step of DeleteVolume keeps the types.
  <1>DeleteStepType.
      ASSUME TypeOK, NEW w \in Worker, DeleteStep(w)
      PROVE  TypeOK'
    <2> USE <1>DeleteStepType
    <2> DEFINE m == my[w]
    <2>a. ArrayOK /\ KubernetesOK /\ ProcessOK /\ faults \in Nat
      BY Zenon DEF TypeOK
    <2>b. /\ m \in CallType /\ m.fs \in FileSystem \cup {NoFS} /\ m.todo \in SUBSET FileSystem
          /\ m.cap \in Nat /\ m.num \in Int
          /\ pc[w] # "idle" => m.vol \in Volume
          /\ pc[w] \in Placing => m.fs \in FileSystem
      BY <2>a, Zenon DEF ProcessOK, CallType
    <2>c. live \in SUBSET FileSystem /\ size \in [FileSystem -> Int]
      BY <2>a, Zenon DEF ArrayOK
    <2>d. m \in CallsFor(m.vol)
      BY <2>b, <1>NoChangeType, Zenon
    <2> HIDE DEF m
    <2>1. CASE GetTreeq(w)
      <3>1. ArrayOK'
        BY <2>a, <2>b, <2>c, <2>1, <1>ArraySame, Zenon DEF GetTreeq
      <3>2. faults' \in Nat
        BY <2>a, <2>1, <1>FaultType, Zenon DEF GetTreeq
      <3> QED
        BY <2>a, <2>b, <2>d, <2>1, <3>1, <3>2, <1>ReturnErrorType, <1>GotoType, <1>ReturnDeletedType, Zenon
        DEF GetTreeq, TypeOK, Label, Placing, m
    <2>2. CASE LockDelete(w)
      <3>1. ArrayOK' /\ KubernetesOK' /\ faults' \in Nat
        BY <2>a, <2>2, <1>ArraySame, Zenon DEF LockDelete, KubernetesOK, k8s
      <3>2. [m EXCEPT !.action = "dec"] \in CallsFor(m.vol)
        BY <2>b, <1>ActionType, Zenon
      <3>3. ProcessOK'
        BY <2>a, <2>b, <2>2, <3>2, Zenon DEF LockDelete, ProcessOK, CallsFor, Label, Placing, m
      <3> QED
        BY <3>1, <3>3, Zenon DEF TypeOK
    <2>3. CASE DeleteTreeq(w)
      <3>1. ArrayOK'
        BY <2>a, <2>b, <2>c, <2>3, <1>ArraySame, <1>SetQuotaType, Zenon DEF DeleteTreeq, m
      <3>2. faults' \in Nat
        BY <2>a, <2>3, <1>FaultType, Zenon DEF DeleteTreeq
      <3>3. \A b \in BOOLEAN : [m EXCEPT !.action = "inc", !.gone = b] \in CallsFor(m.vol)
        BY <2>b, <2>c, <1>GoneType, Zenon
      <3> QED
        BY <2>a, <2>b, <2>d, <2>3, <3>1, <3>2, <3>3, <1>ReturnErrorType, <1>GotoType, <1>ReturnDeletedType, Zenon
        DEF DeleteTreeq, TypeOK, Label, Placing, m
    <2>4. CASE DeleteExports(w)
      <3>1. ArrayOK'
        BY <2>a, <2>b, <2>c, <2>4, <1>ArraySame, <1>SetExportedType, Zenon DEF DeleteExports, ArrayOK
      <3>2. faults' \in Nat
        BY <2>a, <2>4, <1>FaultType, Zenon DEF DeleteExports
      <3> QED
        BY <2>a, <2>b, <2>d, <2>4, <3>1, <3>2, <1>ReturnErrorType, <1>GotoType, Zenon
        DEF DeleteExports, TypeOK, Label, Placing, m
    <2>5. CASE DeleteMetadata(w)
      <3>1. ArrayOK'
        <4>1. UNCHANGED array \/ SetCount(my[w].fs, 0)
          BY <2>5, Zenon DEF DeleteMetadata
        <4>2. 0 \in Int
          OBVIOUS
        <4> QED
          BY <2>a, <4>1, <4>2, <1>ArraySame, <1>SetCountType, Zenon
      <3>2. faults' \in Nat
        BY <2>a, <2>5, <1>FaultType, Zenon DEF DeleteMetadata
      <3> QED
        BY <2>a, <2>b, <2>d, <2>5, <3>1, <3>2, <1>ReturnErrorType, <1>GotoType, Zenon
        DEF DeleteMetadata, TypeOK, Label, Placing, m
    <2>6. CASE DeleteFileSystem(w)
      <3>1. ArrayOK'
        BY <2>a, <2>b, <2>c, <2>6, <1>ArraySame, <1>RemoveType, Zenon DEF DeleteFileSystem
      <3>2. faults' \in Nat
        BY <2>a, <2>6, <1>FaultType, Zenon DEF DeleteFileSystem
      <3> QED
        BY <2>a, <2>b, <2>d, <2>6, <3>1, <3>2, <1>ReturnErrorType, <1>ReturnDeletedType, Zenon
        DEF DeleteFileSystem, TypeOK, Label, Placing, m
    <2> QED
      BY <2>1, <2>2, <2>3, <2>4, <2>5, <2>6, Zenon DEF DeleteStep

  \* Every step of ControllerExpandVolume keeps the types.
  <1>ExpandStepType.
      ASSUME TypeOK, NEW w \in Worker, ExpandStep(w)
      PROVE  TypeOK'
    <2> USE <1>ExpandStepType
    <2> DEFINE m == my[w]
    <2>a. ArrayOK /\ KubernetesOK /\ ProcessOK /\ faults \in Nat
      BY Zenon DEF TypeOK
    <2>b. /\ m \in CallType /\ m.fs \in FileSystem \cup {NoFS} /\ m.todo \in SUBSET FileSystem
          /\ m.cap \in Nat /\ m.num \in Int
          /\ pc[w] # "idle" => m.vol \in Volume
          /\ pc[w] \in Placing => m.fs \in FileSystem
      BY <2>a, Zenon DEF ProcessOK, CallType
    <2>c. live \in SUBSET FileSystem /\ size \in [FileSystem -> Int]
      BY <2>a, Zenon DEF ArrayOK
    <2>d. m \in CallsFor(m.vol)
      BY <2>b, <1>NoChangeType, Zenon
    <2> HIDE DEF m
    <2>1. CASE GetFileSystemByID(w)
      <3>1. ArrayOK'
        BY <2>a, <2>b, <2>c, <2>1, <1>ArraySame, Zenon DEF GetFileSystemByID
      <3>2. faults' \in Nat
        BY <2>a, <2>1, <1>FaultType, Zenon DEF GetFileSystemByID
      <3>3. m.fs \in live => [m EXCEPT !.listed[m.fs] = size[m.fs]] \in CallsFor(m.vol)
        BY <2>b, <2>c, <1>SizeType, Zenon
      <3> QED
        BY <2>a, <2>b, <2>d, <2>1, <3>1, <3>2, <3>3, <1>ReturnErrorType, <1>GotoType, Zenon
        DEF GetFileSystemByID, TypeOK, Label, Placing, m
    <2>2. CASE GetHardCapacity(w)
      <3>1. ArrayOK'
        BY <2>a, <2>b, <2>c, <2>2, <1>ArraySame, Zenon DEF GetHardCapacity
      <3>2. faults' \in Nat
        BY <2>a, <2>2, <1>FaultType, Zenon DEF GetHardCapacity
      <3>3. m.fs \in live /\ pc[w] # "idle" => [m EXCEPT !.num = quota[m.fs][m.vol]] \in CallsFor(m.vol)
        <4>1. m.fs \in live /\ pc[w] # "idle" => quota[m.fs][m.vol] \in Int
          BY <2>a, <2>b DEF ArrayOK
        <4> QED
          BY <2>b, <4>1, <1>NumType, Zenon
      <3> QED
        BY <2>a, <2>b, <2>d, <2>2, <3>1, <3>2, <3>3, <1>ReturnErrorType, <1>GotoType, Zenon
        DEF GetHardCapacity, TypeOK, Label, Placing, m
    <2>3. CASE GetTotalTreeqSize(w)
      <3>1. ArrayOK'
        BY <2>a, <2>b, <2>c, <2>3, <1>ArraySame, Zenon DEF GetTotalTreeqSize
      <3>2. faults' \in Nat
        BY <2>a, <2>3, <1>FaultType, Zenon DEF GetTotalTreeqSize
      <3>3. m.fs \in live => [m EXCEPT !.num = allotted[m.fs] + (m.cap - m.num)] \in CallsFor(m.vol)
        <4>1. m.fs \in live => allotted[m.fs] + (m.cap - m.num) \in Int
          BY <2>a, <2>b DEF ArrayOK
        <4> QED
          BY <2>b, <4>1, <1>NumType, Zenon
      <3> QED
        BY <2>a, <2>b, <2>d, <2>3, <3>1, <3>2, <3>3, <1>ReturnErrorType, <1>GotoType, Zenon
        DEF GetTotalTreeqSize, TypeOK, Label, Placing, m
    <2>4. CASE EnlargeFileSystem(w)
      <3>1. ArrayOK'
        BY <2>a, <2>b, <2>c, <2>4, <1>ArraySame, <1>SetSizeType, Zenon DEF EnlargeFileSystem, m
      <3>2. faults' \in Nat
        BY <2>a, <2>4, <1>FaultType, Zenon DEF EnlargeFileSystem
      <3> QED
        BY <2>a, <2>b, <2>d, <2>4, <3>1, <3>2, <1>ReturnErrorType, <1>GotoType, Zenon
        DEF EnlargeFileSystem, TypeOK, Label, Placing, m
    <2>5. CASE UpdateTreeq(w)
      <3>1. ArrayOK'
        BY <2>a, <2>b, <2>c, <2>5, <1>ArraySame, <1>SetQuotaType, Zenon DEF UpdateTreeq, m
      <3>2. faults' \in Nat
        BY <2>a, <2>5, <1>FaultType, Zenon DEF UpdateTreeq
      <3> QED
        BY <2>a, <2>b, <2>d, <2>5, <3>1, <3>2, <1>ReturnErrorType, Zenon
        DEF UpdateTreeq, TypeOK, Label, Placing, m
    <2> QED
      BY <2>1, <2>2, <2>3, <2>4, <2>5, Zenon DEF ExpandStep

  \* The local variables of a call that starts.
  <1>NewCallType.
      ASSUME NEW op \in {"create", "delete", "expand"}, NEW v \in Volume, NEW c \in Nat,
             NEW f \in FileSystem \cup {NoFS}
      PROVE  Call(op, v, c, f) \in CallsFor(v)
    BY <1>NewCallType DEF CallsFor, CallType

  \* Starting a call, writing data and a crash keep the types.
  <1>OtherStepType.
      ASSUME TypeOK, [Next]_vars, ~ \E w \in Worker : Step(w)
      PROVE  TypeOK'
    <2> USE <1>OtherStepType
    <2> HIDE DEF Call
    <2>a. ArrayOK /\ KubernetesOK /\ ProcessOK /\ faults \in Nat
      BY Zenon DEF TypeOK
    <2>1. ASSUME NEW w \in Worker, NEW v \in Volume, StartCreate(w, v)
          PROVE  TypeOK'
      <3>1. Call("create", v, Request[v], NoFS) \in CallsFor(v)
        <4>1. Request[v] \in Nat
          BY CapacityAssumption, Zenon
        <4> QED
          BY <4>1, <1>NewCallType, Zenon
      <3>2. "exist" \in Label /\ "exist" \notin Placing
        BY Zenon DEF Label, Placing
      <3>3. Goto(w, "exist", Call("create", v, Request[v], NoFS)) /\ UNCHANGED <<array, faults>>
        BY <2>1, Zenon DEF StartCreate
      <3>4. KubernetesOK' /\ ProcessOK'
        BY <2>a, <3>1, <3>2, <3>3, <1>GotoType, Zenon
      <3> QED
        BY <2>a, <3>3, <3>4, <1>ArraySame, Zenon DEF TypeOK
    <2>2. ASSUME NEW w \in Worker, NEW v \in Volume, StartDelete(w, v)
          PROVE  TypeOK'
      <3>1. Call("delete", v, 0, handle[v]) \in CallsFor(v)
        <4>1. handle[v] \in FileSystem \cup {NoFS}
          BY <2>a, Zenon DEF KubernetesOK
        <4> QED
          BY <4>1, <1>NewCallType, Zenon
      <3>2. ArrayOK' /\ faults' \in Nat
        BY <2>a, <2>2, <1>ArraySame, Zenon DEF StartDelete
      <3>3. KubernetesOK'
        BY <2>a, <2>2, Zenon DEF StartDelete, KubernetesOK
      <3>4. ProcessOK'
        <4>1. "get" \in Label /\ "get" \notin Placing
          BY Zenon DEF Label, Placing
        <4>2. createMutex' \in Worker \cup {Nobody} /\ deleteMutex' \in Worker \cup {Nobody}
          BY <2>a, <2>2, Zenon DEF StartDelete, ProcessOK, mutexes
        <4> QED
          BY <2>a, <2>2, <3>1, <4>1, <4>2, <1>ProcessUpdate, Zenon DEF StartDelete
      <3> QED
        BY <3>2, <3>3, <3>4, Zenon DEF TypeOK
    <2>3. ASSUME NEW w \in Worker, NEW v \in Volume, NEW c \in Capacity, StartExpand(w, v, c)
          PROVE  TypeOK'
      <3>1. Call("expand", v, c, handle[v]) \in CallsFor(v)
        <4>1. handle[v] \in FileSystem \cup {NoFS} /\ c \in Nat
          BY <2>a, CapacityAssumption, Zenon DEF KubernetesOK
        <4> QED
          BY <4>1, <1>NewCallType, Zenon
      <3>2. "size" \in Label /\ "size" \notin Placing
        BY Zenon DEF Label, Placing
      <3>3. Goto(w, "size", Call("expand", v, c, handle[v])) /\ UNCHANGED <<array, faults>>
        BY <2>3, Zenon DEF StartExpand
      <3>4. KubernetesOK' /\ ProcessOK'
        BY <2>a, <3>1, <3>2, <3>3, <1>GotoType, Zenon
      <3> QED
        BY <2>a, <3>3, <3>4, <1>ArraySame, Zenon DEF TypeOK
    <2>4. ASSUME NEW v \in Volume, WriteData(v)
          PROVE  TypeOK'
      <3>1. handle[v] \in FileSystem
        BY <2>a, <2>4, Zenon DEF WriteData, ArrayOK
      <3>2. ArrayOK'
        BY <2>a, <2>4, <3>1 DEF WriteData, ArrayOK
      <3> QED
        BY <2>a, <2>4, <3>2, Zenon DEF WriteData, TypeOK, KubernetesOK, ProcessOK, k8s, mutexes
    <2>5. CASE Crash
      <3>1. ProcessOK'
        <4>1. "idle" \in Label /\ "idle" \notin Placing
          BY Zenon DEF Label, Placing
        <4> QED
          <5> HIDE DEF NoCall
          <5> QED
            BY <2>5, <4>1, NoCallType, Zenon DEF Crash, ProcessOK
      <3> QED
        BY <2>a, <2>5, <3>1, <1>ArraySame, <1>FaultType, Zenon DEF Crash, TypeOK, KubernetesOK, k8s
    <2>6. CASE UNCHANGED vars
      BY <2>a, <2>6, <1>ArraySame, Zenon DEF vars, TypeOK, KubernetesOK, ProcessOK, k8s, mutexes
    <2> QED
      BY <2>1, <2>2, <2>3, <2>4, <2>5, <2>6, Zenon DEF Next

  <1> QED
    BY <1>CreateStepType, <1>CountStepType, <1>DeleteStepType, <1>ExpandStepType, <1>OtherStepType, Zenon DEF Step

\* The state the program starts in has its types.
LEMMA InitType == Init => TypeOK
  <1> SUFFICES ASSUME Init PROVE TypeOK
    BY Zenon
  <1>1. ArrayOK
    BY DEF Init, ArrayOK
  <1>2. KubernetesOK
    BY Zenon DEF Init, KubernetesOK
  <1>3. "idle" \in Label /\ "idle" \notin Placing
    BY Zenon DEF Label, Placing
  <1>4. ProcessOK
    <2> HIDE DEF NoCall
    <2> QED
      BY <1>3, NoCallType, Zenon DEF Init, ProcessOK
  <1> QED
    BY <1>1, <1>2, <1>4, Zenon DEF TypeOK, Init

\* Every variable keeps its type: for any number of workers, volumes and
\* filesystem IDs, and for any faults.
THEOREM TypeCorrect == Spec => []TypeOK
  <1>1. Init => TypeOK
    BY InitType, Zenon
  <1> QED
    BY <1>1, NextType, PTL DEF Spec

-----------------------------------------------------------------------------
(* LimitRespected.  Only CreateTreeq adds a treeq, and only the holder of   *)
(* the create mutex calls it.  The inductive invariant LimitInv says that   *)
(* whoever chooses a filesystem holds the create mutex until CreateTreeq,   *)
(* and that the chosen filesystem keeps its room meanwhile, because every   *)
(* other step only removes treeqs.                                          *)

\* The treeqs of f after a step.
NextTreeqs(f) == {v \in Volume : quota'[f][v] # 0}

\* No filesystem gains a treeq and no new ID appears.
Shrinks ==
    /\ \A f \in FileSystem : NextTreeqs(f) \subseteq Treeqs(f)
    /\ live' \subseteq live
    /\ used' = used

\* Worker w takes a step: the others keep their place and their mutex.
StepOf(w) ==
    /\ \A u \in Worker \ {w} : pc'[u] = pc[u] /\ my'[u] = my[u]
    /\ \A u \in Worker \ {w} : createMutex = u => createMutex' = u

\* Worker w goes on outside the critical labels, or returns.
Moves(w) ==
    \/ \E l, m : l \notin Critical /\ Goto(w, l, m)
    \/ ReturnError(w) \/ ReturnDeleted(w) \/ \E f : ReturnVolume(w, f)

\* LimitInv is an invariant.
LEMMA LimitInvariant == Spec => []LimitInv
  \* Going on to the next call is a step of one worker and keeps the create
  \* mutex.
  <1>GotoStep.
      ASSUME TypeOK, NEW w \in Worker
      PROVE  \A l, m : Goto(w, l, m) =>
                 StepOf(w) /\ pc'[w] = l /\ my'[w] = m /\ createMutex' = createMutex
    BY <1>GotoStep, Zenon DEF TypeOK, ProcessOK, Goto, StepOf, mutexes

  \* Returning is a step of one worker, which ends up idle.
  <1>LeaveStep.
      ASSUME TypeOK, NEW w \in Worker, Leave(w)
      PROVE  StepOf(w) /\ pc'[w] = "idle"
    BY <1>LeaveStep, Zenon DEF TypeOK, ProcessOK, Leave, StepOf

  \* So is returning with any answer.
  <1>ReturnStep.
      ASSUME TypeOK, NEW w \in Worker
      PROVE  /\ ReturnError(w) => StepOf(w) /\ pc'[w] = "idle"
             /\ ReturnDeleted(w) => StepOf(w) /\ pc'[w] = "idle"
             /\ \A f : ReturnVolume(w, f) => StepOf(w) /\ pc'[w] = "idle"
    BY <1>ReturnStep, <1>LeaveStep, Zenon DEF ReturnError, ReturnVolume, ReturnDeleted

  \* Such a step is one of w alone, and ends outside the critical labels.
  <1>MovesStep.
      ASSUME TypeOK, NEW w \in Worker, Moves(w)
      PROVE  StepOf(w) /\ pc'[w] \notin Critical
    <2> USE <1>MovesStep
    <2>1. "idle" \notin Critical
      BY Zenon DEF Critical, Placing
    <2> QED
      BY <2>1, <1>ReturnStep, <1>GotoStep, Zenon DEF Moves

  \* Calls on sizes, metadata and exports add no treeq.
  <1>ArrayShrinks.
      ASSUME TypeOK
      PROVE  /\ UNCHANGED array => Shrinks
             /\ \A f, n : SetSize(f, n) \/ SetCount(f, n) => Shrinks
             /\ \A S : SetExported(S) => Shrinks
    BY <1>ArrayShrinks, Zenon DEF Shrinks, Treeqs, NextTreeqs, array, SetSize, SetCount, SetExported

  \* Deleting a treeq, or changing the quota of one that exists, adds none.
  <1>SetQuotaShrinks.
      ASSUME TypeOK, NEW f, NEW v, NEW c, SetQuota(f, v, c), c = 0 \/ v \in Treeqs(f)
      PROVE  Shrinks
    BY <1>SetQuotaShrinks, Zenon DEF TypeOK, ArrayOK, Shrinks, Treeqs, NextTreeqs, SetQuota

  \* Deleting a filesystem adds no treeq.
  <1>RemoveShrinks.
      ASSUME TypeOK, NEW f, RemoveFileSystem(f)
      PROVE  Shrinks
    BY <1>RemoveShrinks, Zenon DEF TypeOK, ArrayOK, Shrinks, Treeqs, NextTreeqs, RemoveFileSystem

  \* A subset of a finite set has no more elements.
  <1>SubsetCardinality.
      ASSUME NEW S, IsFiniteSet(S), NEW T, T \subseteq S
      PROVE  Cardinality(T) <= Cardinality(S)
    BY <1>SubsetCardinality, FS_Subset, Zenon

  \* A step that only shrinks the array and leaves the critical section, or
  \* never enters it, keeps the invariant.
  <1>ShrinkStep.
      ASSUME LimitInv, TypeOK', NEW w \in Worker, Shrinks, StepOf(w),
             pc'[w] \in Critical => createMutex' = w,
             pc'[w] \in Placing => Cardinality(Treeqs(my'[w].fs)) < MaxTreeqsPerFS
      PROVE  LimitInv'
    <2> USE <1>ShrinkStep
    <2>1. \A f \in FileSystem : Cardinality(NextTreeqs(f)) <= Cardinality(Treeqs(f))
      BY TreeqsFinite, <1>SubsetCardinality, Zenon DEF Shrinks
    <2>2. \A f \in FileSystem : Cardinality(NextTreeqs(f)) \in Nat /\ Cardinality(Treeqs(f)) \in Nat
      <3>1. \A f : NextTreeqs(f) \in SUBSET Volume
        BY Zenon DEF NextTreeqs
      <3> QED
        BY <3>1, TreeqsFinite, VolumeAssumption, FS_Subset, FS_CardinalityType, Zenon
    <2>3. TreeqsWithinLimit'
      <3>1. \A f \in FileSystem : Cardinality(NextTreeqs(f)) <= MaxTreeqsPerFS
        BY <2>1, <2>2, LimitAssumption DEF LimitInv, TreeqsWithinLimit
      <3> QED
        BY <3>1, Zenon DEF TreeqsWithinLimit, Treeqs, NextTreeqs
    <2>4. MutexHeld'
      BY Zenon DEF LimitInv, MutexHeld, StepOf
    <2>5. SpotFree'
      <3>1. ASSUME NEW u \in Worker, pc'[u] \in Placing
            PROVE  Cardinality(NextTreeqs(my'[u].fs)) < MaxTreeqsPerFS
        <4>1. my'[u].fs \in FileSystem
          BY <3>1, Zenon DEF TypeOK, ProcessOK
        <4>2. Cardinality(Treeqs(my'[u].fs)) < MaxTreeqsPerFS
          BY <3>1, Zenon DEF LimitInv, SpotFree, StepOf
        <4> QED
          BY <2>1, <2>2, <4>1, <4>2, LimitAssumption
      <3> QED
        BY <3>1, Zenon DEF SpotFree, Treeqs, NextTreeqs
    <2>6. UnusedEmpty'
      BY Zenon DEF LimitInv, UnusedEmpty, Shrinks, Treeqs, NextTreeqs
    <2> QED
      BY <2>3, <2>4, <2>5, <2>6, Zenon DEF LimitInv

  \* UpdateTreeqCnt runs outside the critical labels and adds no treeq.
  <1>CountStepLimit.
      ASSUME LimitInv, TypeOK', NEW w \in Worker, CountStep(w)
      PROVE  LimitInv'
    <2> USE <1>CountStepLimit
    <2> USE DEF LimitInv
    <2>1. CASE ReadCount(w)
      <3>1. Shrinks
        BY <2>1, <1>ArrayShrinks, Zenon DEF ReadCount
      <3>2. StepOf(w) /\ pc'[w] \notin Critical
        <4>1. Moves(w)
          BY <2>1, Zenon DEF ReadCount, Moves, Critical, Placing, CountNotWritten
        <4> QED
          BY <4>1, <1>MovesStep, Zenon
      <3> QED
        BY <3>1, <3>2, <1>ShrinkStep, Zenon DEF Critical
    <2>2. CASE WriteCount(w)
      <3>1. Shrinks
        BY <2>2, <1>ArrayShrinks, Zenon DEF WriteCount
      <3>2. StepOf(w) /\ pc'[w] \notin Critical
        <4>1. Moves(w)
          BY <2>2, Zenon DEF WriteCount, Moves, Critical, Placing, CountNotWritten, CountWritten
        <4> QED
          BY <4>1, <1>MovesStep, Zenon
      <3> QED
        BY <3>1, <3>2, <1>ShrinkStep, Zenon DEF Critical
    <2> QED
      BY <2>1, <2>2, Zenon DEF CountStep

  \* DeleteVolume adds no treeq, whatever mutex it holds.
  <1>DeleteStepLimit.
      ASSUME LimitInv, TypeOK', NEW w \in Worker, DeleteStep(w)
      PROVE  LimitInv'
    <2> USE <1>DeleteStepLimit
    <2> USE DEF LimitInv
    <2>1. CASE GetTreeq(w)
      <3>1. Shrinks
        BY <2>1, <1>ArrayShrinks, Zenon DEF GetTreeq
      <3>2. StepOf(w) /\ pc'[w] \notin Critical
        <4>1. Moves(w)
          BY <2>1, Zenon DEF GetTreeq, Moves, Critical, Placing
        <4> QED
          BY <4>1, <1>MovesStep, Zenon
      <3> QED
        BY <3>1, <3>2, <1>ShrinkStep, Zenon DEF Critical
    <2>2. CASE DeleteTreeq(w)
      <3>1. Shrinks
        BY <2>2, <1>ArrayShrinks, <1>SetQuotaShrinks, Zenon DEF DeleteTreeq
      <3>2. StepOf(w) /\ pc'[w] \notin Critical
        <4>1. Moves(w)
          BY <2>2, Zenon DEF DeleteTreeq, Moves, Critical, Placing
        <4> QED
          BY <4>1, <1>MovesStep, Zenon
      <3> QED
        BY <3>1, <3>2, <1>ShrinkStep, Zenon DEF Critical
    <2>3. CASE DeleteExports(w)
      <3>1. Shrinks
        BY <2>3, <1>ArrayShrinks, Zenon DEF DeleteExports
      <3>2. StepOf(w) /\ pc'[w] \notin Critical
        <4>1. Moves(w)
          BY <2>3, Zenon DEF DeleteExports, Moves, Critical, Placing
        <4> QED
          BY <4>1, <1>MovesStep, Zenon
      <3> QED
        BY <3>1, <3>2, <1>ShrinkStep, Zenon DEF Critical
    <2>4. CASE DeleteMetadata(w)
      <3>1. Shrinks
        BY <2>4, <1>ArrayShrinks, Zenon DEF DeleteMetadata
      <3>2. StepOf(w) /\ pc'[w] \notin Critical
        <4>1. Moves(w)
          BY <2>4, Zenon DEF DeleteMetadata, Moves, Critical, Placing
        <4> QED
          BY <4>1, <1>MovesStep, Zenon
      <3> QED
        BY <3>1, <3>2, <1>ShrinkStep, Zenon DEF Critical
    <2>5. CASE DeleteFileSystem(w)
      <3>1. Shrinks
        BY <2>5, <1>ArrayShrinks, <1>RemoveShrinks, Zenon DEF DeleteFileSystem
      <3>2. StepOf(w) /\ pc'[w] \notin Critical
        <4>1. Moves(w)
          BY <2>5, Zenon DEF DeleteFileSystem, Moves, Critical, Placing
        <4> QED
          BY <4>1, <1>MovesStep, Zenon
      <3> QED
        BY <3>1, <3>2, <1>ShrinkStep, Zenon DEF Critical
    <2>6. CASE LockDelete(w)
      <3>1. Shrinks
        BY <2>6, <1>ArrayShrinks, Zenon DEF LockDelete
      <3>2. StepOf(w) /\ pc'[w] \notin Critical
        BY <2>6, Zenon DEF LockDelete, StepOf, TypeOK, ProcessOK, Critical, Placing
      <3> QED
        BY <3>1, <3>2, <1>ShrinkStep, Zenon DEF Critical
    <2> QED
      BY <2>1, <2>2, <2>3, <2>4, <2>5, <2>6, Zenon DEF DeleteStep

  \* ControllerExpandVolume changes quotas of existing treeqs only.
  <1>ExpandStepLimit.
      ASSUME LimitInv, TypeOK', NEW w \in Worker, ExpandStep(w)
      PROVE  LimitInv'
    <2> USE <1>ExpandStepLimit
    <2> USE DEF LimitInv
    <2>1. CASE GetFileSystemByID(w)
      <3>1. Shrinks
        BY <2>1, <1>ArrayShrinks, Zenon DEF GetFileSystemByID
      <3>2. StepOf(w) /\ pc'[w] \notin Critical
        <4>1. Moves(w)
          BY <2>1, Zenon DEF GetFileSystemByID, Moves, Critical, Placing
        <4> QED
          BY <4>1, <1>MovesStep, Zenon
      <3> QED
        BY <3>1, <3>2, <1>ShrinkStep, Zenon DEF Critical
    <2>2. CASE GetHardCapacity(w)
      <3>1. Shrinks
        BY <2>2, <1>ArrayShrinks, Zenon DEF GetHardCapacity
      <3>2. StepOf(w) /\ pc'[w] \notin Critical
        <4>1. Moves(w)
          BY <2>2, Zenon DEF GetHardCapacity, Moves, Critical, Placing
        <4> QED
          BY <4>1, <1>MovesStep, Zenon
      <3> QED
        BY <3>1, <3>2, <1>ShrinkStep, Zenon DEF Critical
    <2>3. CASE GetTotalTreeqSize(w)
      <3>1. Shrinks
        BY <2>3, <1>ArrayShrinks, Zenon DEF GetTotalTreeqSize
      <3>2. StepOf(w) /\ pc'[w] \notin Critical
        <4>1. Moves(w)
          BY <2>3, Zenon DEF GetTotalTreeqSize, Moves, Critical, Placing
        <4> QED
          BY <4>1, <1>MovesStep, Zenon
      <3> QED
        BY <3>1, <3>2, <1>ShrinkStep, Zenon DEF Critical
    <2>4. CASE EnlargeFileSystem(w)
      <3>1. Shrinks
        BY <2>4, <1>ArrayShrinks, Zenon DEF EnlargeFileSystem
      <3>2. StepOf(w) /\ pc'[w] \notin Critical
        <4>1. Moves(w)
          BY <2>4, Zenon DEF EnlargeFileSystem, Moves, Critical, Placing
        <4> QED
          BY <4>1, <1>MovesStep, Zenon
      <3> QED
        BY <3>1, <3>2, <1>ShrinkStep, Zenon DEF Critical
    <2>5. CASE UpdateTreeq(w)
      <3>1. Shrinks
        BY <2>5, <1>ArrayShrinks, <1>SetQuotaShrinks, Zenon DEF UpdateTreeq
      <3>2. StepOf(w) /\ pc'[w] \notin Critical
        <4>1. Moves(w)
          BY <2>5, Zenon DEF UpdateTreeq, Moves, Critical, Placing
        <4> QED
          BY <4>1, <1>MovesStep, Zenon
      <3> QED
        BY <3>1, <3>2, <1>ShrinkStep, Zenon DEF Critical
    <2> QED
      BY <2>1, <2>2, <2>3, <2>4, <2>5, Zenon DEF ExpandStep

  \* CreateVolume adds a treeq only in CreateTreeq, under the create mutex and
  \* into the filesystem that had room for it.
  <1>CreateStepLimit.
      ASSUME LimitInv, TypeOK', NEW w \in Worker, CreateStep(w)
      PROVE  LimitInv'
    <2> USE <1>CreateStepLimit
    <2> USE DEF LimitInv
    <2>1. CASE ListForExist(w)
      <3>1. Shrinks
        BY <2>1, <1>ArrayShrinks, Zenon DEF ListForExist
      <3>2. StepOf(w) /\ pc'[w] \notin Critical
        <4>1. Moves(w)
          BY <2>1, Zenon DEF ListForExist, Moves, Critical, Placing
        <4> QED
          BY <4>1, <1>MovesStep, Zenon
      <3> QED
        BY <3>1, <3>2, <1>ShrinkStep, Zenon DEF Critical
    <2>2. CASE CheckTreeqName(w)
      <3>1. Shrinks
        BY <2>2, <1>ArrayShrinks, Zenon DEF CheckTreeqName
      <3>2. StepOf(w) /\ pc'[w] \notin Critical
        <4>1. PICK l \in {"create", "existing"} : \E m : Goto(w, l, m)
          BY <2>2, Zenon DEF CheckTreeqName
        <4> QED
          BY <4>1, <1>GotoStep, Zenon DEF Critical, Placing
      <3> QED
        BY <3>1, <3>2, <1>ShrinkStep, Zenon DEF Critical
    <2>3. CASE ExistingVolume(w)
      <3>1. Shrinks
        BY <2>3, <1>ArrayShrinks, Zenon DEF ExistingVolume
      <3>2. StepOf(w) /\ pc'[w] \notin Critical
        <4>1. Moves(w)
          BY <2>3, Zenon DEF ExistingVolume, Moves, Critical, Placing
        <4> QED
          BY <4>1, <1>MovesStep, Zenon
      <3> QED
        BY <3>1, <3>2, <1>ShrinkStep, Zenon DEF Critical
    <2>4. CASE PrepareFails(w)
      <3>1. Shrinks
        BY <2>4, <1>ArrayShrinks, Zenon DEF PrepareFails
      <3>2. StepOf(w) /\ pc'[w] \notin Critical
        <4>1. Moves(w)
          BY <2>4, Zenon DEF PrepareFails, Moves, Critical, Placing
        <4> QED
          BY <4>1, <1>MovesStep, Zenon
      <3> QED
        BY <3>1, <3>2, <1>ShrinkStep, Zenon DEF Critical
    <2>5. CASE UndoExport(w)
      <3>1. Shrinks
        BY <2>5, <1>ArrayShrinks, Zenon DEF UndoExport
      <3>2. StepOf(w) /\ pc'[w] \notin Critical
        <4>1. Moves(w)
          BY <2>5, Zenon DEF UndoExport, Moves, Critical, Placing
        <4> QED
          BY <4>1, <1>MovesStep, Zenon
      <3> QED
        BY <3>1, <3>2, <1>ShrinkStep, Zenon DEF Critical
    <2>6. CASE UndoFileSystem(w)
      <3>1. Shrinks
        BY <2>6, <1>ArrayShrinks, <1>RemoveShrinks, Zenon DEF UndoFileSystem
      <3>2. StepOf(w) /\ pc'[w] \notin Critical
        <4>1. Moves(w)
          BY <2>6, Zenon DEF UndoFileSystem, Moves, Critical, Placing
        <4> QED
          BY <4>1, <1>MovesStep, Zenon
      <3> QED
        BY <3>1, <3>2, <1>ShrinkStep, Zenon DEF Critical
    <2>7. CASE RevertTreeq(w)
      <3>1. Shrinks
        BY <2>7, <1>ArrayShrinks, <1>SetQuotaShrinks, Zenon DEF RevertTreeq
      <3>2. StepOf(w) /\ pc'[w] \notin Critical
        <4>1. Moves(w)
          BY <2>7, Zenon DEF RevertTreeq, Moves, Critical, Placing
        <4> QED
          BY <4>1, <1>MovesStep, Zenon
      <3> QED
        BY <3>1, <3>2, <1>ShrinkStep, Zenon DEF Critical
    <2>8. CASE GrowFileSystem(w)
      <3>1. Shrinks
        BY <2>8, <1>ArrayShrinks, Zenon DEF GrowFileSystem
      <3>2. StepOf(w) /\ pc'[w] \notin Critical
        <4>1. Moves(w)
          BY <2>8, Zenon DEF GrowFileSystem, Moves, Critical, Placing
        <4> QED
          BY <4>1, <1>MovesStep, Zenon
      <3> QED
        BY <3>1, <3>2, <1>ShrinkStep, Zenon DEF Critical
    <2>a. CASE GetExpectedFileSystem(w)
      <3>1. Shrinks
        BY <2>a, <1>ArrayShrinks, Zenon DEF GetExpectedFileSystem
      <3>2. StepOf(w) /\ pc'[w] \notin Placing /\ (pc'[w] \in Critical => createMutex' = w)
        <4>1. CASE ReturnError(w)
          BY <4>1, <1>ReturnStep, Zenon DEF Critical, Placing
        <4>2. CASE ~ReturnError(w)
          BY <2>a, <4>2, WorkerAssumption, Zenon
          DEF GetExpectedFileSystem, LockCreate, StepOf, TypeOK, ProcessOK, Placing
        <4> QED
          BY <4>1, <4>2, Zenon
      <3> QED
        BY <3>1, <3>2, <1>ShrinkStep, Zenon
    <2>b. CASE \E f \in FileSystem : ScanFileSystem(w, f)
      <3>1. PICK f \in FileSystem : ScanFileSystem(w, f)
        BY <2>b, Zenon
      <3>2. Shrinks
        BY <3>1, <1>ArrayShrinks, Zenon DEF ScanFileSystem
      <3>3. StepOf(w) /\ (createMutex' = createMutex \/ pc'[w] = "idle")
        BY <3>1, <1>GotoStep, <1>ReturnStep, Zenon DEF ScanFileSystem
      <3>4. createMutex = w
        BY <3>1, Zenon DEF ScanFileSystem, MutexHeld, Critical
      <3>5. pc'[w] \in Placing => Cardinality(Treeqs(my'[w].fs)) < MaxTreeqsPerFS
        <4>1. my[w] \in CallType
          BY Zenon DEF TypeOK, ProcessOK
        <4>2. [my[w] EXCEPT !.fs = f, !.num = Cardinality(Treeqs(f))].fs = f
          BY <4>1, Zenon DEF CallType
        <4> QED
          BY <3>1, <4>2, <1>GotoStep, <1>ReturnStep, Zenon DEF ScanFileSystem, HasRoom, Placing
      <3> QED
        BY <3>2, <3>3, <3>4, <3>5, <1>ShrinkStep, Zenon DEF Critical, Placing
    <2>c. CASE CreateFileSystem(w)
      <3>1. createMutex = w
        BY <2>c, Zenon DEF CreateFileSystem, MutexHeld, Critical
      <3>2. quota' = quota
        BY <2>c, Zenon DEF CreateFileSystem, array
      <3>3. live' \subseteq used' /\ used \subseteq used'
        BY <2>c, Zenon DEF CreateFileSystem, UnusedEmpty, array
      <3>4. StepOf(w) /\ (createMutex' = createMutex \/ pc'[w] = "idle")
        BY <2>c, <1>GotoStep, <1>ReturnStep, Zenon DEF CreateFileSystem
      <3>5. pc'[w] \in Placing => Cardinality(Treeqs(my'[w].fs)) < MaxTreeqsPerFS
        <4>1. CASE ReturnError(w)
          BY <4>1, <1>ReturnStep, Zenon DEF Placing
        <4>2. CASE ~ReturnError(w)
          <5>1. PICK f \in FileSystem \ used :
                  Goto(w, IF ExportPermissions THEN "export" ELSE "meta",
                       [my[w] EXCEPT !.fs = f, !.fresh = TRUE, !.num = 0])
            BY <2>c, <4>2, Zenon DEF CreateFileSystem
          <5>2. my[w] \in CallType
            BY Zenon DEF TypeOK, ProcessOK
          <5>3. my'[w].fs = f
            <6>1. my'[w] = [my[w] EXCEPT !.fs = f, !.fresh = TRUE, !.num = 0]
              BY <5>1, <1>GotoStep, Zenon
            <6> QED
              BY <5>2, <6>1, Zenon DEF CallType
          <5>4. Treeqs(f) = {}
            BY Zenon DEF UnusedEmpty
          <5> QED
            BY <5>3, <5>4, FS_EmptySet, LimitAssumption
        <4> QED
          BY <4>1, <4>2, Zenon
      <3>6. TreeqsWithinLimit' /\ UnusedEmpty'
        BY <3>2, <3>3, Zenon DEF TreeqsWithinLimit, UnusedEmpty, Treeqs
      <3>7. MutexHeld'
        BY <3>1, <3>4 DEF MutexHeld, StepOf, Critical, Placing
      <3>8. SpotFree'
        BY <3>2, <3>4, <3>5, Zenon DEF SpotFree, StepOf, Treeqs
      <3> QED
        BY <3>6, <3>7, <3>8, Zenon
    <2>d. CASE CreateExportPath(w)
      <3>1. Shrinks
        BY <2>d, <1>ArrayShrinks, Zenon DEF CreateExportPath
      <3>2. StepOf(w) /\ createMutex' = createMutex /\ my'[w] = my[w]
        BY <2>d, <1>GotoStep, Zenon DEF CreateExportPath
      <3>3. createMutex = w /\ Cardinality(Treeqs(my[w].fs)) < MaxTreeqsPerFS
        BY <2>d, Zenon DEF CreateExportPath, MutexHeld, SpotFree, Critical, Placing
      <3> QED
        BY <3>1, <3>2, <3>3, <1>ShrinkStep, Zenon
    <2>e. CASE AddMetadata(w)
      <3>1. Shrinks
        BY <2>e, <1>ArrayShrinks, Zenon DEF AddMetadata
      <3>2. StepOf(w) /\ createMutex' = createMutex /\ my'[w] = my[w]
        BY <2>e, <1>GotoStep, Zenon DEF AddMetadata
      <3>3. createMutex = w /\ Cardinality(Treeqs(my[w].fs)) < MaxTreeqsPerFS
        BY <2>e, Zenon DEF AddMetadata, MutexHeld, SpotFree, Critical, Placing
      <3> QED
        BY <3>1, <3>2, <3>3, <1>ShrinkStep, Zenon
    <2>f. CASE CreateTreeq(w)
      <3>1. StepOf(w) /\ pc'[w] \notin Critical
        BY <2>f, <1>GotoStep, <1>ReturnStep DEF CreateTreeq, CreateTreeqFailed, Critical, Placing
      <3>2. CASE UNCHANGED array
        BY <3>1, <3>2, <1>ArrayShrinks, <1>ShrinkStep, Zenon DEF Critical
      <3>3. CASE ~UNCHANGED array
        <4> DEFINE g == my[w].fs
                   v == my[w].vol
        <4>1. g \in FileSystem /\ g \in live /\ v \in Volume /\ SetQuota(g, v, my[w].cap)
          BY <2>f, <3>3, Zenon DEF CreateTreeq, TypeOK, ArrayOK, ProcessOK
        <4>2. createMutex = w /\ Cardinality(Treeqs(g)) < MaxTreeqsPerFS
          BY <2>f, Zenon DEF CreateTreeq, MutexHeld, SpotFree, Critical, Placing
        <4> HIDE DEF g, v
        <4>3. \A f \in FileSystem \ {g} : NextTreeqs(f) = Treeqs(f)
          BY <4>1, Zenon DEF SetQuota, TypeOK, ArrayOK, Treeqs, NextTreeqs
        <4>4. NextTreeqs(g) \subseteq Treeqs(g) \cup {v}
          BY <4>1, Zenon DEF SetQuota, TypeOK, ArrayOK, Treeqs, NextTreeqs
        <4>5. Cardinality(NextTreeqs(g)) <= MaxTreeqsPerFS
          <5>1. IsFiniteSet(Treeqs(g) \cup {v})
            BY TreeqsFinite, FS_AddElement, Zenon
          <5>2. Cardinality(Treeqs(g) \cup {v}) <= Cardinality(Treeqs(g)) + 1
            <6>1. Cardinality(Treeqs(g)) \in Nat
              BY TreeqsFinite, Zenon
            <6>2. \/ Cardinality(Treeqs(g) \cup {v}) = Cardinality(Treeqs(g))
                  \/ Cardinality(Treeqs(g) \cup {v}) = Cardinality(Treeqs(g)) + 1
              BY TreeqsFinite, FS_AddElement, Zenon
            <6> QED
              BY <6>1, <6>2
          <5>3. Cardinality(NextTreeqs(g)) <= Cardinality(Treeqs(g) \cup {v})
            BY <4>4, <5>1, <1>SubsetCardinality, Zenon
          <5>4. /\ Cardinality(NextTreeqs(g)) \in Nat /\ Cardinality(Treeqs(g)) \in Nat
                /\ Cardinality(Treeqs(g) \cup {v}) \in Nat
            BY <4>4, <5>1, TreeqsFinite, FS_Subset, FS_CardinalityType, Zenon
          <5> QED
            BY <4>2, <5>2, <5>3, <5>4, LimitAssumption
        <4>6. TreeqsWithinLimit'
          <5>1. \A f \in FileSystem : Cardinality(NextTreeqs(f)) <= MaxTreeqsPerFS
            BY <4>3, <4>5, Zenon DEF TreeqsWithinLimit
          <5> QED
            BY <5>1, Zenon DEF TreeqsWithinLimit, Treeqs, NextTreeqs
        <4>7. MutexHeld' /\ SpotFree'
          BY <3>1, <4>2, Zenon DEF MutexHeld, SpotFree, StepOf, Critical
        <4>8. UnusedEmpty'
          <5>1. live' = live /\ used' = used
            BY <4>1, Zenon DEF SetQuota
          <5>2. \A f \in FileSystem \ used : NextTreeqs(f) = {}
            BY <4>1, <4>3, Zenon DEF UnusedEmpty
          <5> QED
            BY <5>1, <5>2, Zenon DEF UnusedEmpty, Treeqs, NextTreeqs
        <4> QED
          BY <4>6, <4>7, <4>8, Zenon
      <3> QED
        BY <3>2, <3>3, Zenon
    <2> QED
      BY <2>1, <2>2, <2>3, <2>4, <2>5, <2>6, <2>7, <2>8, <2>a, <2>b, <2>c, <2>d, <2>e, <2>f, Zenon DEF CreateStep

  \* Starting a call, writing data and a crash, which empties every critical
  \* label, keep the invariant.
  <1>OtherStepLimit.
      ASSUME LimitInv, TypeOK', [Next]_vars, ~ \E w \in Worker : Step(w)
      PROVE  LimitInv'
    <2> USE <1>OtherStepLimit
    <2> USE DEF LimitInv
    <2>1. ASSUME NEW w \in Worker, NEW v \in Volume, NEW c,
                 StartCreate(w, v) \/ StartExpand(w, v, c)
          PROVE  LimitInv'
      <3>1. Shrinks
        BY <2>1, <1>ArrayShrinks, Zenon DEF StartCreate, StartExpand
      <3>2. StepOf(w) /\ pc'[w] \notin Critical
        <4>1. Moves(w)
          BY <2>1, Zenon DEF StartCreate, StartExpand, Moves, Critical, Placing
        <4> QED
          BY <4>1, <1>MovesStep, Zenon
      <3> QED
        BY <3>1, <3>2, <1>ShrinkStep, Zenon DEF Critical
    <2>2. ASSUME NEW w \in Worker, NEW v \in Volume, StartDelete(w, v)
          PROVE  LimitInv'
      <3>1. Shrinks
        BY <2>2, <1>ArrayShrinks, Zenon DEF StartDelete
      <3>2. StepOf(w) /\ pc'[w] \notin Critical
        BY <2>2, Zenon DEF StartDelete, StepOf, TypeOK, ProcessOK, mutexes, Critical, Placing
      <3> QED
        BY <3>1, <3>2, <1>ShrinkStep, Zenon DEF Critical
    <2>3. CASE (\E v \in Volume : WriteData(v)) \/ UNCHANGED vars
      <3>1. UNCHANGED <<live, used, quota, pc, my, mutexes>>
        BY <2>3, Zenon DEF WriteData, vars, array
      <3> QED
        BY <3>1, Zenon DEF MutexHeld, SpotFree, UnusedEmpty, TreeqsWithinLimit, Treeqs, mutexes
    <2>4. CASE Crash
      <3>1. UNCHANGED <<live, used, quota>> /\ \A w \in Worker : pc'[w] = "idle"
        BY <2>4, Zenon DEF Crash, array
      <3> QED
        BY <3>1, Zenon
        DEF MutexHeld, SpotFree, UnusedEmpty, TreeqsWithinLimit, Treeqs, Critical, Placing
    <2> QED
      BY <2>1, <2>2, <2>3, <2>4, Zenon DEF Next

  <1>1. Init => LimitInv
    <2>1. Init => TypeOK
      BY InitType, Zenon
    <2>2. Init => \A f \in FileSystem : Treeqs(f) = {}
      <3>1. Init => quota = [f \in FileSystem |-> [v \in Volume |-> 0]]
        BY Zenon DEF Init
      <3> QED
        BY <3>1, Zenon DEF Treeqs
    <2>3. Init => TreeqsWithinLimit
      BY <2>2, FS_EmptySet, LimitAssumption DEF TreeqsWithinLimit
    <2> QED
      BY <2>1, <2>2, <2>3, Zenon
      DEF Init, LimitInv, MutexHeld, SpotFree, UnusedEmpty, Critical, Placing
  <1>2. LimitInv /\ [Next]_vars => LimitInv'
    <2> SUFFICES ASSUME LimitInv, [Next]_vars PROVE LimitInv'
      BY Zenon
    <2>1. TypeOK'
      BY NextType, Zenon DEF LimitInv
    <2> QED
      BY <2>1, <1>CreateStepLimit, <1>CountStepLimit, <1>DeleteStepLimit, <1>ExpandStepLimit,
         <1>OtherStepLimit, Zenon DEF Step
  <1> QED
    BY <1>1, <1>2, PTL DEF Spec

\* max_treeqs_per_filesystem is never exceeded: for any number of concurrent
\* creates, deletes and expansions, any crashes, and any failed or lost REST
\* calls.
THEOREM LimitRespected == Spec => []TreeqsWithinLimit
  <1>1. LimitInv => TreeqsWithinLimit
    BY Zenon DEF LimitInv
  <1> QED
    BY <1>1, LimitInvariant, PTL
=============================================================================
