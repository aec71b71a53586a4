----------------------------- MODULE NodeProofs -----------------------------
(***************************************************************************)
(* The node plugin implements the contract of NodeContract, for every set  *)
(* of volumes and pods and any number of failures.                         *)
(*                                                                         *)
(* A call the kubelet gave up runs later and may still mount or unmount.   *)
(* What makes this harmless is the order of the mutex: a call that the     *)
(* kubelet waits for is the last one of its volume, so that when its       *)
(* answer lets the kubelet go on no earlier call is left behind it.        *)
(*                                                                         *)
(* The second part shows that what is mounted keeps its session, disk, map *)
(* and file: UInv ties each mount and each running call to what it uses.   *)
(* The third is about runs in which nothing fails: FInv says that the node *)
(* has of each volume what it should have, and a call what it has done.    *)
(* The last is about sizes: EInv and SizedInv order the size of a file     *)
(* system, its map, its disk and the volume on the array.                  *)
(***************************************************************************)
EXTENDS NodeVolume, TLAPS

Fresh == {"port", "targets", "unmount", "load", "find"}

Op == {"stage", "unstage", "publish", "unpublish", "expand"}
Label ==
    Fresh \cup {"chap", "discover", "login", "scan", "dm", "check", "config", "mount", "reconfig", "perms",
               "rmdir", "devices", "flush", "detach", "rmjson", "logout", "rescan", "resize", "grow"}

CallType ==
    [op : Op, vol : Volume, pod : Pod \cup {None}, live : BOOLEAN, at : Label,
     lun : Lun \cup {None}, size : Nat, dev : Volume \cup {None}, paths : SUBSET Address]

\* What the kubelet knows while a call is in the queue; the answer of a call it
\* gave up no longer matters, its mounts and its unstaging do.
CallOk(c, s, p) ==
    /\ c.op = "stage" /\ c.live => s[c.vol] = "staging"
    /\ c.op = "unstage" => s[c.vol] = "unstaging"
    /\ c.op = "publish" =>
         c.pod \in Pod /\ Uses[c.pod] = c.vol /\ p[c.pod] \in {"publishing", "unpublishing"}
    /\ c.op = "unpublish" =>
         c.pod \in Pod /\ Uses[c.pod] = c.vol /\ p[c.pod] = "unpublishing"
    /\ c.op = "expand" => c.pod \in Pod

\* What the call that holds the mutex has reached.
HeadOk(c, m) ==
    /\ c.op = "publish" /\ c.at \in {"dm", "check", "config", "mount", "reconfig"} => c.dev \in Volume
    /\ c.op = "publish" /\ c.at \in {"reconfig", "perms"} => m[c.pod] # None
    /\ c.op = "unpublish" /\ c.at = "rmdir" => m[c.pod] = None

\* A call the kubelet waits for is the last one of its volume.
Ordered(q) ==
    \A i \in 1..Len(q), j \in 1..Len(q) : i < j /\ q[i].vol = q[j].vol => ~q[i].live

QueueOk(q, s, p, m) ==
    /\ q \in Seq(CallType) /\ Ordered(q)
    /\ \A i \in 1..Len(q) : CallOk(q[i], s, p)
    /\ \A i \in 2..Len(q) : q[i].at \in Fresh
    /\ q # <<>> => HeadOk(q[1], m)

Types ==
    /\ lun \in [Volume -> Lun \cup {None}] /\ size \in [Volume -> Nat]
    /\ disk \in [Address -> Volume \cup {None}] /\ config \in [Volume -> Volume \cup {None}]

KubeletTypes ==
    /\ stage \in [Volume -> {"detached", "attached", "staging", "staged", "unstaging"}]
    /\ pod \in [Pod -> {"new", "publishing", "published", "unpublishing", "gone"}]
    /\ mounted \in [Pod -> Volume \cup {None}]

\* A pod that has or may have the volume keeps it staged; only such a pod is mounted.
PodsOk ==
    \A p \in Pod :
        /\ pod[p] \in {"publishing", "published", "unpublishing"} => stage[Uses[p]] = "staged"
        /\ mounted[p] # None => pod[p] \in {"publishing", "published", "unpublishing"}

IInv == Types /\ KubeletTypes /\ PodsOk /\ QueueOk(queue, stage, pod, mounted)

On == {p \in Pod : mounted[p] # None}
ContractStep == [Contract!Next]_(Contract!vars)

-----------------------------------------------------------------------------
(* Queues.                                                                 *)

\* The queue after a new call (Append in Send).
LEMMA Pushed ==
    ASSUME NEW S, NEW q \in Seq(S), NEW c \in S
    PROVE  /\ Append(q, c) \in Seq(S) /\ Len(Append(q, c)) = Len(q) + 1
           /\ \A i \in 1..Len(q) : Append(q, c)[i] = q[i]
           /\ Append(q, c)[Len(q) + 1] = c
  OBVIOUS

\* The queue when its head leaves (Tail in ReturnOk and ReturnError).
LEMMA Popped ==
    ASSUME NEW S, NEW q \in Seq(S), q # <<>>
    PROVE  /\ Tail(q) \in Seq(S) /\ Len(Tail(q)) = Len(q) - 1 /\ Len(q) \in Nat \ {0}
           /\ \A i \in 1..(Len(q) - 1) : Tail(q)[i] = q[i + 1]
           /\ Head(q) = q[1] /\ Head(q) \in S
  OBVIOUS

\* The queue when its head makes a step (Continue).
LEMMA Replaced ==
    ASSUME NEW S, NEW q \in Seq(S), q # <<>>, NEW c \in S
    PROVE  /\ <<c>> \o Tail(q) \in Seq(S) /\ Len(<<c>> \o Tail(q)) = Len(q)
           /\ (<<c>> \o Tail(q))[1] = c
           /\ \A i \in 2..Len(q) : (<<c>> \o Tail(q))[i] = q[i]
  OBVIOUS

-----------------------------------------------------------------------------
(* What a handler's step comes to: a step of its call, or its end; and a   *)
(* mount or an unmount for its pod.                                        *)

Moved ==
    \/ \E c \in CallType :
         /\ Continue(c) /\ HeadOk(c, mounted')
         /\ c.op = H.op /\ c.vol = H.vol /\ c.pod = H.pod /\ c.live = H.live /\ c.size = H.size
    \/ ReturnError
    \/ /\ ReturnOk
       /\ H.op = "publish" => mounted'[H.pod] # None
       /\ H.op = "unpublish" => mounted'[H.pod] = None

MountStep ==
    \/ UNCHANGED mounted
    \/ H.op = "publish" /\ \E d \in Volume : mounted' = [mounted EXCEPT ![H.pod] = d]
    \/ H.op = "unpublish" /\ mounted' = [mounted EXCEPT ![H.pod] = None]

HandlerStep == queue # <<>> /\ Moved /\ MountStep /\ Types'

\* What the invariant says of the call that holds the mutex.
LEMMA HeadFacts ==
    ASSUME IInv, queue # <<>>
    PROVE  H \in CallType /\ H = queue[1] /\ CallOk(H, stage, pod) /\ HeadOk(H, mounted)
           /\ Len(queue) \in Nat \ {0}
  <1>1. queue \in Seq(CallType)
    BY Zenon DEF IInv, QueueOk
  <1>2. H = queue[1] /\ H \in CallType /\ Len(queue) \in Nat \ {0}
    BY <1>1, Popped, Zenon DEF H
  <1>3. CallOk(queue[1], stage, pod) /\ HeadOk(queue[1], mounted)
    BY <1>2 DEF IInv, QueueOk
  <1> QED
    BY <1>2, <1>3, Zenon

-----------------------------------------------------------------------------
(* The calls of the queue.                                                 *)

\* A call as Send makes it.
LEMMA CallTyped ==
    ASSUME Types, NEW op \in Op, NEW v \in Volume, NEW p \in Pod \cup {None}, NEW at \in Label
    PROVE  /\ Call(op, v, p, at) \in CallType
           /\ Call(op, v, p, at).op = op /\ Call(op, v, p, at).vol = v
           /\ Call(op, v, p, at).pod = p /\ Call(op, v, p, at).at = at
  <1>1. (IF op = "publish" THEN lun[v] ELSE None) \in Lun \cup {None}
    BY Zenon DEF Types
  <1>2. (IF op = "expand" THEN size[v] ELSE 0) \in Nat
    BY Zenon DEF Types
  <1> QED
    BY <1>1, <1>2, Zenon DEF Call, CallType

\* What the invariant says of any call of the queue.
LEMMA Queued ==
    ASSUME IInv, NEW i \in 1..Len(queue)
    PROVE  queue[i] \in CallType /\ queue[i].vol \in Volume /\ CallOk(queue[i], stage, pod)
  <1>1. queue \in Seq(CallType) /\ CallOk(queue[i], stage, pod)
    BY Zenon DEF IInv, QueueOk
  <1>2. queue[i] \in CallType
    BY <1>1
  <1> QED
    BY <1>1, <1>2, Zenon DEF CallType

-----------------------------------------------------------------------------
(* The handlers' steps.                                                    *)

\* What only a few of the steps change.
Quiet == UNCHANGED <<lun, size, disk, config, mounted>>

\* A step that leaves LUNs, sizes, disks and files alone keeps their types.
LEMMA QuietTypes ==
    ASSUME IInv, UNCHANGED <<lun, size, disk, config>>
    PROVE  Types'
  BY Zenon DEF IInv, Types

\* The call goes on as the same call, at label l with the device d.
Goes(l, d) ==
    \E c \in CallType :
        /\ Continue(c) /\ c.at = l /\ c.dev = d
        /\ c.op = H.op /\ c.vol = H.vol /\ c.pod = H.pod /\ c.live = H.live /\ c.size = H.size

\* Goto(l) keeps the call and its device.
LEMMA GotoGoes ==
    ASSUME IInv, queue # <<>>, NEW l \in Label, Goto(l)
    PROVE  Goes(l, H.dev)
  <1>1. H \in CallType
    BY HeadFacts, Zenon
  <1> DEFINE c == [H EXCEPT !.at = l]
  <1>2. c \in CallType /\ c.at = l /\ c.dev = H.dev
        /\ c.op = H.op /\ c.vol = H.vol /\ c.pod = H.pod /\ c.live = H.live /\ c.size = H.size
    BY <1>1, Zenon DEF CallType
  <1>3. Continue(c)
    BY Zenon DEF Goto
  <1> HIDE DEF c
  <1> QED
    BY <1>2, <1>3, Zenon DEF Goes

\* A step to label l that also sets the device of the call.
LEMMA DeviceGoes ==
    ASSUME IInv, queue # <<>>, NEW l \in Label, NEW d \in Volume \cup {None},
           Continue([H EXCEPT !.at = l, !.dev = d])
    PROVE  Goes(l, d)
  <1>1. H \in CallType
    BY HeadFacts, Zenon
  <1> DEFINE c == [H EXCEPT !.at = l, !.dev = d]
  <1>2. c \in CallType /\ c.at = l /\ c.dev = d
        /\ c.op = H.op /\ c.vol = H.vol /\ c.pod = H.pod /\ c.live = H.live /\ c.size = H.size
    BY <1>1, Zenon DEF CallType
  <1>3. Continue(c)
    BY Zenon
  <1> HIDE DEF c
  <1> QED
    BY <1>2, <1>3, Zenon DEF Goes

\* A call that goes on after what the invariant asks of its new label.
LEMMA GoesStep ==
    ASSUME IInv, queue # <<>>, MountStep, Types', NEW l, NEW d, Goes(l, d),
           H.op = "publish" /\ l \in {"dm", "check", "config", "mount", "reconfig"} => d \in Volume,
           H.op = "publish" /\ l \in {"reconfig", "perms"} => mounted'[H.pod] # None,
           H.op = "unpublish" /\ l = "rmdir" => mounted'[H.pod] = None
    PROVE  HandlerStep
  <1>1. PICK c \in CallType :
          /\ Continue(c) /\ c.at = l /\ c.dev = d
          /\ c.op = H.op /\ c.vol = H.vol /\ c.pod = H.pod /\ c.live = H.live /\ c.size = H.size
    BY Zenon DEF Goes
  <1>2. HeadOk(c, mounted')
    BY <1>1, Zenon DEF HeadOk
  <1>3. Moved
    BY <1>1, <1>2, Zenon DEF Moved, Continue
  <1> QED
    BY <1>3, Zenon DEF HandlerStep

\* A call that ends with an error.
LEMMA ErrorStep ==
    ASSUME IInv, queue # <<>>, MountStep, Types', ReturnError
    PROVE  HandlerStep
  BY Zenon DEF HandlerStep, Moved

\* The device of NodePublishVolume is that of some volume.
LEMMA DeviceSteps ==
    ASSUME IInv, queue # <<>>, H.op = "publish", UNCHANGED mounted, Types',
           ReturnError \/ \E l \in {"dm", "check"}, d \in Volume : Goes(l, d)
    PROVE  HandlerStep
  <1>1. MountStep
    BY Zenon DEF MountStep
  <1>2. CASE ReturnError
    BY <1>1, <1>2, ErrorStep, Zenon
  <1>3. CASE \E l \in {"dm", "check"}, d \in Volume : Goes(l, d)
    <2>1. PICK l \in {"dm", "check"}, d \in Volume : Goes(l, d)
      BY <1>3, Zenon
    <2> QED
      BY <1>1, <2>1, GoesStep, Zenon
  <1> QED
    BY <1>2, <1>3, Zenon

\* The scan of the LUN (RescanDeviceMap).
LEMMA ScanStep ==
    ASSUME IInv, ScanISCSI \/ ScanFC
    PROVE  HandlerStep
  <1>1. queue # <<>> /\ H.op = "publish" /\ RescanDeviceMap
    BY Zenon DEF ScanISCSI, ScanFC, Step, At
  <1>2. UNCHANGED <<lun, size, config, mounted>>
    BY <1>1, Zenon DEF RescanDeviceMap, array, files
  <1>3. PICK o \in Outcome, a \in Address :
          /\ Scan(a, o)
          /\ Then(o, IF WaitForDeviceState(a) = None THEN ReturnError
                     ELSE Continue([H EXCEPT !.at = "dm", !.dev = WaitForDeviceState(a)]))
    BY <1>1, Zenon DEF RescanDeviceMap
  <1>4. disk' \in [Address -> Volume \cup {None}]
    <2> DEFINE v == CHOOSE x \in MappedAt(a[2]) : TRUE
    <2>1. MappedAt(a[2]) # {} => v \in Volume
      BY Zenon DEF MappedAt
    <2>2. disk' = disk \/ (disk' = [disk EXCEPT ![a] = v] /\ MappedAt(a[2]) # {})
      BY <1>3, Zenon DEF Scan
    <2>3. disk \in [Address -> Volume \cup {None}]
      BY Zenon DEF IInv, Types
    <2> HIDE DEF v
    <2> QED
      BY <2>1, <2>2, <2>3, Zenon
  <1>5. Types'
    BY <1>2, <1>4, Zenon DEF IInv, Types
  <1>6. ReturnError \/ (disk'[a] \in Volume /\ Continue([H EXCEPT !.at = "dm", !.dev = disk'[a]]))
    BY <1>3, <1>4, Zenon DEF Then, WaitForDeviceState
  <1>7. ReturnError \/ (disk'[a] \in Volume /\ Goes("dm", disk'[a]))
    <2>1. "dm" \in Label
      BY Zenon DEF Label
    <2> QED
      BY <1>1, <1>6, <2>1, DeviceGoes, Zenon
  <1> QED
    BY <1>1, <1>2, <1>5, <1>7, DeviceSteps, Zenon

-----------------------------------------------------------------------------
\* At first nothing is mounted and no call waits.
LEMMA InitIInv == Init => IInv /\ Contract!Init
  <1> SUFFICES ASSUME Init
               PROVE  IInv /\ Contract!Init
    BY Zenon
  <1>1. Types /\ KubeletTypes /\ PodsOk
    BY Zenon DEF Init, Types, KubeletTypes, PodsOk
  <1>2. QueueOk(queue, stage, pod, mounted)
    <2>1. queue = <<>>
      BY Zenon DEF Init
    <2>2. queue \in Seq(CallType) /\ Len(queue) = 0
      BY <2>1
    <2>3. \A i \in 1..Len(queue) : FALSE
      BY <2>2
    <2>4. \A i \in 2..Len(queue) : FALSE
      BY <2>2
    <2> QED
      BY <2>1, <2>2, <2>3, <2>4, Zenon DEF QueueOk, Ordered
  <1>3. Contract!Init
    BY Zenon DEF Init, Contract!Init
  <1> QED
    BY <1>1, <1>2, <1>3, Zenon DEF IInv

\* Every step of a handler is one of its call.
LEMMA HandlerMoves ==
    ASSUME IInv, Handler
    PROVE  HandlerStep
  \* A step to label l that also sets the paths to be removed.
  <1>PathsGoes.
      ASSUME IInv, queue # <<>>, NEW l \in Label, NEW S \in SUBSET Address,
             Continue([H EXCEPT !.at = l, !.paths = S])
      PROVE  Goes(l, H.dev)
    <2> USE <1>PathsGoes
    <2>1. H \in CallType
      BY HeadFacts, Zenon
    <2> DEFINE c == [H EXCEPT !.at = l, !.paths = S]
    <2>2. c \in CallType /\ c.at = l /\ c.dev = H.dev
          /\ c.op = H.op /\ c.vol = H.vol /\ c.pod = H.pod /\ c.live = H.live /\ c.size = H.size
      BY <2>1, Zenon DEF CallType
    <2>3. Continue(c)
      BY Zenon
    <2> HIDE DEF c
    <2> QED
      BY <2>2, <2>3, Zenon DEF Goes

  \* A call of another kind, which neither mounts nor unmounts.
  <1>PlainStep.
      ASSUME IInv, queue # <<>>, H.op \in {"stage", "unstage", "expand"}, UNCHANGED mounted, Types',
             ReturnError \/ ReturnOk \/ \E l \in Label, d \in Volume \cup {None} : Goes(l, d)
      PROVE  HandlerStep
    <2> USE <1>PlainStep
    <2>1. MountStep
      BY Zenon DEF MountStep
    <2>2. CASE ReturnError \/ ReturnOk
      BY <2>1, <2>2, Zenon DEF HandlerStep, Moved
    <2>3. CASE \E l \in Label, d \in Volume \cup {None} : Goes(l, d)
      <3>1. PICK l \in Label, d \in Volume \cup {None} : Goes(l, d)
        BY <2>3, Zenon
      <3> QED
        BY <2>1, <3>1, GoesStep, Zenon
    <2> QED
      BY <2>2, <2>3, Zenon

  \* The same for a call of another kind whose steps are answers and Goto.
  <1>PlainGoto.
      ASSUME IInv, queue # <<>>, H.op \in {"stage", "unstage", "expand"}, UNCHANGED mounted, Types',
             ReturnError \/ ReturnOk \/ \E l \in Label : Goto(l)
      PROVE  HandlerStep
    <2> USE <1>PlainGoto
    <2>1. CASE ReturnError \/ ReturnOk
      BY <2>1, <1>PlainStep, Zenon
    <2>2. CASE \E l \in Label : Goto(l)
      <3>1. PICK l \in Label : Goto(l)
        BY <2>2, Zenon
      <3>2. Goes(l, H.dev) /\ H.dev \in Volume \cup {None}
        BY <3>1, GotoGoes, HeadFacts, Zenon DEF CallType
      <3> QED
        BY <3>2, <1>PlainStep, Zenon
    <2> QED
      BY <2>1, <2>2, Zenon

  \* NodeStageVolume.
  <1>StageSteps.
      ASSUME IInv, StageISCSI \/ StageFC \/ StageNVME \/ AddCHAPSecurity
      PROVE  HandlerStep
    <2> USE <1>StageSteps
    <2>1. queue # <<>> /\ H.op = "stage" /\ Quiet
      BY Zenon DEF StageISCSI, StageFC, StageNVME, AddCHAPSecurity, AddPortForHost, Step, At, Quiet, kernel, files
    <2>2. ReturnError \/ ReturnOk \/ Goto("chap")
      BY Zenon DEF StageISCSI, StageFC, StageNVME, AddCHAPSecurity, AddPortForHost, Then
    <2>3. "chap" \in Label
      BY Zenon DEF Label
    <2> QED
      BY <2>1, <2>2, <2>3, QuietTypes, <1>PlainGoto, Zenon DEF Quiet

  \* NodePublishVolume up to the device: nothing is asked of these labels.
  <1>TargetSteps.
      ASSUME IInv, PublishISCSI \/ PublishNVME \/ PublishFC \/ DiscoverTargets \/ LoginToTargets
      PROVE  HandlerStep
    <2> USE <1>TargetSteps
    <2>1. queue # <<>> /\ H.op = "publish" /\ Quiet
      BY Zenon DEF PublishISCSI, PublishNVME, PublishFC, DiscoverTargets, LoginToTargets,
             Step, At, Quiet, array, kernel, files
    <2>2. ReturnError \/ \E l \in {"discover", "login", "scan"} : Goto(l)
      BY Zenon DEF PublishISCSI, PublishNVME, PublishFC, DiscoverTargets, LoginToTargets, Then
    <2>3. MountStep /\ Types'
      BY <2>1, QuietTypes, Zenon DEF MountStep, Quiet
    <2>4. CASE ReturnError
      BY <2>1, <2>3, <2>4, ErrorStep, Zenon
    <2>5. CASE \E l \in {"discover", "login", "scan"} : Goto(l)
      <3>1. PICK l \in {"discover", "login", "scan"} : Goto(l)
        BY <2>5, Zenon
      <3>2. l \in Label
        BY <3>1, Zenon DEF Label
      <3>3. Goes(l, H.dev)
        BY <2>1, <3>1, <3>2, GotoGoes, Zenon
      <3> QED
        BY <2>1, <2>3, <3>1, <3>3, GoesStep, Zenon
    <2> QED
      BY <2>2, <2>4, <2>5, Zenon

  \* nvme list.
  <1>AttachNVMEStep.
      ASSUME IInv, AttachNVME
      PROVE  HandlerStep
    <2> USE <1>AttachNVMEStep
    <2>1. queue # <<>> /\ H.op = "publish" /\ Quiet
      BY Zenon DEF AttachNVME, Step, At, Quiet, array, files
    <2> DEFINE d == CHOOSE v \in NVMENamespaces(H.lun) : TRUE
    <2>2. NVMENamespaces(H.lun) # {} => d \in Volume
      BY Zenon DEF NVMENamespaces, MappedAt
    <2>3. \/ ReturnError
          \/ NVMENamespaces(H.lun) # {} /\ Continue([H EXCEPT !.at = "check", !.dev = d])
      BY Zenon DEF AttachNVME, Then
    <2> HIDE DEF d
    <2>4. ReturnError \/ (d \in Volume /\ Goes("check", d))
      <3>1. "check" \in Label
        BY Zenon DEF Label
      <3> QED
        BY <2>1, <2>2, <2>3, <3>1, DeviceGoes, Zenon
    <2> QED
      BY <2>1, <2>4, QuietTypes, DeviceSteps, Zenon DEF Quiet

  \* A step of NodePublishVolume that keeps its device.
  <1>PublishGoto.
      ASSUME IInv, queue # <<>>, H.op = "publish", MountStep, Types',
             H.at \in {"dm", "check", "config", "mount", "reconfig"},
             \/ ReturnError
             \/ \E l \in {"check", "config", "mount"} : Goto(l)
             \/ mounted'[H.pod] # None /\ \E l \in {"reconfig", "perms"} : Goto(l)
      PROVE  HandlerStep
    <2> USE <1>PublishGoto
    <2>1. H.dev \in Volume
      BY HeadFacts, Zenon DEF HeadOk
    <2>2. CASE ReturnError
      BY <2>2, ErrorStep, Zenon
    <2>3. ASSUME NEW l \in {"check", "config", "mount", "reconfig", "perms"}, Goto(l),
                 l \in {"reconfig", "perms"} => mounted'[H.pod] # None
          PROVE  HandlerStep
      <3>1. l \in Label
        BY <2>3, Zenon DEF Label
      <3>2. Goes(l, H.dev)
        BY <2>3, <3>1, GotoGoes, Zenon
      <3> QED
        BY <2>1, <2>3, <3>2, GoesStep, Zenon
    <2>4. CASE \E l \in {"check", "config", "mount"} : Goto(l)
      BY <2>3, <2>4, Zenon
    <2>5. CASE mounted'[H.pod] # None /\ \E l \in {"reconfig", "perms"} : Goto(l)
      BY <2>3, <2>5, Zenon
    <2> QED
      BY <2>2, <2>4, <2>5, Zenon

  \* The map of the disk (GetDMDevicePath) and the check of the target path.
  <1>CheckSteps.
      ASSUME IInv, AttachISCSI \/ SearchDiskFC \/ MountLogic
      PROVE  HandlerStep
    <2> USE <1>CheckSteps
    <2>1. queue # <<>> /\ H.op = "publish" /\ H.at \in {"dm", "check"} /\ Quiet
      BY Zenon DEF AttachISCSI, SearchDiskFC, GetDMDevicePath, MountLogic, Step, At, Quiet, array, kernel, files
    <2>2. MountStep /\ Types'
      BY <2>1, QuietTypes, Zenon DEF MountStep, Quiet
    <2>3. \/ ReturnError
          \/ \E l \in {"check", "config", "mount"} : Goto(l)
          \/ mounted'[H.pod] # None /\ \E l \in {"reconfig", "perms"} : Goto(l)
      BY <2>1, Zenon DEF AttachISCSI, SearchDiskFC, GetDMDevicePath, MountLogic, AfterMountLogic, Then, Quiet
    <2> QED
      BY <2>1, <2>2, <2>3, <1>PublishGoto, Zenon

  \* The JSON file, before the mount and once more after it (fc).
  <1>ConfigSteps.
      ASSUME IInv, Persist \/ MountFCDisk
      PROVE  HandlerStep
    <2> USE <1>ConfigSteps
    <2>1. queue # <<>> /\ H.op = "publish" /\ H.at \in {"config", "reconfig"}
      BY Zenon DEF Persist, MountFCDisk, At
    <2>2. H \in CallType /\ CallOk(H, stage, pod) /\ HeadOk(H, mounted)
      BY <2>1, HeadFacts, Zenon
    <2>3. UNCHANGED <<lun, size, disk, mounted>>
      BY Zenon DEF Persist, MountFCDisk, CreateConfigFile, array, kernel
    <2>4. Types'
      <3>1. config' = config \/ config' = [config EXCEPT ![H.vol] = H.dev]
        BY Zenon DEF Persist, MountFCDisk, CreateConfigFile
      <3>2. H.dev \in Volume \cup {None}
        BY <2>2, Zenon DEF CallType
      <3> QED
        BY <2>3, <3>1, <3>2, Zenon DEF IInv, Types
    <2>5. \/ ReturnError
          \/ \E l \in {"check", "config", "mount"} : Goto(l)
          \/ mounted'[H.pod] # None /\ \E l \in {"reconfig", "perms"} : Goto(l)
      <3>1. CASE Persist
        BY <3>1, Zenon DEF Persist, CreateConfigFile, Then
      <3>2. CASE MountFCDisk
        BY <2>2, <2>3, <3>2, Zenon DEF MountFCDisk, CreateConfigFile, Then, At, HeadOk
      <3> QED
        BY <3>1, <3>2, Zenon
    <2> QED
      BY <2>1, <2>3, <2>4, <2>5, <1>PublishGoto, Zenon DEF MountStep

  \* The mount.
  <1>MountSteps.
      ASSUME IInv, MountBlock \/ FormatAndMount
      PROVE  HandlerStep
    <2> USE <1>MountSteps
    <2>1. queue # <<>> /\ H.op = "publish" /\ H.at = "mount"
      BY Zenon DEF MountBlock, FormatAndMount, At
    <2>2. CallOk(H, stage, pod) /\ H.dev \in Volume
      BY <2>1, HeadFacts, Zenon DEF HeadOk
    <2>3. H.pod \in Pod /\ mounted \in [Pod -> Volume \cup {None}]
      BY <2>1, <2>2, Zenon DEF CallOk, IInv, KubeletTypes
    <2>4. PICK o \in Outcome : Mount(o)
      BY Zenon DEF MountBlock, FormatAndMount
    <2>5. UNCHANGED <<lun, size, disk, config>>
      BY <2>4, Zenon DEF Mount, array, kernel
    <2>6. MountStep
      BY <2>1, <2>2, <2>4, Zenon DEF Mount, MountStep
    <2>7. \/ ReturnError
          \/ mounted'[H.pod] # None /\ \E l \in {"reconfig", "perms"} : Goto(l)
      <3>1. CASE o = "ok"
        <4>1. mounted'[H.pod] = H.dev /\ H.dev # None
          BY <2>2, <2>3, <2>4, <3>1, NodeAssumption, Zenon DEF Mount, Done
        <4>2. Goto(IF proto[H.vol] = "fc" THEN "reconfig" ELSE "perms")
          BY <2>4, <3>1, Zenon DEF Mount, Then, Ok, AfterMountLogic
        <4> QED
          BY <4>1, <4>2, Zenon
      <3>2. CASE o # "ok"
        BY <2>4, <3>2, Zenon DEF Mount, Then, Ok
      <3> QED
        BY <3>1, <3>2, Zenon
    <2> QED
      BY <2>1, <2>5, <2>6, <2>7, QuietTypes, <1>PublishGoto, Zenon

  \* The end of NodePublishVolume and of NodeUnpublishVolume.
  <1>EndSteps.
      ASSUME IInv, SetVolumePermissions \/ CleanupOldMountDirectory
      PROVE  HandlerStep
    <2> USE <1>EndSteps
    <2>1. queue # <<>> /\ Quiet
      BY Zenon DEF SetVolumePermissions, CleanupOldMountDirectory, At, Quiet, array, kernel, files
    <2>2. /\ H.op = "publish" => mounted'[H.pod] # None
          /\ H.op = "unpublish" => mounted'[H.pod] = None
      BY <2>1, HeadFacts, Zenon DEF SetVolumePermissions, CleanupOldMountDirectory, At, HeadOk, Quiet
    <2>3. ReturnError \/ ReturnOk
      BY Zenon DEF SetVolumePermissions, CleanupOldMountDirectory, Then
    <2> QED
      BY <2>1, <2>2, <2>3, QuietTypes, Zenon DEF HandlerStep, Moved, MountStep, Quiet

  \* The unmount.
  <1>UnmountStep.
      ASSUME IInv, UnmountAndCleanUp
      PROVE  HandlerStep
    <2> USE <1>UnmountStep
    <2>1. queue # <<>> /\ H.op = "unpublish" /\ UNCHANGED <<lun, size, disk, config>>
      BY Zenon DEF UnmountAndCleanUp, At, array, kernel
    <2>2. H.pod \in Pod /\ mounted \in [Pod -> Volume \cup {None}]
      BY <2>1, HeadFacts, Zenon DEF CallOk, IInv, KubeletTypes
    <2>3. PICK o \in Outcome :
            /\ mounted' = IF Done(o) THEN [mounted EXCEPT ![H.pod] = None] ELSE mounted
            /\ Then(o, IF H.pod \in path THEN Goto("rmdir") ELSE ReturnOk)
      BY Zenon DEF UnmountAndCleanUp
    <2>4. MountStep
      BY <2>1, <2>3, Zenon DEF MountStep
    <2>5. ReturnError \/ (mounted'[H.pod] = None /\ (Goto("rmdir") \/ ReturnOk))
      BY <2>2, <2>3, Zenon DEF Then, Ok, Done
    <2>6. CASE ReturnError
      BY <2>1, <2>4, <2>6, QuietTypes, ErrorStep, Zenon
    <2>7. CASE mounted'[H.pod] = None /\ Goto("rmdir")
      <3>1. "rmdir" \in Label
        BY Zenon DEF Label
      <3>2. Goes("rmdir", H.dev)
        BY <2>1, <2>7, <3>1, GotoGoes, Zenon
      <3> QED
        BY <2>1, <2>4, <2>7, <3>2, QuietTypes, GoesStep, Zenon
    <2>8. CASE mounted'[H.pod] = None /\ ReturnOk
      BY <2>1, <2>4, <2>8, QuietTypes, Zenon DEF HandlerStep, Moved
    <2> QED
      BY <2>5, <2>6, <2>7, <2>8, Zenon

  \* NodeUnstageVolume: the steps that leave the disks and the file alone.
  <1>UnstageQuietSteps.
      ASSUME IInv, UnstageISCSI \/ UnstageFC \/ FindDevicesForMpath \/ MultipathFlush
      PROVE  HandlerStep
    <2> USE <1>UnstageQuietSteps
    <2>1. queue # <<>> /\ H.op = "unstage" /\ Quiet
      BY Zenon DEF UnstageISCSI, UnstageFC, FindDevicesForMpath, MultipathFlush, Step, At, Quiet, array, kernel, files
    <2>2. H \in CallType /\ Types' /\ UNCHANGED mounted
      BY <2>1, HeadFacts, QuietTypes, Zenon DEF Quiet
    <2>3. {"devices", "flush", "detach", "rmjson"} \subseteq Label
      BY Zenon DEF Label
    <2>4. config[H.vol] \in Volume \cup {None} /\ PathsOf(H.dev) \in SUBSET Address
      BY <2>2, Zenon DEF IInv, Types, CallType, PathsOf
    <2>5. \/ ReturnOk \/ ReturnError
          \/ \E l \in {"detach", "rmjson"} : Goto(l)
          \/ Continue([H EXCEPT !.at = "devices", !.dev = config[H.vol]])
          \/ Continue([H EXCEPT !.at = "flush", !.paths = PathsOf(H.dev)])
      BY Zenon DEF UnstageISCSI, UnstageFC, FindDevicesForMpath, MultipathFlush, LoadDiskInfoFromFile, Then
    <2>6. CASE ReturnOk \/ ReturnError \/ \E l \in {"detach", "rmjson"} : Goto(l)
      BY <2>1, <2>2, <2>3, <2>6, <1>PlainGoto, Zenon
    <2>7. CASE Continue([H EXCEPT !.at = "devices", !.dev = config[H.vol]])
      BY <2>1, <2>2, <2>3, <2>4, <2>7, DeviceGoes, <1>PlainStep, Zenon
    <2>8. CASE Continue([H EXCEPT !.at = "flush", !.paths = PathsOf(H.dev)])
      <3>1. Goes("flush", H.dev) /\ H.dev \in Volume \cup {None}
        BY <2>1, <2>2, <2>3, <2>4, <2>8, <1>PathsGoes, Zenon DEF CallType
      <3> QED
        BY <2>1, <2>2, <2>3, <3>1, <1>PlainStep, Zenon
    <2> QED
      BY <2>5, <2>6, <2>7, <2>8, Zenon

  \* NodeUnstageVolume: the disks (DetachMpathDevice, LogoutAllSessions).
  <1>DetachSteps.
      ASSUME IInv, DetachMpathDevice \/ LogoutAllSessions
      PROVE  HandlerStep
    <2> USE <1>DetachSteps
    <2>1. queue # <<>> /\ H.op = "unstage" /\ UNCHANGED <<lun, size, config, mounted>>
      BY Zenon DEF DetachMpathDevice, LogoutAllSessions, At, array, files
    <2>2. disk' \in [Address -> Volume \cup {None}]
      BY Zenon DEF DetachMpathDevice, LogoutAllSessions, DetachDiskByDeviceName, IInv, Types
    <2>3. Types'
      BY <2>1, <2>2, Zenon DEF IInv, Types
    <2>4. ReturnOk \/ Goto("rmjson")
      BY Zenon DEF DetachMpathDevice, LogoutAllSessions
    <2>5. "rmjson" \in Label
      BY Zenon DEF Label
    <2> QED
      BY <2>1, <2>3, <2>4, <2>5, <1>PlainGoto, Zenon

  \* NodeUnstageVolume: the file (RemoveJson).
  <1>RemoveSteps.
      ASSUME IInv, RemoveISCSI \/ RemoveFC \/ UnstageNVME
      PROVE  HandlerStep
    <2> USE <1>RemoveSteps
    <2>1. queue # <<>> /\ H.op = "unstage" /\ UNCHANGED <<lun, size, disk, mounted>>
      BY Zenon DEF RemoveISCSI, RemoveFC, UnstageNVME, RemoveJson, Step, At, array, kernel
    <2>2. config' = config \/ config' = [config EXCEPT ![H.vol] = None]
      BY Zenon DEF RemoveISCSI, RemoveFC, UnstageNVME, RemoveJson
    <2>3. Types'
      BY <2>1, <2>2, Zenon DEF IInv, Types
    <2>4. ReturnError \/ ReturnOk \/ Goto("logout")
      BY Zenon DEF RemoveISCSI, RemoveFC, UnstageNVME, RemoveJson, Then
    <2>5. "logout" \in Label
      BY Zenon DEF Label
    <2> QED
      BY <2>1, <2>3, <2>4, <2>5, <1>PlainGoto, Zenon

  \* NodeExpandVolume.
  <1>ExpandSteps.
      ASSUME IInv, ExpandISCSI \/ ExpandFC \/ ExpandNVME \/ RescanISCSI \/ RescanFC
                   \/ ResizeISCSI \/ ResizeFC \/ ExpandFileSystem
      PROVE  HandlerStep
    <2> USE <1>ExpandSteps
    <2>1. queue # <<>> /\ H.op = "expand"
      BY Zenon DEF ExpandISCSI, ExpandFC, ExpandNVME, RescanISCSI, RescanFC, ResizeISCSI, ResizeFC,
             ExpandFileSystem, Step, At
    <2>2. Quiet
      BY Zenon DEF ExpandISCSI, ExpandFC, ExpandNVME, RescanISCSI, RescanFC, ResizeISCSI, ResizeFC,
             ExpandFileSystem, FindMultipathDevice, RescanPaths, ResizeMap, Quiet, array, kernel, files
    <2>3. CallOk(H, stage, pod) /\ Types' /\ UNCHANGED mounted
      BY <2>1, <2>2, HeadFacts, QuietTypes, Zenon DEF Quiet
    <2>4. {"rescan", "resize", "grow"} \subseteq Label
      BY Zenon DEF Label
    <2>5. mounted[H.pod] \in Volume \cup {None}
      BY <2>1, <2>3, Zenon DEF CallOk, IInv, KubeletTypes
    <2>6. \/ ReturnError \/ ReturnOk
          \/ \E l \in {"resize", "grow"} : Goto(l)
          \/ \E l \in {"rescan", "grow"} : Continue([H EXCEPT !.at = l, !.dev = mounted[H.pod]])
      BY Zenon DEF ExpandISCSI, ExpandFC, ExpandNVME, RescanISCSI, RescanFC, ResizeISCSI, ResizeFC,
             ExpandFileSystem, FindMultipathDevice, RescanPaths, ResizeMap, Then
    <2>7. CASE ReturnError \/ ReturnOk \/ \E l \in {"resize", "grow"} : Goto(l)
      BY <2>1, <2>3, <2>4, <2>7, <1>PlainGoto, Zenon
    <2>8. CASE \E l \in {"rescan", "grow"} : Continue([H EXCEPT !.at = l, !.dev = mounted[H.pod]])
      BY <2>1, <2>3, <2>4, <2>5, <2>8, DeviceGoes, <1>PlainStep, Zenon
    <2> QED
      BY <2>6, <2>7, <2>8, Zenon

  <1> QED
    BY Zenon, <1>StageSteps, <1>TargetSteps, <1>AttachNVMEStep, ScanStep, <1>CheckSteps, <1>ConfigSteps, <1>MountSteps, <1>EndSteps,
       <1>UnmountStep, <1>UnstageQuietSteps, <1>DetachSteps, <1>RemoveSteps, <1>ExpandSteps DEF Handler

\* Every step keeps the invariant and is a step of the contract, or none.
LEMMA NextIInv == IInv /\ [Next]_vars => IInv' /\ ContractStep
  \* A mount or an unmount keeps what is known of the pods (MountBlock,
  \* FormatAndMount, UnmountAndCleanUp).
  <1>MountKeeps.
      ASSUME IInv, queue # <<>>, MountStep, UNCHANGED <<stage, pod>>
      PROVE  KubeletTypes' /\ PodsOk'
    <2> USE <1>MountKeeps
    <2>1. H \in CallType /\ CallOk(H, stage, pod)
      BY HeadFacts, Zenon
    <2>2. KubeletTypes /\ PodsOk
      BY Zenon DEF IInv
    <2>3. CASE UNCHANGED mounted
      BY <2>2, <2>3, Zenon DEF KubeletTypes, PodsOk
    <2>4. CASE H.op = "publish" /\ \E d \in Volume : mounted' = [mounted EXCEPT ![H.pod] = d]
      BY <2>1, <2>2, <2>4 DEF KubeletTypes, PodsOk, CallOk
    <2>5. CASE H.op = "unpublish" /\ mounted' = [mounted EXCEPT ![H.pod] = None]
      BY <2>1, <2>2, <2>5, Zenon DEF KubeletTypes, PodsOk, CallOk
    <2> QED
      BY <2>3, <2>4, <2>5, Zenon DEF MountStep

  \* A mount or an unmount is a step of the contract (Mount and Unmount of NodeContract).
  <1>MountImplements.
      ASSUME IInv, queue # <<>>, MountStep, UNCHANGED <<stage, pod>>
      PROVE  ContractStep
    <2> USE <1>MountImplements
    <2>1. H \in CallType /\ CallOk(H, stage, pod)
      BY HeadFacts, Zenon
    <2>2. KubeletTypes /\ PodsOk
      BY Zenon DEF IInv
    <2>3. CASE UNCHANGED mounted
      BY <2>3, Zenon DEF ContractStep, Contract!vars
    <2>4. CASE H.op = "publish" /\ \E d \in Volume : mounted' = [mounted EXCEPT ![H.pod] = d]
      <3>1. H.pod \in Pod /\ pod[H.pod] \in {"publishing", "unpublishing"}
        BY <2>1, <2>4, Zenon DEF CallOk
      <3>2. stage[Uses[H.pod]] = "staged"
        BY <2>2, <3>1, Zenon DEF PodsOk
      <3>3. On' = On \cup {H.pod}
        BY <2>2, <2>4, <3>1, NodeAssumption DEF On, KubeletTypes
      <3>4. Contract!Mount(H.pod)
        BY <3>1, <3>2, <3>3, Zenon DEF Contract!Mount, On
      <3> QED
        BY <3>1, <3>4, Zenon DEF ContractStep, Contract!Next, Contract!Mount
    <2>5. CASE H.op = "unpublish" /\ mounted' = [mounted EXCEPT ![H.pod] = None]
      <3>1. H.pod \in Pod /\ pod[H.pod] = "unpublishing"
        BY <2>1, <2>5, Zenon DEF CallOk
      <3>2. On' = On \ {H.pod}
        BY <2>2, <2>5, <3>1, Zenon DEF On, KubeletTypes
      <3>3. Contract!Unmount(H.pod)
        BY <3>1, <3>2, Zenon DEF Contract!Unmount, On
      <3> QED
        BY <3>1, <3>3, Zenon DEF ContractStep, Contract!Next, Contract!Unmount
    <2> QED
      BY <2>3, <2>4, <2>5, Zenon DEF MountStep

  \* The calls behind the head wait at their first step, where nothing is known.
  <1>FreshOk.
      ASSUME NEW c, c.at \in Fresh, NEW m
      PROVE  HeadOk(c, m)
    BY <1>FreshOk, Zenon DEF Fresh, HeadOk

  \* The queue when its head makes a step.
  <1>ContinueKeeps.
      ASSUME IInv, queue # <<>>, NEW c \in CallType, Continue(c), HeadOk(c, mounted'),
             c.op = H.op, c.vol = H.vol, c.pod = H.pod, c.live = H.live
      PROVE  QueueOk(queue, stage, pod, mounted)'
    <2> USE <1>ContinueKeeps
    <2>1. QueueOk(queue, stage, pod, mounted) /\ queue \in Seq(CallType)
      BY Zenon DEF IInv, QueueOk
    <2>2. H = queue[1] /\ Len(queue) \in Nat \ {0} /\ CallOk(H, stage, pod)
      BY HeadFacts, Zenon
    <2>3. /\ queue' \in Seq(CallType) /\ Len(queue') = Len(queue) /\ queue'[1] = c
          /\ \A i \in 2..Len(queue) : queue'[i] = queue[i]
      BY <2>1, Replaced DEF Continue
    <2>4. UNCHANGED <<stage, pod>>
      BY Zenon DEF Continue, k8s
    <2>5. Ordered(queue')
      BY <2>1, <2>2, <2>3 DEF QueueOk, Ordered
    <2>6. \A i \in 1..Len(queue') : CallOk(queue'[i], stage, pod)
      <3>1. CallOk(c, stage, pod)
        BY <2>2, Zenon DEF CallOk
      <3> QED
        BY <2>1, <2>2, <2>3, <3>1 DEF QueueOk
    <2> QED
      BY <2>1, <2>3, <2>4, <2>5, <2>6, Zenon DEF QueueOk

  \* The queue when its head leaves and the kubelet learns nothing.
  <1>PopKeeps.
      ASSUME IInv, queue # <<>>, queue' = Tail(queue),
             \A i \in 2..Len(queue) : CallOk(queue[i], stage', pod')
      PROVE  QueueOk(queue, stage, pod, mounted)'
    <2> USE <1>PopKeeps
    <2>1. QueueOk(queue, stage, pod, mounted) /\ queue \in Seq(CallType)
      BY Zenon DEF IInv, QueueOk
    <2>2. /\ queue' \in Seq(CallType) /\ Len(queue') = Len(queue) - 1 /\ Len(queue) \in Nat \ {0}
          /\ \A i \in 1..Len(queue') : queue'[i] = queue[i + 1]
      BY <2>1, Popped, Zenon
    <2>3. Ordered(queue')
      BY <2>1, <2>2 DEF QueueOk, Ordered
    <2>4. \A i \in 1..Len(queue') : CallOk(queue'[i], stage', pod')
      BY <2>2
    <2>5. \A i \in 1..Len(queue') : queue'[i].at \in Fresh
      BY <2>1, <2>2 DEF QueueOk
    <2>6. queue' # <<>> => HeadOk(queue'[1], mounted')
      <3>1. queue' # <<>> => 1 \in 1..Len(queue')
        BY <2>2
      <3> QED
        BY <2>5, <3>1, <1>FreshOk, Zenon
    <2> QED
      BY <2>2, <2>3, <2>4, <2>5, <2>6 DEF QueueOk

  \* Behind a call the kubelet waits for there is none of the same volume.
  <1>LiveIsLast.
      ASSUME IInv, queue # <<>>, H.live, NEW i \in 2..Len(queue)
      PROVE  queue[i] \in CallType /\ CallOk(queue[i], stage, pod) /\ queue[i].vol # H.vol
    <2> USE <1>LiveIsLast
    <2>1. H = queue[1] /\ Len(queue) \in Nat \ {0} /\ queue \in Seq(CallType)
      BY HeadFacts, Zenon DEF IInv, QueueOk
    <2>2. 1 \in 1..Len(queue) /\ i \in 1..Len(queue) /\ 1 < i
      BY <2>1
    <2>3. Ordered(queue) /\ CallOk(queue[i], stage, pod)
      BY <2>2, Zenon DEF IInv, QueueOk
    <2>4. queue[i] \in CallType
      BY <2>1, <2>2
    <2>5. queue[1].vol = queue[i].vol => ~queue[1].live
      BY <2>2, <2>3, Zenon DEF Ordered
    <2> QED
      BY <2>1, <2>3, <2>4, <2>5, Zenon

  \* The answer of NodeStageVolume and of NodeUnstageVolume.
  <1>StageAnswer.
      ASSUME IInv, queue # <<>>, ReturnOk, MountStep, H.live, H.op \in {"stage", "unstage"}
      PROVE  KubeletTypes' /\ PodsOk' /\ QueueOk(queue, stage, pod, mounted)' /\ ContractStep
    <2> USE <1>StageAnswer
    <2>1. H \in CallType /\ CallOk(H, stage, pod)
      BY HeadFacts, Zenon
    <2> DEFINE s == IF H.op = "stage" THEN "staged" ELSE "attached"
    <2>2. /\ stage' = [stage EXCEPT ![H.vol] = s] /\ UNCHANGED <<pod, mounted>>
          /\ queue' = Tail(queue) /\ H.vol \in Volume
      BY <2>1, Zenon DEF ReturnOk, MountStep, CallType
    <2>3. KubeletTypes /\ PodsOk /\ stage[H.vol] = IF H.op = "stage" THEN "staging" ELSE "unstaging"
      BY <2>1, Zenon DEF IInv, CallOk
    <2>4. KubeletTypes'
      BY <2>2, <2>3, Zenon DEF KubeletTypes
    <2>5. PodsOk'
      BY <2>2, <2>3, UsesAssumption, Zenon DEF KubeletTypes, PodsOk
    <2>6. QueueOk(queue, stage, pod, mounted)'
      <3>1. ASSUME NEW i \in 2..Len(queue)
            PROVE  CallOk(queue[i], stage', pod')
        <4>1. queue[i] \in CallType /\ CallOk(queue[i], stage, pod) /\ queue[i].vol # H.vol
          BY <1>LiveIsLast, Zenon
        <4>2. stage'[queue[i].vol] = stage[queue[i].vol]
          BY <2>2, <2>3, <4>1, Zenon DEF KubeletTypes, CallType
        <4> QED
          BY <2>2, <4>1, <4>2, Zenon DEF CallOk
      <3> QED
        BY <2>2, <3>1, <1>PopKeeps, Zenon
    <2>7. ContractStep
      <3>1. CASE H.op = "stage"
        BY <2>2, <2>3, <3>1, Zenon DEF ContractStep, Contract!Next, Contract!Stage
      <3>2. CASE H.op = "unstage"
        <4>1. \A p \in On : Uses[p] # H.vol
          BY <2>3, <3>2, Zenon DEF On, PodsOk
        <4> QED
          BY <2>2, <2>3, <3>2, <4>1, Zenon DEF ContractStep, Contract!Next, Contract!Unstage, On
      <3> QED
        BY <3>1, <3>2, Zenon
    <2> QED
      BY <2>4, <2>5, <2>6, <2>7, Zenon

  \* The answer of NodePublishVolume to a pod that still waits for it, and of
  \* NodeUnpublishVolume.
  <1>PodAnswer.
      ASSUME IInv, queue # <<>>, ReturnOk, MountStep, H.live,
             \/ H.op = "publish" /\ pod[H.pod] = "publishing" /\ mounted'[H.pod] # None
             \/ H.op = "unpublish" /\ mounted'[H.pod] = None
      PROVE  KubeletTypes' /\ PodsOk' /\ QueueOk(queue, stage, pod, mounted)' /\ ContractStep
    <2> USE <1>PodAnswer
    <2>1. H \in CallType /\ CallOk(H, stage, pod)
      BY HeadFacts, Zenon
    <2> DEFINE s == IF H.op = "publish" THEN "published" ELSE "gone"
    <2>2. H.pod \in Pod /\ Uses[H.pod] = H.vol
      BY <2>1, Zenon DEF CallOk
    <2>3. /\ pod' = [pod EXCEPT ![H.pod] = s] /\ stage' = stage
          /\ queue' = Tail(queue)
      BY Zenon DEF ReturnOk
    <2>4. KubeletTypes /\ PodsOk
      BY Zenon DEF IInv
    <2>5. \E d \in Volume \cup {None} : /\ mounted' = [mounted EXCEPT ![H.pod] = d]
                                        /\ d = None <=> H.op = "unpublish"
      <3>1. CASE UNCHANGED mounted
        BY <2>2, <2>4, <3>1, Zenon DEF KubeletTypes
      <3>2. CASE H.op = "publish" /\ \E d \in Volume : mounted' = [mounted EXCEPT ![H.pod] = d]
        BY <2>2, <2>4, <3>2, NodeAssumption, Zenon DEF KubeletTypes
      <3>3. CASE H.op = "unpublish" /\ mounted' = [mounted EXCEPT ![H.pod] = None]
        BY <3>3, Zenon
      <3> QED
        BY <3>1, <3>2, <3>3, Zenon DEF MountStep
    <2>6. KubeletTypes'
      BY <2>2, <2>3, <2>4, <2>5 DEF KubeletTypes
    <2>7. PodsOk'
      <3>1. stage[Uses[H.pod]] = "staged"
        BY <2>1, <2>2, <2>4, Zenon DEF CallOk, PodsOk
      <3> QED
        BY <2>2, <2>3, <2>4, <2>5, <3>1 DEF KubeletTypes, PodsOk
    <2>8. QueueOk(queue, stage, pod, mounted)'
      <3>1. ASSUME NEW i \in 2..Len(queue)
            PROVE  CallOk(queue[i], stage', pod')
        <4>1. CallOk(queue[i], stage, pod) /\ queue[i].vol # H.vol
          BY <1>LiveIsLast, Zenon
        <4> QED
          BY <2>2, <2>3, <2>4, <4>1, Zenon DEF CallOk, KubeletTypes
      <3> QED
        BY <2>3, <3>1, <1>PopKeeps, Zenon
    <2>9. ContractStep
      <3>1. CASE H.op = "publish"
        <4>1. On' = On \cup {H.pod}
          BY <2>2, <2>4, <2>5, <3>1, Zenon DEF On, KubeletTypes
        <4>2. stage[Uses[H.pod]] = "staged" /\ pod[H.pod] = "publishing"
          BY <2>2, <2>4, <3>1, Zenon DEF PodsOk
        <4> QED
          BY <2>2, <2>3, <3>1, <4>1, <4>2, Zenon DEF ContractStep, Contract!Next, Contract!Mount, On
      <3>2. CASE H.op = "unpublish"
        <4>1. On' = On \ {H.pod}
          BY <2>2, <2>4, <2>5, <3>2, Zenon DEF On, KubeletTypes
        <4>2. pod[H.pod] = "unpublishing"
          BY <2>1, <3>2, Zenon DEF CallOk
        <4> QED
          BY <2>2, <2>3, <3>2, <4>1, <4>2, Zenon DEF ContractStep, Contract!Next, Contract!Unmount, On
      <3> QED
        BY <3>1, <3>2, Zenon
    <2> QED
      BY <2>6, <2>7, <2>8, <2>9, Zenon

  \* Any step of a handler keeps the invariant and the contract.
  <1>HandlerKeeps.
      ASSUME IInv, HandlerStep
      PROVE  IInv' /\ ContractStep
    <2> USE <1>HandlerKeeps
    <2>1. queue # <<>> /\ MountStep /\ Types'
      BY Zenon DEF HandlerStep
    <2>2. ASSUME UNCHANGED <<stage, pod>>, queue' = Tail(queue)
          PROVE  IInv' /\ ContractStep
      <3>1. KubeletTypes' /\ PodsOk' /\ ContractStep
        BY <2>1, <2>2, <1>MountKeeps, <1>MountImplements, Zenon
      <3>2. Len(queue) \in Nat /\ \A i \in 1..Len(queue) : CallOk(queue[i], stage', pod')
        BY <2>1, <2>2, HeadFacts, Zenon DEF IInv, QueueOk
      <3>3. QueueOk(queue, stage, pod, mounted)'
        BY <2>1, <2>2, <3>2, <1>PopKeeps
      <3> QED
        BY <2>1, <3>1, <3>3, Zenon DEF IInv
    <2>3. CASE \E c \in CallType :
                 /\ Continue(c) /\ HeadOk(c, mounted')
                 /\ c.op = H.op /\ c.vol = H.vol /\ c.pod = H.pod /\ c.live = H.live /\ c.size = H.size
      <3>1. QueueOk(queue, stage, pod, mounted)'
        BY <2>1, <2>3, <1>ContinueKeeps, Zenon
      <3>2. UNCHANGED <<stage, pod>>
        BY <2>3, Zenon DEF Continue, k8s
      <3>3. KubeletTypes' /\ PodsOk' /\ ContractStep
        BY <2>1, <3>2, <1>MountKeeps, <1>MountImplements, Zenon
      <3> QED
        BY <2>1, <3>1, <3>3, Zenon DEF IInv
    <2>4. CASE ReturnError
      BY <2>2, <2>4, Zenon DEF ReturnError, k8s
    <2>5. CASE /\ ReturnOk
               /\ H.op = "publish" => mounted'[H.pod] # None
               /\ H.op = "unpublish" => mounted'[H.pod] = None
      <3>1. CASE H.live /\ H.op \in {"stage", "unstage"}
        BY <2>1, <2>5, <3>1, <1>StageAnswer, Zenon DEF IInv
      <3>2. CASE H.live /\ ((H.op = "publish" /\ pod[H.pod] = "publishing") \/ H.op = "unpublish")
        BY <2>1, <2>5, <3>2, <1>PodAnswer, Zenon DEF IInv
      <3>3. CASE ~H.live \/ H.op \notin {"stage", "unstage", "publish", "unpublish"}
                 \/ (H.op = "publish" /\ pod[H.pod] # "publishing")
        <4>1. UNCHANGED <<stage, pod>> /\ queue' = Tail(queue)
          BY <2>5, <3>3, Zenon DEF ReturnOk
        <4> QED
          BY <2>2, <4>1, Zenon
      <3> QED
        BY <3>1, <3>2, <3>3, Zenon
    <2> QED
      BY <2>3, <2>4, <2>5, Zenon DEF HandlerStep, Moved

  \* A new call joins the queue (Send).
  <1>SendKeeps.
      ASSUME IInv, NEW c \in CallType, queue' = Append(queue, c), ~InFlight(c.vol),
             c.at \in Fresh, CallOk(c, stage', pod'), UNCHANGED mounted,
             \A i \in 1..Len(queue) : CallOk(queue[i], stage', pod')
      PROVE  QueueOk(queue, stage, pod, mounted)'
    <2> USE <1>SendKeeps
    <2>1. QueueOk(queue, stage, pod, mounted) /\ queue \in Seq(CallType) /\ Len(queue) \in Nat
      BY DEF IInv, QueueOk
    <2>2. /\ queue' \in Seq(CallType) /\ Len(queue') = Len(queue) + 1
          /\ \A i \in 1..Len(queue) : queue'[i] = queue[i]
          /\ queue'[Len(queue) + 1] = c
      BY <2>1, Pushed
    <2>3. \A i \in 1..Len(queue) : queue[i].vol = c.vol => ~queue[i].live
      BY <2>1 DEF InFlight
    <2>4. Ordered(queue')
      BY <2>1, <2>2, <2>3 DEF QueueOk, Ordered
    <2>5. \A i \in 1..Len(queue') : CallOk(queue'[i], stage', pod')
      BY <2>1, <2>2
    <2>6. \A i \in 2..Len(queue') : queue'[i].at \in Fresh
      BY <2>1, <2>2 DEF QueueOk
    <2>7. queue' # <<>> => HeadOk(queue'[1], mounted')
      <3>1. CASE queue = <<>>
        BY <2>1, <2>2, <3>1, <1>FreshOk
      <3>2. CASE queue # <<>>
        BY <2>1, <2>2, <3>2, SMTT(20) DEF QueueOk
      <3> QED
        BY <3>1, <3>2, Zenon
    <2> QED
      BY <2>2, <2>4, <2>5, <2>6, <2>7, Zenon DEF QueueOk

  \* Steps that leave the kubelet's knowledge, the mounts and the queue alone.
  <1>Untouched.
      ASSUME IInv, Types', UNCHANGED <<stage, pod, mounted, queue>>
      PROVE  IInv' /\ ContractStep
    <2> USE <1>Untouched
    <2>1. KubeletTypes' /\ PodsOk' /\ QueueOk(queue, stage, pod, mounted)'
      BY Zenon DEF IInv, KubeletTypes, PodsOk
    <2> QED
      BY <2>1, Zenon DEF IInv, ContractStep, Contract!vars

  \* The attacher: Attach and Detach.
  <1>AttachKeeps.
      ASSUME IInv, NEW v \in Volume, Attach(v) \/ Detach(v)
      PROVE  IInv' /\ ContractStep
    <2> USE <1>AttachKeeps
    <2> DEFINE s == IF stage[v] = "detached" THEN "attached" ELSE "detached"
    <2>1. /\ stage[v] \in {"detached", "attached"} /\ stage' = [stage EXCEPT ![v] = s]
          /\ UNCHANGED <<pod, mounted, queue, size, disk, config>>
      BY Zenon DEF Attach, Detach, kernel, files
    <2>2. Types /\ KubeletTypes /\ PodsOk /\ QueueOk(queue, stage, pod, mounted)
      BY Zenon DEF IInv
    <2>3. Types'
      BY <2>1, <2>2, Zenon DEF Types, Attach, Detach
    <2>4. KubeletTypes' /\ PodsOk'
      BY <2>1, <2>2, UsesAssumption, Zenon DEF KubeletTypes, PodsOk
    <2>5. \A i \in 1..Len(queue) : CallOk(queue[i], stage', pod')
      <3>1. ASSUME NEW i \in 1..Len(queue)
            PROVE  CallOk(queue[i], stage', pod')
        <4>1. CallOk(queue[i], stage, pod) /\ queue[i].vol \in Volume
          BY Queued, Zenon
        <4> QED
          BY <2>1, <2>2, <4>1, Zenon DEF CallOk, KubeletTypes
      <3> QED
        BY <3>1, Zenon
    <2>6. QueueOk(queue, stage, pod, mounted)'
      BY <2>1, <2>2, <2>5, Zenon DEF QueueOk
    <2>7. ContractStep
      BY <2>1, Zenon DEF ContractStep, Contract!Next, Contract!Ask
    <2> QED
      BY <2>3, <2>4, <2>6, <2>7, Zenon DEF IInv

  \* The kubelet's calls for a volume: CallStage and CallUnstage.
  <1>CallVolumeKeeps.
      ASSUME IInv, NEW v \in Volume, CallStage(v) \/ CallUnstage(v)
      PROVE  IInv' /\ ContractStep
    <2> USE <1>CallVolumeKeeps
    <2>1. Types /\ KubeletTypes /\ PodsOk /\ QueueOk(queue, stage, pod, mounted)
      BY Zenon DEF IInv
    <2>2. PICK op \in {"stage", "unstage"}, at \in {"port", "load"}, s \in {"staging", "unstaging"} :
             /\ Send(op, v, None, at) /\ stage' = [stage EXCEPT ![v] = s] /\ UNCHANGED pod
             /\ s = IF op = "stage" THEN "staging" ELSE "unstaging"
             /\ stage[v] \in IF op = "stage" THEN {"attached", "staging"}
                             ELSE {"staging", "staged", "unstaging"}
             /\ op = "unstage" => ~Busy(v)
      BY Zenon DEF CallStage, CallUnstage
    <2>3. Types' /\ UNCHANGED mounted
      BY <2>1, <2>2, Zenon DEF Types, Send, array, kernel, files
    <2>4. \A p \in Pod : Uses[p] = v => pod[p] \in {"new", "gone"}
      BY <2>1, <2>2, Zenon DEF PodsOk, KubeletTypes, Busy, PodsOf
    <2>5. KubeletTypes' /\ PodsOk'
      BY <2>1, <2>2, <2>3, <2>4, UsesAssumption, Zenon DEF KubeletTypes, PodsOk
    <2>6. QueueOk(queue, stage, pod, mounted)'
      <3> DEFINE c == Call(op, v, None, at)
      <3>1. c \in CallType /\ c.op = op /\ c.vol = v /\ c.at = at
        <4>1. op \in Op /\ at \in Label
          BY <2>2, Zenon DEF Op, Label, Fresh
        <4> QED
          BY <2>1, <4>1, CallTyped
      <3>2. CallOk(c, stage', pod')
        BY <2>1, <2>2, <3>1, Zenon DEF CallOk, KubeletTypes
      <3>3. ~InFlight(v) /\ queue' = Append(queue, c)
        BY <2>2, Zenon DEF Send
      <3>4. ASSUME NEW i \in 1..Len(queue)
            PROVE  CallOk(queue[i], stage', pod')
        <4>1. CallOk(queue[i], stage, pod) /\ queue[i] \in CallType /\ queue[i].vol \in Volume
          BY Queued, Zenon
        <4>2. queue[i].vol = v => ~queue[i].live
          BY <2>1, <3>3 DEF InFlight, QueueOk
        <4> QED
          BY <2>1, <2>2, <4>1, <4>2, Zenon DEF CallOk, KubeletTypes
      <3> HIDE DEF c
      <3> QED
        BY <2>2, <2>3, <3>1, <3>2, <3>3, <3>4, <1>SendKeeps, Zenon DEF Fresh
    <2>7. ContractStep
      <3>1. CASE stage[v] = s
        BY <2>1, <2>2, <2>3, <3>1, Zenon DEF ContractStep, Contract!vars, KubeletTypes
      <3>2. CASE stage[v] # s
        <4>1. <<stage[v], s>> \in {<<"detached", "attached">>, <<"attached", "detached">>,
                                   <<"attached", "staging">>, <<"staging", "unstaging">>,
                                   <<"staged", "unstaging">>}
          BY <2>2, <3>2, Zenon
        <4> QED
          BY <2>2, <2>3, <2>4, <4>1, Zenon DEF ContractStep, Contract!Next, Contract!Ask
      <3> QED
        BY <3>1, <3>2, Zenon
    <2> QED
      BY <2>3, <2>5, <2>6, <2>7, Zenon DEF IInv

  \* The kubelet's calls for a pod: CallPublish, CallUnpublish and CallExpand.
  <1>CallPodKeeps.
      ASSUME IInv, NEW p \in Pod, CallPublish(p) \/ CallUnpublish(p) \/ CallExpand(p)
      PROVE  IInv' /\ ContractStep
    <2> USE <1>CallPodKeeps
    <2>1. Types /\ KubeletTypes /\ PodsOk /\ QueueOk(queue, stage, pod, mounted)
      BY Zenon DEF IInv
    <2>2. PICK op \in {"publish", "unpublish", "expand"}, at \in {"targets", "unmount", "find"} :
             /\ Send(op, Uses[p], p, at) /\ UNCHANGED stage
             /\ \/ op = "publish" /\ pod[p] \in {"new", "publishing"} /\ stage[Uses[p]] = "staged"
                   /\ pod' = [pod EXCEPT ![p] = "publishing"]
                \/ op = "unpublish" /\ pod[p] = "unpublishing" /\ pod' = pod
                \/ op = "expand" /\ pod' = pod
      BY Zenon DEF CallPublish, CallUnpublish, CallExpand
    <2>3. Types' /\ UNCHANGED mounted
      BY <2>1, <2>2, Zenon DEF Types, Send, array, kernel, files
    <2>4. KubeletTypes' /\ PodsOk'
      BY <2>1, <2>2, <2>3, UsesAssumption, Zenon DEF KubeletTypes, PodsOk
    <2>5. QueueOk(queue, stage, pod, mounted)'
      <3> DEFINE c == Call(op, Uses[p], p, at)
      <3>1. c \in CallType /\ c.op = op /\ c.vol = Uses[p] /\ c.pod = p /\ c.at = at
        <4>1. op \in Op /\ at \in Label
          BY <2>2, Zenon DEF Op, Label, Fresh
        <4>2. Uses[p] \in Volume /\ p \in Pod \cup {None}
          BY UsesAssumption, Zenon
        <4>3. \A v \in Volume :
                /\ Call(op, v, p, at) \in CallType /\ Call(op, v, p, at).op = op
                /\ Call(op, v, p, at).vol = v /\ Call(op, v, p, at).pod = p /\ Call(op, v, p, at).at = at
          BY <2>1, <4>1, <4>2, CallTyped, SMTT(30)
        <4> QED
          BY <4>2, <4>3, Zenon
      <3>2. ~InFlight(Uses[p]) /\ queue' = Append(queue, c)
        BY <2>2, Zenon DEF Send
      <3>3. CallOk(c, stage', pod')
        BY <2>1, <2>2, <3>1, Zenon DEF CallOk, KubeletTypes
      <3>4. ASSUME NEW i \in 1..Len(queue)
            PROVE  CallOk(queue[i], stage', pod')
        <4>1. CallOk(queue[i], stage, pod)
          BY Queued, Zenon
        <4> QED
          BY <2>1, <2>2, <4>1, Zenon DEF CallOk, KubeletTypes
      <3> HIDE DEF c
      <3> QED
        BY <2>2, <2>3, <3>1, <3>2, <3>3, <3>4, <1>SendKeeps, Zenon DEF Fresh
    <2>6. ContractStep
      <3>1. CASE pod' = pod
        BY <2>2, <2>3, <3>1, Zenon DEF ContractStep, Contract!vars
      <3>2. CASE pod' # pod
        <4>1. pod[p] = "new" /\ stage[Uses[p]] = "staged" /\ pod' = [pod EXCEPT ![p] = "publishing"]
          BY <2>1, <2>2, <3>2 DEF KubeletTypes
        <4> QED
          BY <2>2, <2>3, <4>1, Zenon DEF ContractStep, Contract!Next, Contract!Ask
      <3> QED
        BY <3>1, <3>2, Zenon
    <2> QED
      BY <2>3, <2>4, <2>5, <2>6, Zenon DEF IInv

  \* A pod is deleted, possibly while its publish is under way.
  <1>DeletePodKeeps.
      ASSUME IInv, NEW p \in Pod, DeletePod(p)
      PROVE  IInv' /\ ContractStep
    <2> USE <1>DeletePodKeeps
    <2>1. Types /\ KubeletTypes /\ PodsOk /\ QueueOk(queue, stage, pod, mounted)
      BY Zenon DEF IInv
    <2>2. /\ pod[p] \in {"new", "publishing", "published"}
          /\ pod' = [pod EXCEPT ![p] = IF @ = "new" THEN "gone" ELSE "unpublishing"]
          /\ UNCHANGED <<lun, size, stage, disk, mounted, config, queue>>
      BY Zenon DEF DeletePod, array, kernel, files
    <2>3. Types'
      BY <2>1, <2>2, Zenon DEF Types
    <2>4. KubeletTypes' /\ PodsOk'
      BY <2>1, <2>2, Zenon DEF KubeletTypes, PodsOk
    <2>5. \A i \in 1..Len(queue) : CallOk(queue[i], stage', pod')
      <3>1. ASSUME NEW i \in 1..Len(queue)
            PROVE  CallOk(queue[i], stage', pod')
        <4>1. CallOk(queue[i], stage, pod)
          BY Queued, Zenon
        <4> QED
          BY <2>1, <2>2, <4>1, Zenon DEF CallOk, KubeletTypes
      <3> QED
        BY <3>1, Zenon
    <2>6. QueueOk(queue, stage, pod, mounted)'
      BY <2>1, <2>2, <2>5, Zenon DEF QueueOk
    <2>7. ContractStep
      BY <2>2, Zenon DEF ContractStep, Contract!Next, Contract!Ask
    <2> QED
      BY <2>3, <2>4, <2>6, <2>7, Zenon DEF IInv

  \* The kubelet gives a call up (GiveUp).
  <1>GiveUpKeeps.
      ASSUME IInv, NEW i \in DOMAIN queue, GiveUp(i)
      PROVE  IInv' /\ ContractStep
    <2> USE <1>GiveUpKeeps
    <2>1. /\ queue' = [queue EXCEPT ![i].live = FALSE]
          /\ UNCHANGED <<lun, size, stage, pod, disk, mounted, config>>
      BY Zenon DEF GiveUp, array, k8s, kernel, files
    <2>2. Types /\ KubeletTypes /\ PodsOk /\ QueueOk(queue, stage, pod, mounted) /\ queue \in Seq(CallType)
      BY Zenon DEF IInv, QueueOk
    <2> DEFINE c == [queue[i] EXCEPT !.live = FALSE]
    <2>3. queue[i] \in CallType /\ i \in 1..Len(queue) /\ CallOk(queue[i], stage, pod)
      BY <2>2, Queued
    <2>4. /\ c \in CallType /\ c.live = FALSE /\ c.op = queue[i].op /\ c.vol = queue[i].vol
          /\ c.pod = queue[i].pod /\ c.at = queue[i].at /\ c.dev = queue[i].dev
      BY <2>3, Zenon DEF CallType
    <2>5. queue' = [queue EXCEPT ![i] = c]
      BY <2>1, Zenon
    <2> HIDE DEF c
    <2>6. /\ queue' \in Seq(CallType) /\ Len(queue') = Len(queue)
          /\ \A j \in 1..Len(queue) : queue'[j] = IF j = i THEN c ELSE queue[j]
      BY <2>2, <2>3, <2>4, <2>5
    <2>7. Ordered(queue')
      BY <2>2, <2>4, <2>6, Zenon DEF QueueOk, Ordered
    <2>8. \A j \in 1..Len(queue') : CallOk(queue'[j], stage', pod')
      <3>1. CallOk(c, stage, pod)
        BY <2>3, <2>4, Zenon DEF CallOk
      <3> QED
        BY <2>1, <2>2, <2>6, <3>1, Zenon DEF QueueOk
    <2>9. \A j \in 2..Len(queue') : queue'[j].at \in Fresh
      BY <2>2, <2>4, <2>6 DEF QueueOk
    <2>10. HeadOk(queue'[1], mounted')
      <3>1. HeadOk(queue[1], mounted) /\ 1 \in 1..Len(queue)
        BY <2>2, <2>3 DEF QueueOk
      <3> QED
        BY <2>1, <2>4, <2>6, <3>1 DEF HeadOk
    <2>11. QueueOk(queue, stage, pod, mounted)'
      BY <2>6, <2>7, <2>8, <2>9, <2>10, Zenon DEF QueueOk
    <2>12. Types' /\ KubeletTypes' /\ PodsOk'
      BY <2>1, <2>2, Zenon DEF Types, KubeletTypes, PodsOk
    <2> QED
      BY <2>1, <2>11, <2>12, Zenon DEF IInv, ContractStep, Contract!vars

  \* The container restarts (Crash).
  <1>CrashKeeps.
      ASSUME IInv, Crash
      PROVE  IInv' /\ ContractStep
    <2> USE <1>CrashKeeps
    <2>1. queue' = <<>> /\ UNCHANGED <<lun, size, stage, pod, disk, mounted, config>>
      BY Zenon DEF Crash, array, k8s, kernel, files
    <2>2. Types' /\ KubeletTypes' /\ PodsOk'
      BY <2>1, Zenon DEF IInv, Types, KubeletTypes, PodsOk
    <2>3. QueueOk(queue, stage, pod, mounted)'
      BY <2>1 DEF QueueOk, Ordered
    <2> QED
      BY <2>1, <2>2, <2>3, Zenon DEF IInv, ContractStep, Contract!vars

  <1> SUFFICES ASSUME IInv, [Next]_vars
               PROVE  IInv' /\ ContractStep
    BY Zenon
  <1>1. CASE \E v \in Volume : Attach(v) \/ Detach(v)
    BY <1>1, <1>AttachKeeps, Zenon
  <1>2. CASE \E v \in Volume : CallStage(v) \/ CallUnstage(v)
    BY <1>2, <1>CallVolumeKeeps, Zenon
  <1>3. CASE \E v \in Volume : Grow(v) \/ AddMap(v)
    <2>1. UNCHANGED <<stage, pod, mounted, queue, lun, disk, config>>
      BY <1>3, Zenon DEF Grow, AddMap, array, k8s, kernel, files
    <2>2. size' \in [Volume -> Nat]
      <3>1. size \in [Volume -> Nat]
        BY Zenon DEF IInv, Types
      <3>2. \A v \in Volume : Grow(v) => size' = [size EXCEPT ![v] = @ + 1]
        BY Zenon DEF Grow
      <3>3. \A v \in Volume : AddMap(v) => size' = size
        BY Zenon DEF AddMap, array
      <3> QED
        BY <1>3, <3>1, <3>2, <3>3
    <2>3. Types'
      BY <2>1, <2>2, Zenon DEF IInv, Types
    <2> QED
      BY <2>1, <2>3, <1>Untouched, Zenon
  <1>4. CASE \E p \in Pod : CallPublish(p) \/ CallUnpublish(p) \/ CallExpand(p)
    BY <1>4, <1>CallPodKeeps, Zenon
  <1>5. CASE \E p \in Pod : DeletePod(p)
    BY <1>5, <1>DeletePodKeeps, Zenon
  <1>6. CASE \E i \in DOMAIN queue : GiveUp(i)
    BY <1>6, <1>GiveUpKeeps, Zenon
  <1>7. CASE Crash
    BY <1>7, <1>CrashKeeps, Zenon
  <1>8. CASE Handler
    BY Zenon, <1>8, <1>HandlerKeeps, HandlerMoves
  <1>9. CASE UNCHANGED vars
    <2>1. UNCHANGED <<stage, pod, mounted, queue>> /\ Types'
      BY <1>9, QuietTypes, Zenon DEF vars, array, k8s, kernel, files
    <2> QED
      BY <2>1, <1>Untouched, Zenon
  <1> QED
    BY <1>1, <1>2, <1>3, <1>4, <1>5, <1>6, <1>7, <1>8, <1>9, Zenon DEF Next

\* The node plugin keeps the contract of NodeContract (ContractKept): whatever
\* fails, and although calls the kubelet gave up run late, a target path is
\* mounted only between the request to publish it and the confirmed unpublish,
\* a confirmed publish is mounted, and a volume is unstaged only without mounts.
THEOREM ContractImplemented == Spec => ContractKept
  <1>1. Init => IInv /\ Contract!Init
    BY InitIInv, Zenon
  <1>2. IInv /\ [Next]_vars => IInv' /\ [Contract!Next]_(Contract!vars)
    BY NextIInv, Zenon DEF ContractStep
  <1> QED
    BY <1>1, <1>2, PTL DEF Spec, ContractKept, Contract!Spec

-----------------------------------------------------------------------------
(* What is mounted stays usable.  A mounted device is the one that a       *)
(* publish of the volume finds, so that a second publish finds it too; its *)
(* map is in use, so that no unstage takes it or its disks away, and as    *)
(* long as there is a map no session ends.                                 *)

Sessioned(v) == proto[v] \in {"iscsi", "nvme"} => proto[v] \in session

\* A scan for v finds the disk of d.
Found(v, d) == d \in Volume /\ proto[v] # "nvme" /\ disk[<<proto[v], lun[v]>>] = d

\* A publish of v ends with the device d.
Serves(v, d) == Sessioned(v) /\ IF proto[v] = "nvme" THEN d = v ELSE Found(v, d) /\ d \in map

NodeTypes == proto \in [Volume -> Protocol] /\ map \subseteq Volume

Luns ==
    \A v \in Volume :
        /\ stage[v] # "detached" => lun[v] # None
        /\ \A w \in Volume : lun[v] = lun[w] /\ lun[v] # None => v = w

\* The LUN a publish was called with is the volume's.
Asked == \A i \in 1..Len(queue) : queue[i].op = "publish" => queue[i].lun = lun[queue[i].vol]

Mounts == \A p \in Pod : mounted[p] # None => Serves(Uses[p], mounted[p]) /\ config[Uses[p]] = mounted[p]

\* What the call that holds the mutex has found.
Working(c) ==
    /\ c.op = "publish" /\ c.at = "scan" => Sessioned(c.vol)
    /\ c.op = "publish" /\ c.at = "dm" => Sessioned(c.vol) /\ Found(c.vol, c.dev)
    /\ c.op = "publish" /\ c.at \in {"check", "config", "mount", "reconfig", "perms"} => Serves(c.vol, c.dev)
    /\ c.op = "publish" /\ c.at = "mount" => config[c.vol] = c.dev
    /\ c.op = "unstage" /\ c.at \in {"flush", "detach"} => c.paths \subseteq PathsOf(c.dev)
    /\ c.op = "unstage" /\ c.at = "detach" => ~InUse(c.dev)

UInv == NodeTypes /\ Luns /\ Asked /\ Mounts /\ (queue # <<>> => Working(queue[1]))

\* Sessions, maps and disks may be added; those that are there stay.
Added ==
    /\ proto' = proto /\ session \subseteq session' /\ map \subseteq map' /\ map' \subseteq Volume
    /\ \A a \in Address : disk[a] # None => disk'[a] = disk[a]

\* A volume that is in use keeps its LUN.
LunsKept == \A v \in Volume : stage[v] = "staged" => lun'[v] = lun[v]

\* A volume has one device.
LEMMA OneDevice ==
    ASSUME NEW v, NEW d, NEW e, Serves(v, d), Serves(v, e)
    PROVE  d = e
  BY DEF Serves, Found

\* The volume of a publish that waits or runs is staged.
LEMMA PublishStaged ==
    ASSUME IInv, NEW i \in 1..Len(queue), queue[i].op = "publish"
    PROVE  queue[i].vol \in Volume /\ stage[queue[i].vol] = "staged"
  <1>1. queue[i].vol \in Volume /\ CallOk(queue[i], stage, pod)
    BY Queued, Zenon
  <1> QED
    BY <1>1, Zenon DEF CallOk, IInv, PodsOk

\* The call c is at its first step, or is what the head of the queue was.
SameHead(c) ==
    \/ c.at \in Fresh
    \/ queue # <<>> /\ c.op = H.op /\ c.vol = H.vol /\ c.at = H.at /\ c.dev = H.dev /\ c.paths = H.paths

\* A call goes on as c; its LUN is kept.
Advances(c) ==
    /\ Continue(c) /\ c.op = H.op /\ c.vol = H.vol /\ c.pod = H.pod /\ c.lun = H.lun

\* Goto(l) keeps what the call has found.
LEMMA GotoAdvances ==
    ASSUME IInv, queue # <<>>, NEW l \in Label, Goto(l)
    PROVE  \E c \in CallType : Advances(c) /\ c.at = l /\ c.dev = H.dev /\ c.paths = H.paths
  <1>1. H \in CallType
    BY HeadFacts, Zenon
  <1> DEFINE c == [H EXCEPT !.at = l]
  <1>2. /\ c \in CallType /\ c.at = l /\ c.dev = H.dev /\ c.paths = H.paths
        /\ c.op = H.op /\ c.vol = H.vol /\ c.pod = H.pod /\ c.lun = H.lun
    BY <1>1, Zenon DEF CallType
  <1>3. Continue(c)
    BY Zenon DEF Goto
  <1> HIDE DEF c
  <1> QED
    BY <1>2, <1>3, Zenon DEF Advances

\* A step that sets the device.
LEMMA DeviceAdvances ==
    ASSUME IInv, queue # <<>>, NEW l \in Label, NEW d \in Volume \cup {None},
           Continue([H EXCEPT !.at = l, !.dev = d])
    PROVE  \E c \in CallType : Advances(c) /\ c.at = l /\ c.dev = d
  <1>1. H \in CallType
    BY HeadFacts, Zenon
  <1> DEFINE c == [H EXCEPT !.at = l, !.dev = d]
  <1>2. /\ c \in CallType /\ c.at = l /\ c.dev = d
        /\ c.op = H.op /\ c.vol = H.vol /\ c.pod = H.pod /\ c.lun = H.lun
    BY <1>1, Zenon DEF CallType
  <1>3. Continue(c)
    BY Zenon
  <1> HIDE DEF c
  <1> QED
    BY <1>2, <1>3, Zenon DEF Advances

\* A step that sets the paths to be removed.
LEMMA PathsAdvances ==
    ASSUME IInv, queue # <<>>, NEW l \in Label, NEW S \in SUBSET Address,
           Continue([H EXCEPT !.at = l, !.paths = S])
    PROVE  \E c \in CallType : Advances(c) /\ c.at = l /\ c.dev = H.dev /\ c.paths = S
  <1>1. H \in CallType
    BY HeadFacts, Zenon
  <1> DEFINE c == [H EXCEPT !.at = l, !.paths = S]
  <1>2. /\ c \in CallType /\ c.at = l /\ c.dev = H.dev /\ c.paths = S
        /\ c.op = H.op /\ c.vol = H.vol /\ c.pod = H.pod /\ c.lun = H.lun
    BY <1>1, Zenon DEF CallType
  <1>3. Continue(c)
    BY Zenon
  <1> HIDE DEF c
  <1> QED
    BY <1>2, <1>3, Zenon DEF Advances

\* Nothing that matters to a mounted device changes.
Still == UNCHANGED <<lun, proto, session, map, disk, config, mounted>>

\* Labels of which nothing is asked.
Bare == {"discover", "login", "devices", "rmjson", "logout"}
Plain(op, l) == op \notin {"publish", "unstage"} \/ l \in Bare

\* A publish that holds the mutex.
LEMMA PublishFacts ==
    ASSUME IInv, UInv, queue # <<>>, H.op = "publish"
    PROVE  /\ H \in CallType /\ H.vol \in Volume /\ H.pod \in Pod /\ Uses[H.pod] = H.vol
           /\ stage[H.vol] = "staged" /\ H.lun = lun[H.vol] /\ lun[H.vol] \in Lun
           /\ proto[H.vol] \in Protocol /\ Working(H)
  <1>1. H \in CallType /\ H = queue[1] /\ CallOk(H, stage, pod) /\ 1 \in 1..Len(queue)
    BY HeadFacts
  <1>2. H.vol \in Volume /\ stage[H.vol] = "staged"
    BY <1>1, PublishStaged, Zenon
  <1>3. H.lun = lun[H.vol] /\ Working(H)
    BY <1>1, Zenon DEF UInv, Asked
  <1>4. lun[H.vol] \in Lun /\ proto[H.vol] \in Protocol
    BY <1>2, Zenon DEF IInv, Types, UInv, Luns, NodeTypes
  <1> QED
    BY <1>1, <1>2, <1>3, <1>4, Zenon DEF CallOk

\* An unstage that holds the mutex: no pod of its volume has it mounted.
LEMMA UnstageFacts ==
    ASSUME IInv, UInv, queue # <<>>, H.op = "unstage"
    PROVE  /\ H \in CallType /\ Working(H)
           /\ \A p \in Pod : mounted[p] # None => Uses[p] # H.vol
  <1>1. H \in CallType /\ H = queue[1] /\ CallOk(H, stage, pod)
    BY HeadFacts, Zenon
  <1>2. stage[H.vol] = "unstaging"
    BY <1>1, Zenon DEF CallOk
  <1> QED
    BY <1>1, <1>2, Zenon DEF UInv, IInv, PodsOk

\* At first nothing is mounted and no volume has a LUN.
LEMMA InitUInv == Init => UInv
  <1> SUFFICES ASSUME Init
               PROVE  UInv
    BY Zenon
  <1>1. NodeTypes /\ Luns /\ Mounts
    BY Zenon DEF Init, NodeTypes, Luns, Mounts
  <1>2. queue = <<>>
    BY Zenon DEF Init
  <1>3. Asked
    BY <1>2 DEF Asked
  <1> QED
    BY <1>1, <1>2, <1>3, Zenon DEF UInv

\* Every step keeps it.
LEMMA NextUInv == IInv /\ UInv /\ [Next]_vars => UInv'
  \* What was found is found again.
  <1>ServesAgain.
      ASSUME IInv, UInv, Added, NEW v \in Volume, lun'[v] = lun[v], stage[v] = "staged", NEW d
      PROVE  /\ Sessioned(v) => Sessioned(v)'
             /\ Found(v, d) => Found(v, d)'
             /\ Serves(v, d) => Serves(v, d)'
    <2> USE <1>ServesAgain
    <2>1. proto[v] \in Protocol /\ lun[v] \in Lun
      BY Zenon DEF IInv, Types, UInv, NodeTypes, Luns
    <2>2. Sessioned(v) => Sessioned(v)'
      BY Zenon DEF Added, Sessioned
    <2>3. proto[v] # "nvme" => <<proto[v], lun[v]>> \in Address
      BY <2>1, Zenon DEF Protocol, Address, Transport
    <2>4. Found(v, d) => Found(v, d)'
      BY <2>3, NodeAssumption, Zenon DEF Added, Found
    <2> QED
      BY <2>2, <2>4, Zenon DEF Added, Serves

  \* What is mounted stays served when nothing is removed.
  <1>MountsServed.
      ASSUME IInv, UInv, Added, LunsKept, UNCHANGED <<config, mounted>>
      PROVE  Mounts'
    <2> USE <1>MountsServed
    <2> SUFFICES ASSUME NEW p \in Pod, mounted[p] # None
                 PROVE  Serves(Uses[p], mounted[p])' /\ config'[Uses[p]] = mounted'[p]
      BY Zenon DEF Mounts
    <2>1. Uses[p] \in Volume /\ stage[Uses[p]] = "staged"
      BY UsesAssumption, Zenon DEF IInv, PodsOk
    <2>2. Serves(Uses[p], mounted[p]) /\ config[Uses[p]] = mounted[p]
      BY Zenon DEF UInv, Mounts
    <2>3. PICK v \in Volume : v = Uses[p]
      BY <2>1, Zenon
    <2>4. PICK d : d = mounted[p]
      BY Zenon
    <2>5. Serves(v, d)'
      BY <2>1, <2>2, <2>3, <2>4, <1>ServesAgain, Zenon DEF LunsKept
    <2> QED
      BY <2>2, <2>3, <2>4, <2>5, Zenon

  \* At its first step a call has found nothing.
  <1>FreshWorks.
      ASSUME NEW c, c.at \in Fresh
      PROVE  Working(c) /\ Working(c)'
    BY <1>FreshWorks, Zenon DEF Fresh, Working

  \* Steps between those of the call that holds the mutex.
  <1>BetweenKeeps.
      ASSUME IInv, UInv, Luns', Asked', Added, LunsKept, UNCHANGED <<config, mounted, disk>>,
             queue' # <<>> => SameHead(queue'[1])
      PROVE  UInv'
    <2> USE <1>BetweenKeeps
    <2>1. NodeTypes' /\ Mounts'
      BY <1>MountsServed, Zenon DEF UInv, NodeTypes, Added
    <2>2. ASSUME queue' # <<>>
          PROVE  Working(queue[1])'
      <3>1. PICK c : c = queue'[1]
        BY Zenon
      <3>2. CASE c.at \in Fresh
        BY <3>1, <3>2, <1>FreshWorks, Zenon
      <3>3. CASE queue # <<>> /\ c.op = H.op /\ c.vol = H.vol /\ c.at = H.at /\ c.dev = H.dev /\ c.paths = H.paths
        <4>1. H = queue[1] /\ 1 \in 1..Len(queue) /\ Working(H)
          BY <3>3, HeadFacts, SMTT(30) DEF UInv
        <4>2. CASE c.op = "publish"
          <5>1. c.vol \in Volume /\ stage[c.vol] = "staged" /\ lun'[c.vol] = lun[c.vol]
            BY <3>3, <4>1, <4>2, PublishStaged, Zenon DEF LunsKept
          <5>2. /\ Sessioned(c.vol) => Sessioned(c.vol)'
                /\ Found(c.vol, c.dev) => Found(c.vol, c.dev)'
                /\ Serves(c.vol, c.dev) => Serves(c.vol, c.dev)'
            BY <5>1, <1>ServesAgain, Zenon
          <5>3. Working(c)'
            BY <3>3, <4>1, <4>2, <5>2, Zenon DEF Working
          <5> QED
            BY <3>1, <5>3, Zenon
        <4>3. CASE c.op # "publish"
          <5>1. PathsOf(c.dev)' = PathsOf(c.dev) /\ InUse(c.dev)' = InUse(c.dev)
            BY Zenon DEF PathsOf, InUse
          <5>2. Working(c)'
            BY <3>3, <4>1, <4>3, <5>1, Zenon DEF Working
          <5> QED
            BY <3>1, <5>2, Zenon
        <4> QED
          BY <4>2, <4>3, Zenon
      <3> QED
        BY <2>2, <3>1, <3>2, <3>3, Zenon DEF SameHead
    <2> QED
      BY <2>1, <2>2, Zenon DEF UInv

  \* A queue that keeps its calls keeps their LUNs.
  <1>AskedStill.
      ASSUME IInv, UInv, LunsKept, queue' = queue
      PROVE  Asked'
    BY <1>AskedStill, PublishStaged, Zenon DEF UInv, Asked, LunsKept

  \* The attacher: Attach and Detach.
  <1>AttachServes.
      ASSUME IInv, UInv, NEW v \in Volume, Attach(v) \/ Detach(v)
      PROVE  UInv'
    <2> USE <1>AttachServes
    <2>1. /\ UNCHANGED <<proto, session, map, disk, config, mounted, queue>>
          /\ stage[v] \in {"attached", "detached"}
      BY Zenon DEF Attach, Detach, kernel, files
    <2>2. \E l \in Lun \cup {None}, s \in {"attached", "detached"} :
              /\ lun' = [lun EXCEPT ![v] = l] /\ stage' = [stage EXCEPT ![v] = s]
              /\ l # None => \A w \in Volume : lun[w] # l
              /\ s # "detached" => l # None
      <3>1. CASE Attach(v)
        <4>1. PICK l \in Lun : MappedAt(l) = {} /\ lun' = [lun EXCEPT ![v] = l]
          BY <3>1, Zenon DEF Attach
        <4>2. l # None /\ \A w \in Volume : lun[w] # l
          BY <4>1, NodeAssumption, Zenon DEF MappedAt
        <4> QED
          BY <3>1, <4>1, <4>2, Zenon DEF Attach
      <3>2. CASE Detach(v)
        BY <3>2, Zenon DEF Detach
      <3> QED
        BY <3>1, <3>2, Zenon
    <2>3. /\ lun \in [Volume -> Lun \cup {None}] /\ DOMAIN stage = Volume /\ Luns
      BY Zenon DEF IInv, Types, KubeletTypes, UInv
    <2>4. Luns'
      BY <2>2, <2>3 DEF Luns
    <2>5. LunsKept
      BY <2>1, <2>2, <2>3, Zenon DEF LunsKept
    <2>6. Added
      BY <2>1, Zenon DEF Added, UInv, NodeTypes
    <2>7. queue' # <<>> => SameHead(queue'[1])
      BY <2>1, HeadFacts, Zenon DEF SameHead
    <2> QED
      BY <2>1, <2>4, <2>5, <2>6, <2>7, <1>AskedStill, <1>BetweenKeeps, Zenon

  \* A new call joins the queue (Send).
  <1>SendServes.
      ASSUME IInv, UInv, NEW op \in Op, NEW v \in Volume, NEW p \in Pod \cup {None}, NEW at \in Fresh,
             Send(op, v, p, at), \A w \in Volume : stage'[w] # "detached" => stage[w] # "detached"
      PROVE  UInv'
    <2> USE <1>SendServes
    <2> DEFINE c == Call(op, v, p, at)
    <2>1. /\ queue' = Append(queue, c)
          /\ UNCHANGED <<lun, proto, session, map, disk, config, mounted>>
      BY Zenon DEF Send, array, kernel, files
    <2>2. c \in CallType /\ c.op = op /\ c.vol = v /\ c.at = at
      <3>1. Types /\ at \in Label
        BY Zenon DEF IInv, Label
      <3>2. c \in CallType
        BY <3>1, CallTyped, Zenon
      <3>3. c.op = op /\ c.vol = v /\ c.at = at
        BY Zenon DEF Call
      <3> QED
        BY <3>2, <3>3, Zenon
    <2>3. c.op = "publish" => c.lun = lun[c.vol]
      BY <2>2, Zenon DEF Call
    <2> HIDE DEF c
    <2>4. queue \in Seq(CallType) /\ Len(queue) \in Nat
      BY SMTT(30) DEF IInv, QueueOk
    <2>5. /\ Len(queue') = Len(queue) + 1
          /\ \A i \in 1..Len(queue) : queue'[i] = queue[i]
          /\ queue'[Len(queue) + 1] = c
      BY <2>1, <2>2, <2>4, Pushed, SMTT(30)
    <2>6. Luns' /\ LunsKept /\ Added
      BY <2>1, Zenon DEF UInv, Luns, LunsKept, Added, NodeTypes
    <2>7. Asked'
      BY <2>1, <2>3, <2>4, <2>5, SMTT(30) DEF UInv, Asked
    <2>8. SameHead(queue'[1])
      <3>1. CASE queue = <<>>
        BY <2>2, <2>5, <3>1, SMTT(30) DEF SameHead
      <3>2. CASE queue # <<>>
        <4>1. queue'[1] = H
          BY <2>5, <3>2, HeadFacts, SMTT(30)
        <4> QED
          BY <3>2, <4>1, Zenon DEF SameHead
      <3> QED
        BY <3>1, <3>2, Zenon
    <2> QED
      BY <2>1, <2>6, <2>7, <2>8, <1>BetweenKeeps, Zenon

  \* The kubelet's calls.
  <1>CallServes.
      ASSUME IInv, UInv,
             \/ \E v \in Volume : CallStage(v) \/ CallUnstage(v)
             \/ \E p \in Pod : CallPublish(p) \/ CallUnpublish(p) \/ CallExpand(p)
      PROVE  UInv'
    <2> USE <1>CallServes
    <2>1. CASE \E v \in Volume : CallStage(v) \/ CallUnstage(v)
      <3>1. PICK v \in Volume : CallStage(v) \/ CallUnstage(v)
        BY <2>1, Zenon
      <3>2. stage[v] # "detached" /\ \E s : stage' = [stage EXCEPT ![v] = s]
        BY <3>1, Zenon DEF CallStage, CallUnstage
      <3>3. \A w \in Volume : stage'[w] # "detached" => stage[w] # "detached"
        BY <3>2, Zenon DEF IInv, KubeletTypes
      <3>4. PICK op \in {"stage", "unstage"}, at \in {"port", "load"} : Send(op, v, None, at)
        BY <3>1, Zenon DEF CallStage, CallUnstage
      <3>5. op \in Op /\ at \in Fresh
        BY <3>4, Zenon DEF Op, Fresh
      <3> QED
        BY <3>3, <3>4, <3>5, <1>SendServes, Zenon
    <2>2. CASE \E p \in Pod : CallPublish(p) \/ CallUnpublish(p) \/ CallExpand(p)
      <3>1. PICK p \in Pod : CallPublish(p) \/ CallUnpublish(p) \/ CallExpand(p)
        BY <2>2, Zenon
      <3>2. stage' = stage
        BY <3>1, Zenon DEF CallPublish, CallUnpublish, CallExpand
      <3>3. PICK op \in {"publish", "unpublish", "expand"}, at \in {"targets", "unmount", "find"} :
               Send(op, Uses[p], p, at)
        BY <3>1, Zenon DEF CallPublish, CallUnpublish, CallExpand
      <3>4. op \in Op /\ at \in Fresh
        BY <3>3, Zenon DEF Op, Fresh
      <3>5. PICK v \in Volume : v = Uses[p]
        BY UsesAssumption, Zenon
      <3> QED
        BY <3>2, <3>3, <3>4, <3>5, <1>SendServes, Zenon
    <2> QED
      BY <2>1, <2>2, Zenon

  \* A pod is deleted, a volume grows, multipathd makes a map.
  <1>OtherServes.
      ASSUME IInv, UInv,
             \/ \E p \in Pod : DeletePod(p)
             \/ \E v \in Volume : Grow(v) \/ AddMap(v)
             \/ UNCHANGED vars
      PROVE  UInv'
    <2> USE <1>OtherServes
    <2>1. /\ UNCHANGED <<lun, proto, stage, session, disk, config, mounted, queue>>
          /\ map' = map \/ \E v \in Volume : map' = map \cup {v}
      BY Zenon DEF DeletePod, Grow, AddMap, vars, array, k8s, kernel, files
    <2>2. Luns' /\ LunsKept /\ Added
      BY <2>1, Zenon DEF UInv, Luns, LunsKept, Added, NodeTypes
    <2>3. queue' # <<>> => SameHead(queue'[1])
      BY <2>1, HeadFacts, Zenon DEF SameHead
    <2> QED
      BY <2>1, <2>2, <2>3, <1>AskedStill, <1>BetweenKeeps, Zenon

  \* The kubelet gives a call up (GiveUp).
  <1>GiveUpServes.
      ASSUME IInv, UInv, NEW i \in DOMAIN queue, GiveUp(i)
      PROVE  UInv'
    <2> USE <1>GiveUpServes
    <2>1. /\ queue' = [queue EXCEPT ![i].live = FALSE]
          /\ UNCHANGED <<lun, proto, stage, session, map, disk, config, mounted>>
      BY Zenon DEF GiveUp, array, k8s, kernel, files
    <2>2. queue \in Seq(CallType) /\ i \in 1..Len(queue)
      BY DEF IInv, QueueOk
    <2> DEFINE c == [queue[i] EXCEPT !.live = FALSE]
    <2>3. queue[i] \in CallType
      BY <2>2
    <2>4. /\ c \in CallType /\ c.op = queue[i].op /\ c.vol = queue[i].vol /\ c.lun = queue[i].lun
          /\ c.at = queue[i].at /\ c.dev = queue[i].dev /\ c.paths = queue[i].paths
      BY <2>3, Zenon DEF CallType
    <2>5. queue' = [queue EXCEPT ![i] = c]
      BY <2>1, Zenon
    <2> HIDE DEF c
    <2>6. /\ Len(queue') = Len(queue)
          /\ \A j \in 1..Len(queue) : queue'[j] = IF j = i THEN c ELSE queue[j]
      BY <2>2, <2>4, <2>5
    <2>7. Luns' /\ LunsKept /\ Added
      BY <2>1, Zenon DEF UInv, Luns, LunsKept, Added, NodeTypes
    <2>8. Asked'
      BY <2>1, <2>4, <2>6 DEF UInv, Asked
    <2>9. SameHead(queue'[1])
      <3>1. queue # <<>> /\ 1 \in 1..Len(queue)
        BY <2>2
      <3>2. H = queue[1]
        BY <3>1, HeadFacts, Zenon
      <3> QED
        BY <2>4, <2>6, <3>1, <3>2, Zenon DEF SameHead
    <2> QED
      BY <2>1, <2>7, <2>8, <2>9, <1>BetweenKeeps, Zenon

  \* The container restarts (Crash).
  <1>CrashServes.
      ASSUME IInv, UInv, Crash
      PROVE  UInv'
    <2> USE <1>CrashServes
    <2>1. queue' = <<>> /\ UNCHANGED <<lun, proto, stage, session, map, disk, config, mounted>>
      BY Zenon DEF Crash, array, k8s, kernel, files
    <2>2. Luns' /\ LunsKept /\ Added
      BY <2>1, Zenon DEF UInv, Luns, LunsKept, Added, NodeTypes
    <2>3. Asked'
      BY <2>1, SMTT(30) DEF Asked
    <2> QED
      BY <2>1, <2>2, <2>3, <1>BetweenKeeps, Zenon

  \* A step of a handler: its call goes on or ends.
  <1>HandlerServes.
      ASSUME IInv, UInv, queue # <<>>, UNCHANGED <<lun, proto>>, map' \subseteq Volume, Mounts',
             \/ ReturnError \/ ReturnOk
             \/ \E c \in CallType : Advances(c) /\ Working(c)'
      PROVE  UInv'
    <2> USE <1>HandlerServes
    <2>1. queue \in Seq(CallType) /\ Len(queue) \in Nat \ {0} /\ H = queue[1] /\ CallOk(H, stage, pod)
      BY HeadFacts, Zenon DEF IInv, QueueOk
    <2>2. \A w \in Volume : stage'[w] # "detached" => stage[w] # "detached"
      <3>1. stage' = stage \/ (stage[H.vol] # "detached" /\ \E s : stage' = [stage EXCEPT ![H.vol] = s])
        BY <2>1, Zenon DEF ReturnError, ReturnOk, Advances, Continue, k8s, CallOk
      <3> QED
        BY <3>1, Zenon DEF IInv, KubeletTypes
    <2>3. NodeTypes' /\ Luns'
      BY <2>2, Zenon DEF UInv, NodeTypes, Luns
    <2>4. CASE ReturnError \/ ReturnOk
      <3>1. /\ Len(queue') = Len(queue) - 1
            /\ \A i \in 1..Len(queue') : queue'[i] = queue[i + 1]
        BY <2>1, <2>4, Popped, Zenon DEF ReturnError, ReturnOk
      <3>2. Asked'
        BY <2>1, <3>1, SMTT(30) DEF UInv, Asked
      <3>3. ASSUME queue' # <<>>
            PROVE  Working(queue[1])'
        <4>1. queue' \in Seq(CallType)
          BY <2>1, <2>4, Popped, Zenon DEF ReturnError, ReturnOk
        <4>2. 1 \in 1..Len(queue') /\ 2 \in 2..Len(queue)
          BY <2>1, <3>1, <3>3, <4>1
        <4>3. PICK c : c = queue'[1]
          BY Zenon
        <4>4. c.at \in Fresh
          BY <3>1, <4>2, <4>3, SMTT(30) DEF IInv, QueueOk
        <4> QED
          BY <4>3, <4>4, <1>FreshWorks, Zenon
      <3> QED
        BY <2>3, <3>2, <3>3, Zenon DEF UInv
    <2>5. CASE \E c \in CallType : Advances(c) /\ Working(c)'
      <3>1. PICK c \in CallType : Advances(c) /\ Working(c)'
        BY <2>5, Zenon
      <3>2. /\ Len(queue') = Len(queue) /\ queue'[1] = c
            /\ \A i \in 2..Len(queue) : queue'[i] = queue[i]
        BY <2>1, <3>1, Replaced, SMTT(30) DEF Advances, Continue
      <3>3. Asked'
        BY <2>1, <3>1, <3>2, SMTT(30) DEF UInv, Asked, Advances
      <3>4. Working(queue[1])'
        BY <3>1, <3>2, Zenon
      <3> QED
        BY <2>3, <3>3, <3>4, Zenon DEF UInv
    <2> QED
      BY <2>4, <2>5, Zenon

  \* Then what is mounted stays served.
  <1>StillServes.
      ASSUME IInv, UInv, Still
      PROVE  Mounts' /\ map' \subseteq Volume
    <2> USE <1>StillServes
    <2>1. Added /\ LunsKept
      BY Zenon DEF Still, Added, LunsKept, UInv, NodeTypes
    <2> QED
      BY <2>1, <1>MountsServed, Zenon DEF Still, Added

  \* A call at such a label has found what it needs.
  <1>PlainWorks.
      ASSUME NEW c, Plain(c.op, c.at)
      PROVE  Working(c)'
    BY <1>PlainWorks, Zenon DEF Plain, Bare, Working

  \* A step to such a label.
  <1>PlainServes.
      ASSUME IInv, UInv, queue # <<>>, UNCHANGED <<lun, proto>>, map' \subseteq Volume, Mounts',
             \/ ReturnError \/ ReturnOk
             \/ \E l \in Label : Goto(l) /\ Plain(H.op, l)
             \/ \E l \in Label, d \in Volume \cup {None} :
                  Continue([H EXCEPT !.at = l, !.dev = d]) /\ Plain(H.op, l)
      PROVE  UInv'
    <2> USE <1>PlainServes
    <2>1. CASE ReturnError \/ ReturnOk
      BY <2>1, <1>HandlerServes, Zenon
    <2>2. CASE \E l \in Label : Goto(l) /\ Plain(H.op, l)
      <3>1. PICK l \in Label : Goto(l) /\ Plain(H.op, l)
        BY <2>2, Zenon
      <3>2. PICK c \in CallType : Advances(c) /\ c.at = l
        BY <3>1, GotoAdvances, Zenon
      <3>3. Working(c)'
        BY <3>1, <3>2, <1>PlainWorks, Zenon DEF Advances
      <3> QED
        BY <3>2, <3>3, <1>HandlerServes, Zenon
    <2>3. CASE \E l \in Label, d \in Volume \cup {None} :
                 Continue([H EXCEPT !.at = l, !.dev = d]) /\ Plain(H.op, l)
      <3>1. PICK l \in Label, d \in Volume \cup {None} :
               Continue([H EXCEPT !.at = l, !.dev = d]) /\ Plain(H.op, l)
        BY <2>3, Zenon
      <3>2. PICK c \in CallType : Advances(c) /\ c.at = l
        BY <3>1, DeviceAdvances, Zenon
      <3>3. Working(c)'
        BY <3>1, <3>2, <1>PlainWorks, Zenon DEF Advances
      <3> QED
        BY <3>2, <3>3, <1>HandlerServes, Zenon
    <2> QED
      BY <2>1, <2>2, <2>3, Zenon

  \* NodeStageVolume, the first steps of NodePublishVolume, and the ends.
  <1>FirstServes.
      ASSUME IInv, UInv,
             \/ StageISCSI \/ StageFC \/ StageNVME \/ AddCHAPSecurity
             \/ PublishISCSI \/ PublishNVME \/ DiscoverTargets
             \/ SetVolumePermissions \/ CleanupOldMountDirectory
      PROVE  UInv'
    <2> USE <1>FirstServes
    <2>1. queue # <<>>
      BY Zenon DEF StageISCSI, StageFC, StageNVME, AddCHAPSecurity, PublishISCSI, PublishNVME, DiscoverTargets,
         SetVolumePermissions, CleanupOldMountDirectory, Step, At
    <2>2. UNCHANGED <<lun, session, map, disk, config, mounted>>
      BY Zenon DEF StageISCSI, StageFC, StageNVME, AddCHAPSecurity, AddPortForHost, PublishISCSI, PublishNVME,
         DiscoverTargets, SetVolumePermissions, CleanupOldMountDirectory, array, kernel, files
    <2>3. \/ ReturnError \/ ReturnOk
          \/ H.op = "stage" /\ Goto("chap")
          \/ Goto("discover") \/ Goto("login")
      BY Zenon DEF StageISCSI, StageFC, StageNVME, AddCHAPSecurity, AddPortForHost, PublishISCSI, PublishNVME,
         DiscoverTargets, SetVolumePermissions, CleanupOldMountDirectory, Then, Step, At
    <2>4. proto' = proto
      BY <2>3, Zenon DEF ReturnError, ReturnOk, Goto, Continue, k8s
    <2>5. {"chap", "discover", "login"} \subseteq Label /\ Plain("stage", "chap")
          /\ \A op : Plain(op, "discover") /\ Plain(op, "login")
      BY Zenon DEF Label, Plain, Bare
    <2>6. Still
      BY <2>2, <2>4, Zenon DEF Still
    <2> QED
      BY <2>1, <2>2, <2>3, <2>4, <2>5, <2>6, <1>StillServes, <1>PlainServes, Zenon

  \* NodeExpandVolume.
  <1>ExpandServes.
      ASSUME IInv, UInv, ExpandISCSI \/ ExpandFC \/ ExpandNVME \/ RescanISCSI \/ RescanFC
                         \/ ResizeISCSI \/ ResizeFC \/ ExpandFileSystem
      PROVE  UInv'
    <2> USE <1>ExpandServes
    <2>1. queue # <<>> /\ H.op = "expand"
      BY Zenon DEF ExpandISCSI, ExpandFC, ExpandNVME, RescanISCSI, RescanFC, ResizeISCSI, ResizeFC,
             ExpandFileSystem, Step, At
    <2>2. UNCHANGED <<lun, session, map, disk, config, mounted>>
      BY Zenon DEF ExpandISCSI, ExpandFC, ExpandNVME, RescanISCSI, RescanFC, ResizeISCSI, ResizeFC,
             ExpandFileSystem, FindMultipathDevice, RescanPaths, ResizeMap, array, kernel, files
    <2>3. \/ ReturnError \/ ReturnOk
          \/ \E l \in {"resize", "grow"} : Goto(l)
          \/ \E l \in {"rescan", "grow"} : Continue([H EXCEPT !.at = l, !.dev = mounted[H.pod]])
      BY Zenon DEF ExpandISCSI, ExpandFC, ExpandNVME, RescanISCSI, RescanFC, ResizeISCSI, ResizeFC,
             ExpandFileSystem, FindMultipathDevice, RescanPaths, ResizeMap, Then
    <2>4. proto' = proto
      BY <2>3, Zenon DEF ReturnError, ReturnOk, Goto, Continue, k8s
    <2>5. mounted[H.pod] \in Volume \cup {None}
      BY <2>1, HeadFacts, Zenon DEF CallOk, IInv, KubeletTypes
    <2>6. {"rescan", "resize", "grow"} \subseteq Label /\ \A l : Plain(H.op, l)
      BY <2>1, Zenon DEF Label, Plain
    <2>7. Still
      BY <2>2, <2>4, Zenon DEF Still
    <2> QED
      BY <2>1, <2>2, <2>3, <2>4, <2>5, <2>6, <2>7, <1>StillServes, <1>PlainServes, Zenon

  \* The device is kept by a step that removes nothing.
  <1>PublishGoes.
      ASSUME IInv, UInv, queue # <<>>, H.op = "publish", UNCHANGED lun, Added, Mounts',
             NEW l \in {"scan", "check", "config", "mount", "reconfig", "perms"}, Goto(l),
             l = "scan" => proto[H.vol] = "fc" \/ proto[H.vol] \in session',
             l # "scan" => Serves(H.vol, H.dev),
             l = "mount" => config'[H.vol] = H.dev
      PROVE  UInv'
    <2> USE <1>PublishGoes
    <2>1. l \in Label
      BY Zenon DEF Label
    <2>2. PICK c \in CallType : Advances(c) /\ c.at = l /\ c.dev = H.dev
      BY <2>1, GotoAdvances, Zenon
    <2>3. c.vol \in Volume /\ stage[c.vol] = "staged" /\ c.op = "publish" /\ c.vol = H.vol
      BY <2>2, PublishFacts, Zenon DEF Advances
    <2>4. l = "scan" => Sessioned(c.vol)'
      BY <2>3, Zenon DEF Sessioned, Added
    <2>5. Serves(c.vol, c.dev) => Serves(c.vol, c.dev)'
      BY <2>3, <1>ServesAgain, Zenon
    <2>6. Working(c)'
      BY <2>2, <2>3, <2>4, <2>5, Zenon DEF Working
    <2> QED
      BY <2>2, <2>6, <1>HandlerServes, Zenon DEF Added

  \* The targets of FC, and the login.
  <1>LoginServes.
      ASSUME IInv, UInv, PublishFC \/ LoginToTargets
      PROVE  UInv'
    <2> USE <1>LoginServes
    <2>1. queue # <<>> /\ H.op = "publish" /\ UNCHANGED <<lun, map, disk, config, mounted>>
      BY Zenon DEF PublishFC, LoginToTargets, Step, At, array, kernel, files
    <2>2. session \subseteq session' /\ (ReturnError \/ Goto("scan"))
      BY Zenon DEF PublishFC, LoginToTargets, Then, kernel
    <2>3. proto' = proto
      BY <2>2, Zenon DEF ReturnError, Goto, Continue, k8s
    <2>4. Added /\ LunsKept
      BY <2>1, <2>2, <2>3, Zenon DEF Added, LunsKept, UInv, NodeTypes
    <2>5. Mounts'
      BY <2>1, <2>4, <1>MountsServed, Zenon
    <2>6. CASE ReturnError
      BY <2>1, <2>3, <2>4, <2>5, <2>6, <1>HandlerServes, Zenon DEF Added
    <2>7. CASE Goto("scan") /\ ~ReturnError
      <3>1. proto[H.vol] = "fc" \/ proto[H.vol] \in session'
        BY <2>7, Zenon DEF PublishFC, LoginToTargets, Step, Then, Ok, Done
      <3> QED
        BY <2>1, <2>4, <2>5, <2>7, <3>1, <1>PublishGoes, Zenon
    <2> QED
      BY <2>2, <2>6, <2>7, Zenon

  \* nvme list finds the volume itself.
  <1>NVMEServes.
      ASSUME IInv, UInv, AttachNVME
      PROVE  UInv'
    <2> USE <1>NVMEServes
    <2>1. queue # <<>> /\ H.op = "publish" /\ proto[H.vol] = "nvme" /\ UNCHANGED <<lun, map, disk, config, mounted>>
      BY Zenon DEF AttachNVME, Step, At, array, files
    <2>2. NVMENamespaces(H.lun) = {H.vol}
      <3>1. H.vol \in Volume /\ H.lun = lun[H.vol] /\ lun[H.vol] # None
        BY <2>1, PublishFacts, NodeAssumption, Zenon
      <3>2. \A w \in Volume : lun[H.vol] = lun[w] => H.vol = w
        BY <3>1, Zenon DEF UInv, Luns
      <3> QED
        BY <3>1, <3>2, Zenon DEF NVMENamespaces, MappedAt
    <2>3. PICK o \in Outcome :
            /\ session' = IF Done(o) THEN session \cup {"nvme"} ELSE session
            /\ Then(o, IF NVMENamespaces(H.lun) = {} THEN ReturnError
                       ELSE Continue([H EXCEPT !.at = "check",
                                               !.dev = CHOOSE v \in NVMENamespaces(H.lun) : TRUE]))
      BY Zenon DEF AttachNVME
    <2>4. (CHOOSE v \in NVMENamespaces(H.lun) : TRUE) = H.vol
      BY <2>2, Zenon
    <2>5. ReturnError \/ (Continue([H EXCEPT !.at = "check", !.dev = H.vol]) /\ "nvme" \in session')
      <3>1. CASE Ok(o)
        <4>1. Continue([H EXCEPT !.at = "check", !.dev = CHOOSE v \in NVMENamespaces(H.lun) : TRUE])
          BY <2>2, <2>3, <3>1, Zenon DEF Then
        <4> QED
          BY <2>3, <2>4, <3>1, <4>1, Zenon DEF Ok, Done
      <3>2. CASE ~Ok(o)
        BY <2>3, <3>2, Zenon DEF Then
      <3> QED
        BY <3>1, <3>2, Zenon
    <2>6. proto' = proto /\ session \subseteq session'
      BY <2>3, <2>5, Zenon DEF ReturnError, Continue, k8s
    <2>7. Added /\ LunsKept
      BY <2>1, <2>6, Zenon DEF Added, LunsKept, UInv, NodeTypes
    <2>8. Mounts'
      BY <2>1, <2>7, <1>MountsServed, Zenon
    <2>9. CASE ReturnError
      BY <2>1, <2>6, <2>7, <2>8, <2>9, <1>HandlerServes, Zenon DEF Added
    <2>10. CASE Continue([H EXCEPT !.at = "check", !.dev = H.vol]) /\ "nvme" \in session'
      <3>0. PICK d \in Volume : d = H.vol
        BY <2>1, PublishFacts, Zenon
      <3>1. "check" \in Label /\ Continue([H EXCEPT !.at = "check", !.dev = d])
        BY <2>10, <3>0, Zenon DEF Label
      <3>2. PICK c \in CallType : Advances(c) /\ c.at = "check" /\ c.dev = H.vol
        <4>1. PICK c \in CallType : Advances(c) /\ c.at = "check" /\ c.dev = d
          <5>1. queue # <<>> /\ d \in Volume \cup {None}
            BY <2>1, Zenon
          <5> QED
            BY <3>1, <5>1, DeviceAdvances, Zenon
        <4> QED
          BY <3>0, <4>1, Zenon
      <3>3. c.vol = c.dev /\ proto'[c.vol] = "nvme"
        BY <2>1, <2>6, <3>2, Zenon DEF Advances
      <3>4. Serves(c.vol, c.dev)'
        BY <2>10, <3>3, Zenon DEF Serves, Sessioned
      <3>5. Working(c)'
        BY <2>1, <3>2, <3>4, Zenon DEF Working, Advances
      <3> QED
        BY <2>1, <2>6, <2>7, <2>8, <3>2, <3>5, <1>HandlerServes, Zenon DEF Added
    <2> QED
      BY <2>5, <2>9, <2>10, Zenon

  \* A scan adds a disk, and the handler goes on with what it finds.
  <1>ScanServes.
      ASSUME IInv, UInv, ScanISCSI \/ ScanFC
      PROVE  UInv'
    <2> USE <1>ScanServes
    <2>1. queue # <<>> /\ H.op = "publish" /\ H.at = "scan" /\ proto[H.vol] # "nvme" /\ RescanDeviceMap
      BY Zenon DEF ScanISCSI, ScanFC, Step, At
    <2>2. UNCHANGED <<lun, session, map, config, mounted>>
      BY <2>1, Zenon DEF RescanDeviceMap, array, files
    <2>3. PICK o \in Outcome, a \in Address :
            /\ a = <<proto[H.vol], H.lun>>
            /\ Scan(a, o)
            /\ Then(o, IF disk'[a] = None THEN ReturnError
                       ELSE Continue([H EXCEPT !.at = "dm", !.dev = disk'[a]]))
      BY <2>1, Zenon DEF RescanDeviceMap, WaitForDeviceState
    <2>4. ReturnError \/ (disk'[a] # None /\ Continue([H EXCEPT !.at = "dm", !.dev = disk'[a]]))
      BY <2>3, Zenon DEF Then
    <2>5. proto' = proto
      BY <2>4, Zenon DEF ReturnError, Continue, k8s
    <2> DEFINE x == CHOOSE w \in MappedAt(a[2]) : TRUE
    <2>6. disk' = disk \/ (disk' = [disk EXCEPT ![a] = x] /\ disk[a] = None /\ x \in Volume)
      <3>1. MappedAt(a[2]) # {} => x \in Volume
        BY Zenon DEF MappedAt
      <3>2. disk' = disk \/ (disk' = [disk EXCEPT ![a] = x] /\ disk[a] = None /\ MappedAt(a[2]) # {})
        BY <2>3, Zenon DEF Scan
      <3> QED
        BY <3>1, <3>2, Zenon
    <2> HIDE DEF x
    <2>7. disk' \in [Address -> Volume \cup {None}] /\ \A b \in Address : disk[b] # None => disk'[b] = disk[b]
      BY <2>6, Zenon DEF IInv, Types
    <2>8. Added /\ LunsKept
      BY <2>2, <2>5, <2>7, Zenon DEF Added, LunsKept, UInv, NodeTypes
    <2>9. Mounts'
      BY <2>2, <2>8, <1>MountsServed, Zenon
    <2>10. CASE ReturnError
      BY <2>1, <2>2, <2>5, <2>8, <2>9, <2>10, <1>HandlerServes, Zenon DEF Added
    <2>11. CASE disk'[a] # None /\ Continue([H EXCEPT !.at = "dm", !.dev = disk'[a]])
      <3>1. PICK d \in Volume : d = disk'[a]
        BY <2>7, <2>11, Zenon
      <3>2. "dm" \in Label
        BY Zenon DEF Label
      <3>3. PICK c \in CallType : Advances(c) /\ c.at = "dm" /\ c.dev = d
        BY <2>1, <2>11, <3>1, <3>2, DeviceAdvances, Zenon
      <3>4. c.vol = H.vol /\ H.lun = lun[H.vol] /\ Sessioned(c.vol)
        BY <2>1, <3>3, PublishFacts, Zenon DEF Advances, Working
      <3>5. Found(c.vol, c.dev)'
        BY <2>1, <2>2, <2>3, <2>5, <3>1, <3>3, <3>4, Zenon DEF Found
      <3>6. Sessioned(c.vol)'
        BY <2>2, <2>5, <3>4, Zenon DEF Sessioned
      <3>7. Working(c)'
        BY <2>1, <3>3, <3>5, <3>6, Zenon DEF Working, Advances
      <3> QED
        BY <2>1, <2>2, <2>5, <2>8, <2>9, <3>3, <3>7, <1>HandlerServes, Zenon DEF Added
    <2> QED
      BY <2>4, <2>10, <2>11, Zenon

  \* The map is there, and the target path is looked at.
  <1>CheckServes.
      ASSUME IInv, UInv, AttachISCSI \/ SearchDiskFC \/ MountLogic
      PROVE  UInv'
    <2> USE <1>CheckServes
    <2>1. /\ queue # <<>> /\ H.op = "publish" /\ H.at \in {"dm", "check"}
          /\ UNCHANGED <<lun, session, map, disk, config, mounted>>
      BY Zenon DEF AttachISCSI, SearchDiskFC, GetDMDevicePath, MountLogic, Step, At, array, kernel, files
    <2>2. \/ ReturnError
          \/ H.at = "dm" /\ H.dev \in map /\ Goto("check")
          \/ H.at = "check" /\ \E l \in {"config", "reconfig", "perms"} : Goto(l)
      BY Zenon DEF AttachISCSI, SearchDiskFC, GetDMDevicePath, MountLogic, AfterMountLogic, Then, Step, At
    <2>3. proto' = proto
      BY <2>2, Zenon DEF ReturnError, Goto, Continue, k8s
    <2>4. Added /\ LunsKept
      BY <2>1, <2>3, Zenon DEF Added, LunsKept, UInv, NodeTypes
    <2>5. Mounts'
      BY <2>1, <2>4, <1>MountsServed, Zenon
    <2>6. Working(H)
      BY <2>1, PublishFacts, Zenon
    <2>7. CASE ReturnError
      BY <2>1, <2>3, <2>4, <2>5, <2>7, <1>HandlerServes, Zenon DEF Added
    <2>8. CASE H.at = "dm" /\ H.dev \in map /\ Goto("check")
      <3>1. Serves(H.vol, H.dev)
        BY <2>1, <2>6, <2>8, Zenon DEF Working, Serves, Found
      <3> QED
        BY <2>1, <2>4, <2>5, <2>8, <3>1, <1>PublishGoes, Zenon
    <2>9. CASE H.at = "check" /\ \E l \in {"config", "reconfig", "perms"} : Goto(l)
      <3>1. Serves(H.vol, H.dev)
        BY <2>1, <2>6, <2>9, Zenon DEF Working
      <3> QED
        BY <2>1, <2>4, <2>5, <2>9, <3>1, <1>PublishGoes, Zenon
    <2> QED
      BY <2>2, <2>7, <2>8, <2>9, Zenon

  \* The file names the device that all the volume's pods have mounted.
  <1>ConfigServes.
      ASSUME IInv, UInv, Persist \/ MountFCDisk
      PROVE  UInv'
    <2> USE <1>ConfigServes
    <2>1. /\ queue # <<>> /\ H.op = "publish" /\ H.at \in {"config", "reconfig"}
          /\ UNCHANGED <<lun, session, map, disk, mounted>>
      BY Zenon DEF Persist, MountFCDisk, CreateConfigFile, At, array, kernel
    <2>2. PICK o \in Outcome :
            /\ config' = IF Done(o) THEN [config EXCEPT ![H.vol] = H.dev] ELSE config
            /\ Then(o, Goto("mount")) \/ Then(o, Goto("perms"))
      BY Zenon DEF Persist, MountFCDisk, CreateConfigFile
    <2>3. ReturnError \/ (Ok(o) /\ \E l \in {"mount", "perms"} : Goto(l))
      BY <2>2, Zenon DEF Then
    <2>4. proto' = proto
      BY <2>3, Zenon DEF ReturnError, Goto, Continue, k8s
    <2>5. Added
      BY <2>1, <2>4, Zenon DEF Added, UInv, NodeTypes
    <2>6. H.vol \in Volume /\ Serves(H.vol, H.dev)
      BY <2>1, PublishFacts, Zenon DEF Working
    <2>7. Mounts'
      <3> SUFFICES ASSUME NEW p \in Pod, mounted[p] # None
                   PROVE  Serves(Uses[p], mounted[p])' /\ config'[Uses[p]] = mounted'[p]
        BY <2>1, Zenon DEF Mounts
      <3>1. PICK v \in Volume : v = Uses[p]
        BY UsesAssumption, Zenon
      <3>2. PICK d : d = mounted[p]
        BY Zenon
      <3>3. stage[v] = "staged" /\ Serves(v, d) /\ config[v] = d
        BY <3>1, <3>2, Zenon DEF IInv, PodsOk, UInv, Mounts
      <3>4. Serves(v, d)'
        BY <2>1, <2>5, <3>3, <1>ServesAgain, Zenon
      <3>5. v = H.vol => d = H.dev
        BY <2>6, <3>3, OneDevice, Zenon
      <3>6. config'[v] = d
        BY <2>2, <3>3, <3>5, Zenon DEF IInv, Types
      <3> QED
        BY <2>1, <3>1, <3>2, <3>4, <3>6, Zenon
    <2>8. CASE ReturnError
      BY <2>1, <2>4, <2>5, <2>7, <2>8, <1>HandlerServes, Zenon DEF Added
    <2>9. CASE Ok(o) /\ \E l \in {"mount", "perms"} : Goto(l)
      <3>1. config'[H.vol] = H.dev
        BY <2>2, <2>6, <2>9, Zenon DEF Ok, Done, IInv, Types
      <3> QED
        BY <2>1, <2>5, <2>6, <2>7, <2>9, <3>1, <1>PublishGoes, Zenon
    <2> QED
      BY <2>3, <2>8, <2>9, Zenon

  \* The mount.
  <1>MountServes.
      ASSUME IInv, UInv, MountBlock \/ FormatAndMount
      PROVE  UInv'
    <2> USE <1>MountServes
    <2>1. queue # <<>> /\ H.op = "publish" /\ H.at = "mount"
      BY Zenon DEF MountBlock, FormatAndMount, At
    <2>2. PICK o \in Outcome : Mount(o)
      BY Zenon DEF MountBlock, FormatAndMount
    <2>3. /\ UNCHANGED <<lun, session, map, disk, config>>
          /\ mounted' = IF Done(o) THEN [mounted EXCEPT ![H.pod] = H.dev] ELSE mounted
          /\ ReturnError \/ \E l \in {"reconfig", "perms"} : Goto(l)
      BY <2>2, Zenon DEF Mount, array, kernel, Then, AfterMountLogic
    <2>4. proto' = proto
      BY <2>3, Zenon DEF ReturnError, Goto, Continue, k8s
    <2>5. Added
      BY <2>3, <2>4, Zenon DEF Added, UInv, NodeTypes
    <2>6. /\ H.vol \in Volume /\ H.pod \in Pod /\ Uses[H.pod] = H.vol
          /\ Serves(H.vol, H.dev) /\ config[H.vol] = H.dev
      BY <2>1, PublishFacts, Zenon DEF Working
    <2>7. Mounts'
      <3> SUFFICES ASSUME NEW p \in Pod, mounted'[p] # None
                   PROVE  Serves(Uses[p], mounted[p])' /\ config'[Uses[p]] = mounted'[p]
        BY Zenon DEF Mounts
      <3>1. PICK v \in Volume : v = Uses[p]
        BY UsesAssumption, Zenon
      <3>2. PICK d : d = mounted'[p]
        BY Zenon
      <3>3. stage[v] = "staged" /\ Serves(v, d) /\ config[v] = d
        <4>1. CASE mounted'[p] = mounted[p]
          BY <3>1, <3>2, <4>1, Zenon DEF IInv, PodsOk, UInv, Mounts
        <4>2. CASE p = H.pod /\ mounted'[p] = H.dev
          BY <2>1, <2>6, <3>1, <3>2, <4>2, PublishFacts, Zenon
        <4> QED
          BY <2>3, <4>1, <4>2, Zenon DEF IInv, KubeletTypes
      <3>4. Serves(v, d)'
        BY <2>3, <2>5, <3>3, <1>ServesAgain, Zenon
      <3> QED
        BY <2>3, <3>1, <3>2, <3>3, <3>4, Zenon
    <2>8. CASE ReturnError
      BY <2>1, <2>3, <2>4, <2>5, <2>7, <2>8, <1>HandlerServes, Zenon DEF Added
    <2>9. CASE \E l \in {"reconfig", "perms"} : Goto(l)
      BY <2>1, <2>3, <2>5, <2>6, <2>7, <2>9, <1>PublishGoes, Zenon
    <2> QED
      BY <2>3, <2>8, <2>9, Zenon

  \* The unmount.
  <1>UnmountServes.
      ASSUME IInv, UInv, UnmountAndCleanUp
      PROVE  UInv'
    <2> USE <1>UnmountServes
    <2>1. /\ queue # <<>> /\ H.op = "unpublish" /\ UNCHANGED <<lun, session, map, disk, config>>
      BY Zenon DEF UnmountAndCleanUp, At, array, kernel
    <2>2. mounted' = mounted \/ mounted' = [mounted EXCEPT ![H.pod] = None]
      BY Zenon DEF UnmountAndCleanUp
    <2>3. ReturnError \/ ReturnOk \/ Goto("rmdir")
      BY Zenon DEF UnmountAndCleanUp, Then
    <2>4. proto' = proto
      BY <2>3, Zenon DEF ReturnError, ReturnOk, Goto, Continue, k8s
    <2>5. Added
      BY <2>1, <2>4, Zenon DEF Added, UInv, NodeTypes
    <2>6. Mounts'
      <3> SUFFICES ASSUME NEW p \in Pod, mounted'[p] # None
                   PROVE  Serves(Uses[p], mounted[p])' /\ config'[Uses[p]] = mounted'[p]
        BY Zenon DEF Mounts
      <3>1. PICK v \in Volume : v = Uses[p]
        BY UsesAssumption, Zenon
      <3>2. mounted'[p] = mounted[p]
        BY <2>2, Zenon DEF IInv, KubeletTypes
      <3>3. PICK d : d = mounted'[p]
        BY Zenon
      <3>4. stage[v] = "staged" /\ Serves(v, d) /\ config[v] = d
        BY <3>1, <3>2, <3>3, Zenon DEF IInv, PodsOk, UInv, Mounts
      <3>5. Serves(v, d)'
        BY <2>1, <2>5, <3>4, <1>ServesAgain, Zenon
      <3> QED
        BY <2>1, <3>1, <3>3, <3>4, <3>5, Zenon
    <2>7. "rmdir" \in Label /\ Plain(H.op, "rmdir")
      BY <2>1, Zenon DEF Label, Plain
    <2> QED
      BY <2>1, <2>3, <2>4, <2>5, <2>6, <2>7, <1>PlainServes, Zenon DEF Added

  \* The map is looked up.
  <1>LoadServes.
      ASSUME IInv, UInv, UnstageISCSI \/ UnstageFC
      PROVE  UInv'
    <2> USE <1>LoadServes
    <2>1. /\ queue # <<>> /\ H.op = "unstage" /\ UNCHANGED <<lun, session, map, disk, config, mounted>>
      BY Zenon DEF UnstageISCSI, UnstageFC, Step, At, array, kernel, files
    <2>2. \/ ReturnOk \/ ReturnError \/ Goto("rmjson")
          \/ Continue([H EXCEPT !.at = "devices", !.dev = config[H.vol]])
      BY Zenon DEF UnstageISCSI, UnstageFC, LoadDiskInfoFromFile, Then
    <2>3. proto' = proto
      BY <2>2, Zenon DEF ReturnError, ReturnOk, Goto, Continue, k8s
    <2>4. Still
      BY <2>1, <2>3, Zenon DEF Still
    <2>5. config[H.vol] \in Volume \cup {None}
      BY <2>1, UnstageFacts, Zenon DEF IInv, Types, CallType
    <2>6. {"rmjson", "devices"} \subseteq Label /\ Plain(H.op, "rmjson") /\ Plain(H.op, "devices")
      BY Zenon DEF Label, Plain, Bare
    <2> QED
      BY <2>1, <2>2, <2>3, <2>4, <2>5, <2>6, <1>StillServes, <1>PlainServes, Zenon

  \* Its paths are noted.
  <1>FindServes.
      ASSUME IInv, UInv, FindDevicesForMpath
      PROVE  UInv'
    <2> USE <1>FindServes
    <2>1. /\ queue # <<>> /\ H.op = "unstage" /\ UNCHANGED <<lun, session, map, disk, config, mounted>>
      BY Zenon DEF FindDevicesForMpath, At, array, kernel, files
    <2>2. Goto("rmjson") \/ Continue([H EXCEPT !.at = "flush", !.paths = PathsOf(H.dev)])
      BY Zenon DEF FindDevicesForMpath
    <2>3. proto' = proto
      BY <2>2, Zenon DEF Goto, Continue, k8s
    <2>4. Still
      BY <2>1, <2>3, Zenon DEF Still
    <2>5. Mounts' /\ map' \subseteq Volume
      BY <2>4, <1>StillServes, Zenon
    <2>6. CASE Goto("rmjson")
      <3>1. "rmjson" \in Label /\ Plain(H.op, "rmjson")
        BY Zenon DEF Label, Plain, Bare
      <3> QED
        BY <2>1, <2>3, <2>5, <2>6, <3>1, <1>PlainServes, Zenon
    <2>7. CASE Continue([H EXCEPT !.at = "flush", !.paths = PathsOf(H.dev)])
      <3>1. PICK S \in SUBSET Address : S = PathsOf(H.dev)
        BY Zenon DEF PathsOf
      <3>2. "flush" \in Label /\ Continue([H EXCEPT !.at = "flush", !.paths = S])
        BY <2>7, <3>1, Zenon DEF Label
      <3>3. PICK c \in CallType : Advances(c) /\ c.at = "flush" /\ c.dev = H.dev /\ c.paths = S
        BY <2>1, <3>2, PathsAdvances, Zenon
      <3>4. PathsOf(c.dev)' = S
        BY <2>1, <3>1, <3>3, Zenon DEF PathsOf
      <3>5. Working(c)'
        BY <2>1, <3>3, <3>4, Zenon DEF Working, Advances
      <3> QED
        BY <2>1, <2>3, <2>5, <3>3, <3>5, <1>HandlerServes, Zenon
    <2> QED
      BY <2>2, <2>6, <2>7, Zenon

  \* multipath -f takes no map that is mounted.
  <1>FlushServes.
      ASSUME IInv, UInv, MultipathFlush
      PROVE  UInv'
    <2> USE <1>FlushServes
    <2>1. /\ queue # <<>> /\ H.op = "unstage" /\ H.at = "flush" /\ UNCHANGED <<lun, session, disk, config, mounted>>
      BY Zenon DEF MultipathFlush, At, array, files
    <2>2. \/ map' = map /\ Goto("rmjson")
          \/ ~InUse(H.dev) /\ map' = map \ {H.dev} /\ Goto("detach")
      BY Zenon DEF MultipathFlush, Ok
    <2>3. proto' = proto
      BY <2>2, Zenon DEF Goto, Continue, k8s
    <2>4. map' \subseteq Volume /\ (map' = map \/ (~InUse(H.dev) /\ map' = map \ {H.dev}))
      BY <2>2, Zenon DEF UInv, NodeTypes
    <2>5. Mounts'
      <3> SUFFICES ASSUME NEW p \in Pod, mounted[p] # None
                   PROVE  Serves(Uses[p], mounted[p])' /\ config'[Uses[p]] = mounted'[p]
        BY <2>1, Zenon DEF Mounts
      <3>1. Serves(Uses[p], mounted[p]) /\ config[Uses[p]] = mounted[p]
        BY Zenon DEF UInv, Mounts
      <3>2. mounted[p] \in map => mounted[p] \in map'
        BY <2>4, Zenon DEF InUse
      <3> QED
        BY <2>1, <2>3, <3>1, <3>2, Zenon DEF Serves, Found, Sessioned
    <2>6. CASE Goto("rmjson")
      <3>1. "rmjson" \in Label /\ Plain(H.op, "rmjson")
        BY Zenon DEF Label, Plain, Bare
      <3> QED
        BY <2>1, <2>3, <2>4, <2>5, <2>6, <3>1, <1>PlainServes, Zenon
    <2>7. CASE ~InUse(H.dev) /\ Goto("detach")
      <3>1. "detach" \in Label
        BY Zenon DEF Label
      <3>2. PICK c \in CallType : Advances(c) /\ c.at = "detach" /\ c.dev = H.dev /\ c.paths = H.paths
        BY <2>1, <2>7, <3>1, GotoAdvances, Zenon
      <3>3. H.paths \subseteq PathsOf(H.dev)
        BY <2>1, UnstageFacts, Zenon DEF Working
      <3>4. c.paths \subseteq PathsOf(c.dev)' /\ ~InUse(c.dev)'
        BY <2>1, <2>7, <3>2, <3>3, Zenon DEF PathsOf, InUse
      <3>5. Working(c)'
        BY <2>1, <3>2, <3>4, Zenon DEF Working, Advances
      <3> QED
        BY <2>1, <2>3, <2>4, <2>5, <3>2, <3>5, <1>HandlerServes, Zenon
    <2> QED
      BY <2>2, <2>6, <2>7, Zenon

  \* The disks of the flushed map go; a mounted device keeps its own.
  <1>DetachServes.
      ASSUME IInv, UInv, DetachMpathDevice
      PROVE  UInv'
    <2> USE <1>DetachServes
    <2>1. /\ queue # <<>> /\ H.op = "unstage" /\ H.at = "detach" /\ Goto("rmjson")
          /\ UNCHANGED <<lun, session, config, mounted>>
      BY Zenon DEF DetachMpathDevice, At, array, files
    <2>2. proto' = proto
      BY <2>1, Zenon DEF Goto, Continue, k8s
    <2>3. PICK left : disk' = [a \in Address |-> IF a \in H.paths \ left THEN None ELSE disk[a]]
      BY Zenon DEF DetachMpathDevice, DetachDiskByDeviceName
    <2>4. map' = {v \in map : \E a \in Address : disk'[a] = v}
      BY Zenon DEF DetachMpathDevice, RemoveMultipathDevices
    <2>5. H.paths \subseteq PathsOf(H.dev) /\ ~InUse(H.dev)
      BY <2>1, UnstageFacts, Zenon DEF Working
    <2>6. Mounts'
      <3> SUFFICES ASSUME NEW p \in Pod, mounted[p] # None
                   PROVE  Serves(Uses[p], mounted[p])' /\ config'[Uses[p]] = mounted'[p]
        BY <2>1, Zenon DEF Mounts
      <3>1. PICK v \in Volume : v = Uses[p]
        BY UsesAssumption, Zenon
      <3>2. PICK d : d = mounted[p]
        BY Zenon
      <3>3. stage[v] = "staged" /\ Serves(v, d) /\ config[v] = d /\ d # H.dev
        BY <2>5, <3>1, <3>2, Zenon DEF IInv, PodsOk, UInv, Mounts, InUse
      <3>4. CASE proto[v] = "nvme"
        BY <2>1, <2>2, <3>1, <3>2, <3>3, <3>4, Zenon DEF Serves, Sessioned
      <3>5. CASE proto[v] # "nvme"
        <4> DEFINE a == <<proto[v], lun[v]>>
        <4>1. proto[v] \in Protocol /\ lun[v] \in Lun
          BY <3>3, Zenon DEF IInv, Types, UInv, NodeTypes, Luns
        <4>2. a \in Address
          BY <3>5, <4>1, Zenon DEF Protocol, Address, Transport
        <4>3. d \in Volume /\ disk[a] = d /\ d \in map /\ Sessioned(v)
          BY <3>3, <3>5, Zenon DEF Serves, Found
        <4>4. a \notin H.paths
          BY <2>5, <3>3, <4>3, Zenon DEF PathsOf
        <4> HIDE DEF a
        <4>5. disk'[a] = d
          BY <2>3, <4>2, <4>3, <4>4, Zenon
        <4>6. d \in map'
          BY <2>4, <4>2, <4>3, <4>5, Zenon
        <4>7. Found(v, d)' /\ Sessioned(v)'
          BY <2>1, <2>2, <3>5, <4>3, <4>5, Zenon DEF Found, Sessioned, a
        <4>8. Serves(v, d)'
          BY <2>2, <3>5, <4>6, <4>7, Zenon DEF Serves
        <4> QED
          BY <2>1, <3>1, <3>2, <3>3, <4>8, Zenon
      <3> QED
        BY <3>4, <3>5, Zenon
    <2>7. map' \subseteq Volume
      BY <2>4, Zenon DEF UInv, NodeTypes
    <2>8. "rmjson" \in Label /\ Plain(H.op, "rmjson")
      BY Zenon DEF Label, Plain, Bare
    <2> QED
      BY <2>1, <2>2, <2>6, <2>7, <2>8, <1>PlainServes, Zenon

  \* The file of an unstaged volume goes.
  <1>RemoveServes.
      ASSUME IInv, UInv, RemoveISCSI \/ RemoveFC \/ UnstageNVME
      PROVE  UInv'
    <2> USE <1>RemoveServes
    <2>1. queue # <<>> /\ H.op = "unstage" /\ UNCHANGED <<lun, session, map, disk, mounted>>
      BY Zenon DEF RemoveISCSI, RemoveFC, UnstageNVME, RemoveJson, Step, At, array, kernel
    <2>2. config' = config \/ config' = [config EXCEPT ![H.vol] = None]
      BY Zenon DEF RemoveISCSI, RemoveFC, UnstageNVME, RemoveJson
    <2>3. ReturnError \/ ReturnOk \/ Goto("logout")
      BY Zenon DEF RemoveISCSI, RemoveFC, UnstageNVME, RemoveJson, Then
    <2>4. proto' = proto
      BY <2>3, Zenon DEF ReturnError, ReturnOk, Goto, Continue, k8s
    <2>5. Added
      BY <2>1, <2>4, Zenon DEF Added, UInv, NodeTypes
    <2>6. Mounts'
      <3> SUFFICES ASSUME NEW p \in Pod, mounted[p] # None
                   PROVE  Serves(Uses[p], mounted[p])' /\ config'[Uses[p]] = mounted'[p]
        BY <2>1, Zenon DEF Mounts
      <3>1. PICK v \in Volume : v = Uses[p]
        BY UsesAssumption, Zenon
      <3>2. PICK d : d = mounted[p]
        BY Zenon
      <3>3. stage[v] = "staged" /\ Serves(v, d) /\ config[v] = d
        BY <3>1, <3>2, Zenon DEF IInv, PodsOk, UInv, Mounts
      <3>4. v # H.vol
        BY <2>1, <3>1, UnstageFacts, Zenon
      <3>5. Serves(v, d)'
        BY <2>1, <2>5, <3>3, <1>ServesAgain, Zenon
      <3>6. config'[v] = d
        BY <2>2, <3>3, <3>4, Zenon DEF IInv, Types
      <3> QED
        BY <2>1, <3>1, <3>2, <3>5, <3>6, Zenon
    <2>7. "logout" \in Label /\ Plain(H.op, "logout")
      BY Zenon DEF Label, Plain, Bare
    <2> QED
      BY <2>1, <2>3, <2>4, <2>5, <2>6, <2>7, <1>PlainServes, Zenon DEF Added

  \* The sessions end only when there is no map, so nothing of iSCSI is mounted.
  <1>LogoutServes.
      ASSUME IInv, UInv, LogoutAllSessions
      PROVE  UInv'
    <2> USE <1>LogoutServes
    <2>1. queue # <<>> /\ H.op = "unstage" /\ ReturnOk /\ UNCHANGED <<lun, map, config, mounted>>
      BY Zenon DEF LogoutAllSessions, At, array, files
    <2>2. proto' = proto
      BY <2>1, Zenon DEF ReturnOk
    <2>3. \/ UNCHANGED <<session, disk>>
          \/ /\ map = {}
             /\ session' = session \ {"iscsi"}
             /\ disk' = [a \in Address |-> IF a[1] = "iscsi" THEN None ELSE disk[a]]
      BY Zenon DEF LogoutAllSessions, NoMultipathDevice
    <2>4. CASE UNCHANGED <<session, disk>>
      <3>1. Still
        BY <2>1, <2>2, <2>4, Zenon DEF Still
      <3> QED
        BY <2>1, <2>2, <3>1, <1>StillServes, <1>HandlerServes, Zenon
    <2>5. CASE /\ map = {}
               /\ session' = session \ {"iscsi"}
               /\ disk' = [a \in Address |-> IF a[1] = "iscsi" THEN None ELSE disk[a]]
      <3>2. Mounts'
        <4> SUFFICES ASSUME NEW p \in Pod, mounted[p] # None
                     PROVE  Serves(Uses[p], mounted[p])' /\ config'[Uses[p]] = mounted'[p]
          BY <2>1, Zenon DEF Mounts
        <4>1. Serves(Uses[p], mounted[p]) /\ config[Uses[p]] = mounted[p]
          BY Zenon DEF UInv, Mounts
        <4>2. proto[Uses[p]] = "nvme"
          BY <2>5, <4>1, Zenon DEF Serves
        <4> QED
          BY <2>1, <2>2, <2>5, <4>1, <4>2, Zenon DEF Serves, Sessioned
      <3>3. map' \subseteq Volume
        BY <2>1, Zenon DEF UInv, NodeTypes
      <3> QED
        BY <2>1, <2>2, <3>2, <3>3, <1>HandlerServes, Zenon
    <2> QED
      BY <2>3, <2>4, <2>5, Zenon

  <1> SUFFICES ASSUME IInv, UInv, [Next]_vars
               PROVE  UInv'
    BY Zenon
  <1>1. CASE Handler
    BY Zenon, <1>1, <1>FirstServes, <1>LoginServes, <1>NVMEServes, <1>ScanServes, <1>CheckServes, <1>ConfigServes, <1>MountServes,
       <1>UnmountServes, <1>LoadServes, <1>FindServes, <1>FlushServes, <1>DetachServes, <1>RemoveServes, <1>LogoutServes, <1>ExpandServes
       DEF Handler
  <1>2. CASE Next /\ ~Handler
    BY Zenon, <1>2, <1>AttachServes, <1>CallServes, <1>OtherServes, <1>GiveUpServes, <1>CrashServes DEF Next
  <1>3. CASE UNCHANGED vars
    BY <1>3, <1>OtherServes, Zenon
  <1> QED
    BY <1>1, <1>2, <1>3, Zenon

\* What is mounted for a pod stays usable (MountedUsable): whatever fails, and in
\* whatever order the calls for other volumes run, no unstage takes away the map,
\* the disks or the session a mount stands on.
THEOREM Usable == Spec => []MountedUsable
  <1>1. Init => IInv /\ UInv
    BY InitIInv, InitUInv, Zenon
  <1>2. IInv /\ UInv /\ [Next]_vars => IInv' /\ UInv'
    BY NextIInv, NextUInv, Zenon
  <1>3. IInv /\ UInv => MountedUsable
    <2> SUFFICES ASSUME IInv, UInv, NEW p \in Pod, mounted[p] # None
                 PROVE  /\ Present(mounted[p])
                        /\ proto[mounted[p]] # "nvme" => PathsOf(mounted[p]) # {}
                        /\ proto[Uses[p]] \in {"iscsi", "nvme"} => proto[Uses[p]] \in session
      BY Zenon DEF MountedUsable
    <2>1. Uses[p] \in Volume /\ stage[Uses[p]] = "staged"
      BY UsesAssumption, Zenon DEF IInv, PodsOk
    <2>2. lun[Uses[p]] \in Lun /\ lun[Uses[p]] # None /\ proto[Uses[p]] \in Protocol
      BY <2>1, Zenon DEF IInv, Types, UInv, NodeTypes, Luns
    <2>3. Serves(Uses[p], mounted[p])
      BY Zenon DEF UInv, Mounts
    <2>4. CASE proto[Uses[p]] = "nvme"
      BY <2>2, <2>3, <2>4, Zenon DEF Serves, Sessioned, Present
    <2>5. CASE proto[Uses[p]] # "nvme"
      <3>1. <<proto[Uses[p]], lun[Uses[p]]>> \in Address
        BY <2>2, <2>5, Zenon DEF Protocol, Address, Transport
      <3>2. <<proto[Uses[p]], lun[Uses[p]]>> \in PathsOf(mounted[p])
        BY <2>3, <2>5, <3>1, Zenon DEF Serves, Found, PathsOf
      <3> QED
        BY <2>3, <2>5, <3>2, Zenon DEF Serves, Sessioned, Present
    <2> QED
      BY <2>4, <2>5, Zenon
  <1> QED
    BY <1>1, <1>2, <1>3, PTL DEF Spec

\* The file a later unstage needs is there and names the mounted device whenever
\* a device is mounted (ConfigKept), for any number of pods of a volume, repeated
\* and late calls and restarts.
THEOREM ConfigStays == Spec => []ConfigKept
  <1>1. Init => IInv /\ UInv
    BY InitIInv, InitUInv, Zenon
  <1>2. IInv /\ UInv /\ [Next]_vars => IInv' /\ UInv'
    BY NextIInv, NextUInv, Zenon
  <1>3. UInv => ConfigKept
    BY Zenon DEF UInv, Mounts, ConfigKept
  <1> QED
    BY <1>1, <1>2, <1>3, PTL DEF Spec

-----------------------------------------------------------------------------
(* Without failures.  A disk is where its volume is mapped, the file and   *)
(* the map of a volume are its own, and both are there whenever it has a   *)
(* disk, but for the moments at which a call is adding or removing them.   *)

Own(v) == <<proto[v], lun[v]>>

Tidy(v) ==
    /\ PathsOf(v) \subseteq {Own(v)} /\ config[v] \in {None, v}
    /\ v \in map => PathsOf(v) # {}
    /\ stage[v] \notin {"staged", "unstaging"} => PathsOf(v) = {} /\ config[v] = None

\* A later unstage finds the disks of v.
Remembered(v) == PathsOf(v) # {} => config[v] = v /\ v \in map

\* A publish has found a disk and not yet written the file; an unstage has
\* flushed the map and not yet deleted the disks.
Changing(c) ==
    \/ c.op = "publish" /\ c.at \in {"dm", "check", "config"}
    \/ c.op = "unstage" /\ c.at = "detach"

\* What the call that holds the mutex has done.
Doing(c) ==
    /\ c.op = "publish" /\ c.at \in {"reconfig", "perms"} => config[c.vol] = c.vol
    /\ c.op = "unstage" /\ c.at \in {"devices", "flush", "detach"} => c.dev = c.vol
    /\ c.op = "unstage" /\ c.at \in {"flush", "detach"} => PathsOf(c.vol) \subseteq c.paths
    /\ c.op = "unstage" /\ c.at \in {"rmjson", "logout"} => PathsOf(c.vol) = {}
    /\ c.op = "unstage" /\ c.at = "logout" => config[c.vol] = None

Clean ==
    /\ \A v \in Volume :
         Tidy(v) /\ (Remembered(v) \/ (queue # <<>> /\ queue[1].vol = v /\ Changing(queue[1])))
    /\ queue # <<>> => Doing(queue[1])

FInv == faults \in Nat /\ (faults = 0 => Clean)

\* In a step that is charged no fault every command and every call succeeds.
LEMMA NoFault ==
    ASSUME faults = 0, faults' = 0
    PROVE  /\ \A c : ~Fault(c)
           /\ \A c, o : Command(c, o) => o = "ok"
           /\ \A c, o : Charge(c, o) => o = "ok"
  BY DEF Fault, Command, Charge, Ok

Stays == UNCHANGED <<lun, proto, map, disk, config>>

\* An NVMe volume has no disks.
LEMMA NoPaths ==
    ASSUME NEW v, proto[v] = "nvme", Tidy(v)
    PROVE  PathsOf(v) = {}
  <1>1. \A a \in Address : a # Own(v)
    <2>1. \A a \in Address : a[1] # "nvme"
      BY Zenon DEF Address, Transport
    <2>2. Own(v)[1] = "nvme"
      BY Zenon DEF Own
    <2> QED
      BY <2>1, <2>2, Zenon
  <1> QED
    BY <1>1, Zenon DEF Tidy, PathsOf

\* The disk found for a volume is its own.
LEMMA OwnDevice ==
    ASSUME IInv, UInv, Clean, NEW v \in Volume, stage[v] = "staged", NEW d, Found(v, d)
    PROVE  d = v
  <1>1. lun[v] \in Lun /\ lun[v] # None /\ proto[v] \in Protocol
    BY Zenon DEF IInv, Types, UInv, NodeTypes, Luns
  <1>2. d \in Volume /\ Own(v) \in Address /\ disk[Own(v)] = d
    BY <1>1, Zenon DEF Found, Own, Address, Transport, Protocol
  <1>3. Own(v) \in PathsOf(d)
    BY <1>2, Zenon DEF PathsOf
  <1>4. Own(v) = Own(d)
    BY <1>2, <1>3, Zenon DEF Clean, Tidy
  <1>5. lun[v] = lun[d]
    BY <1>4, Zenon DEF Own
  <1> QED
    BY <1>1, <1>2, <1>5, Zenon DEF UInv, Luns

\* A publish ends with the volume's own device, and its disks have a map.
LEMMA OwnServed ==
    ASSUME IInv, UInv, Clean, NEW v \in Volume, stage[v] = "staged", NEW d, Serves(v, d)
    PROVE  d = v /\ (PathsOf(v) # {} => v \in map)
  <1>1. CASE proto[v] = "nvme"
    <2>1. Tidy(v)
      BY Zenon DEF Clean
    <2>2. d = v
      BY <1>1, Zenon DEF Serves
    <2> QED
      BY <1>1, <2>1, <2>2, NoPaths, Zenon
  <1>2. CASE proto[v] # "nvme"
    <2>1. Found(v, d) /\ d \in map
      BY <1>2, Zenon DEF Serves
    <2> QED
      BY <2>1, OwnDevice, Zenon
  <1> QED
    BY <1>1, <1>2, Zenon

\* A step is charged at most one fault.
Charged == faults' = faults \/ \E c : Fault(c)

\* Every command and every REST call is charged at most once.
LEMMA Charges ==
    /\ \A c, o : Command(c, o) => Charged
    /\ \A c, o : RestCharge(c, o) => Charged
  BY Zenon DEF Command, RestCharge, Charge, Charged

\* Every handler's step is charged for the command or the call it makes.
LEMMA HandlerCharged ==
    ASSUME Handler
    PROVE  Charged
  <1>1. CASE StageISCSI \/ StageFC \/ StageNVME \/ AddCHAPSecurity
    BY <1>1, Charges, Zenon DEF StageISCSI, StageFC, StageNVME, AddCHAPSecurity, AddPortForHost
  <1>2. CASE PublishISCSI \/ PublishNVME \/ PublishFC \/ DiscoverTargets
    BY <1>2, Charges, Zenon DEF PublishISCSI, PublishNVME, PublishFC, DiscoverTargets,
       GetISCSITargets, GetNVMETargets, GetFCDiskDetails
  <1>3. CASE LoginToTargets \/ AttachNVME \/ ScanISCSI \/ ScanFC
    BY <1>3, Charges, Zenon DEF LoginToTargets, AttachNVME, ScanISCSI, ScanFC, RescanDeviceMap
  <1>4. CASE AttachISCSI \/ SearchDiskFC
    BY <1>4, Zenon DEF AttachISCSI, SearchDiskFC, GetDMDevicePath, Charged
  <1>5. CASE MountLogic \/ Persist \/ MountFCDisk \/ SetVolumePermissions
    BY <1>5, Charges, Zenon DEF MountLogic, Persist, MountFCDisk, CreateConfigFile, SetVolumePermissions
  <1>6. CASE MountBlock \/ FormatAndMount
    BY <1>6, Charges, Zenon DEF MountBlock, FormatAndMount, Mount, Charged
  <1>7. CASE UnmountAndCleanUp \/ CleanupOldMountDirectory
    BY <1>7, Charges, Zenon DEF UnmountAndCleanUp, CleanupOldMountDirectory
  <1>8. CASE UnstageISCSI \/ UnstageFC
    BY <1>8, Charges, Zenon DEF UnstageISCSI, UnstageFC, LoadDiskInfoFromFile, Charged
  <1>9. CASE FindDevicesForMpath \/ MultipathFlush
    BY <1>9, Charges, Zenon DEF FindDevicesForMpath, MultipathFlush, Charged
  <1>10. CASE DetachMpathDevice
    BY <1>10, Zenon DEF DetachMpathDevice, Charged
  <1>11. CASE RemoveISCSI \/ RemoveFC \/ UnstageNVME \/ LogoutAllSessions
    BY <1>11, Charges, Zenon DEF RemoveISCSI, RemoveFC, UnstageNVME, RemoveJson, LogoutAllSessions
  <1>12. CASE ExpandISCSI \/ ExpandFC \/ ExpandNVME
    BY <1>12, Charges, Zenon DEF ExpandISCSI, ExpandFC, ExpandNVME, FindMultipathDevice, Charged
  <1>13. CASE RescanISCSI \/ RescanFC \/ ResizeISCSI \/ ResizeFC \/ ExpandFileSystem
    BY <1>13, Charges, Zenon DEF RescanISCSI, RescanFC, RescanPaths, ResizeISCSI, ResizeFC, ResizeMap,
       ExpandFileSystem
  <1> QED
    BY <1>1, <1>2, <1>3, <1>4, <1>5, <1>6, <1>7, <1>8, <1>9, <1>10, <1>11, <1>12, <1>13, Zenon DEF Handler

\* So are the deadline and the restart.
LEMMA FaultsGrow ==
    ASSUME faults \in Nat, [Next]_vars
    PROVE  faults' \in Nat /\ (faults' = 0 => faults = 0)
  <1>1. Charged
    <2>1. CASE Handler
      BY <2>1, HandlerCharged, Zenon
    <2>2. CASE (\E i \in DOMAIN queue : GiveUp(i)) \/ Crash
      BY <2>2, Zenon DEF GiveUp, Crash, Charged
    <2>3. CASE \/ \E v \in Volume : Attach(v) \/ Detach(v) \/ Grow(v) \/ AddMap(v)
               \/ \E p \in Pod : DeletePod(p)
               \/ UNCHANGED vars
      BY <2>3, Zenon DEF Attach, Detach, Grow, AddMap, DeletePod, vars, Charged
    <2>4. CASE \/ \E v \in Volume : CallStage(v) \/ CallUnstage(v)
               \/ \E p \in Pod : CallPublish(p) \/ CallUnpublish(p) \/ CallExpand(p)
      BY <2>4, Zenon DEF CallStage, CallUnstage, CallPublish, CallUnpublish, CallExpand, Send, Charged
    <2> QED
      BY <2>1, <2>2, <2>3, <2>4, Zenon DEF Next
  <1>2. faults' = faults \/ faults' = faults + 1
    BY <1>1, Zenon DEF Charged, Fault
  <1> QED
    BY <1>2

\* At first the node has nothing of any volume.
LEMMA InitFInv == Init => FInv
  <1> SUFFICES ASSUME Init
               PROVE  FInv
    BY Zenon
  <1>1. /\ queue = <<>> /\ map = {} /\ faults \in Nat
        /\ \A v \in Volume : config[v] = None
        /\ \A a \in Address : disk[a] = None
    BY Zenon DEF Init
  <1>2. \A v \in Volume : PathsOf(v) = {}
    BY <1>1, NodeAssumption, Zenon DEF PathsOf
  <1> QED
    BY <1>1, <1>2, Zenon DEF FInv, Clean, Tidy, Remembered

\* Every step that is charged no fault keeps it.
LEMMA NextFInv == IInv /\ UInv /\ FInv /\ [Next]_vars => FInv'
  \* What the invariant says of the call that holds the mutex.
  <1>CleanFacts.
      ASSUME IInv, Clean, queue # <<>>
      PROVE  /\ H.vol \in Volume /\ Doing(H)
             /\ \A w \in Volume : Tidy(w) /\ (w # H.vol => Remembered(w))
             /\ ~Changing(H) => \A w \in Volume : Remembered(w)
    <2> USE <1>CleanFacts
    <2>1. H = queue[1] /\ H.vol \in Volume
      BY HeadFacts, Zenon DEF CallType
    <2> QED
      BY <2>1, Zenon DEF Clean

  \* A volume whose disks, file, map and LUN are kept stays tidy.
  <1>TidyStays.
      ASSUME NEW w \in Volume, proto' = proto, lun'[w] = lun[w], PathsOf(w)' = PathsOf(w),
             config'[w] = config[w], w \in map' <=> w \in map,
             stage'[w] \in {"staged", "unstaging"} \/ stage[w] \notin {"staged", "unstaging"}
      PROVE  (Tidy(w) => Tidy(w)') /\ (Remembered(w) => Remembered(w)')
    <2> USE <1>TidyStays
    <2>1. Remembered(w) => Remembered(w)'
      BY Zenon DEF Remembered
    <2>2. Own(w)' = Own(w)
      BY Zenon DEF Own
    <2>3. Tidy(w) => Tidy(w)'
      BY <2>2, Zenon DEF Tidy
    <2> QED
      BY <2>1, <2>3, Zenon

  \* Steps between those of the call that holds the mutex.
  <1>BetweenClean.
      ASSUME IInv, Clean, UNCHANGED <<disk, config>>, \A w \in Volume : Tidy(w)' /\ (Remembered(w) => Remembered(w)'),
             queue' # <<>> => SameHead(queue'[1])
                              /\ (queue # <<>> => queue'[1].op = H.op /\ queue'[1].vol = H.vol /\ queue'[1].at = H.at),
             queue # <<>> => queue' # <<>>
      PROVE  Clean'
    <2> USE <1>BetweenClean
    <2>1. queue # <<>> => H = queue[1]
      BY HeadFacts, Zenon
    <2>2. ASSUME NEW w \in Volume
          PROVE  Remembered(w)' \/ (queue' # <<>> /\ queue'[1].vol = w /\ Changing(queue'[1]))
      BY <2>1, <2>2, Zenon DEF Clean, Changing
    <2>3. ASSUME queue' # <<>>
          PROVE  Doing(queue[1])'
      <3>1. PICK c : c = queue'[1]
        BY Zenon
      <3>2. PathsOf(c.vol)' = PathsOf(c.vol) /\ config'[c.vol] = config[c.vol]
        BY Zenon DEF PathsOf
      <3>3. CASE c.at \in Fresh
        <4>1. Doing(c)'
          BY <3>3, Zenon DEF Doing, Fresh
        <4> QED
          BY <3>1, <4>1, Zenon
      <3>4. CASE queue # <<>> /\ c.op = H.op /\ c.vol = H.vol /\ c.at = H.at /\ c.dev = H.dev /\ c.paths = H.paths
        <4>1. Doing(H)
          BY <3>4, <1>CleanFacts, Zenon
        <4>2. Doing(c)'
          BY <3>2, <3>4, <4>1, Zenon DEF Doing
        <4> QED
          BY <3>1, <4>2, Zenon
      <3> QED
        BY <2>3, <3>1, <3>3, <3>4, Zenon DEF SameHead
    <2> QED
      BY <2>2, <2>3, Zenon DEF Clean

  \* The attacher: the volume it works on has nothing on the node.
  <1>AttachClean.
      ASSUME IInv, Clean, NEW v \in Volume, Attach(v) \/ Detach(v)
      PROVE  Clean'
    <2> USE <1>AttachClean
    <2>1. /\ UNCHANGED <<proto, map, disk, config, queue>> /\ stage[v] \in {"attached", "detached"}
          /\ \E l : lun' = [lun EXCEPT ![v] = l]
          /\ \E s \in {"attached", "detached"} : stage' = [stage EXCEPT ![v] = s]
      BY Zenon DEF Attach, Detach, kernel, files
    <2>2. ASSUME NEW w \in Volume
          PROVE  Tidy(w)' /\ (Remembered(w) => Remembered(w)')
      <3>0. Tidy(w) /\ PathsOf(w)' = PathsOf(w)
        BY <2>1, Zenon DEF Clean, PathsOf
      <3>1. CASE w = v
        <4>1. PathsOf(w) = {} /\ config[w] = None /\ w \notin map
          BY <2>1, <3>0, <3>1, Zenon DEF Tidy
        <4> QED
          BY <2>1, <3>0, <4>1, Zenon DEF Tidy, Remembered
      <3>2. CASE w # v
        <4>1. lun'[w] = lun[w] /\ stage'[w] = stage[w]
          BY <2>1, <3>2, Zenon DEF IInv, Types, KubeletTypes
        <4> QED
          BY <2>1, <3>0, <4>1, <1>TidyStays, Zenon
      <3> QED
        BY <3>1, <3>2, Zenon
    <2>3. queue # <<>> => SameHead(queue'[1]) /\ queue'[1] = H
      BY <2>1, HeadFacts, Zenon DEF SameHead
    <2> QED
      BY <2>1, <2>2, <2>3, <1>BetweenClean, Zenon

  \* A new call joins the queue behind the others.
  <1>SendHead.
      ASSUME IInv, NEW op \in Op, NEW v \in Volume, NEW p \in Pod \cup {None}, NEW at \in Fresh,
             Send(op, v, p, at)
      PROVE  /\ queue' # <<>> /\ SameHead(queue'[1]) /\ (queue # <<>> => queue'[1] = H)
             /\ UNCHANGED <<lun, proto, map, disk, config>>
    <2> USE <1>SendHead
    <2> DEFINE c == Call(op, v, p, at)
    <2>1. queue' = Append(queue, c) /\ UNCHANGED <<lun, proto, map, disk, config>>
      BY Zenon DEF Send, array, kernel, files
    <2>2. c \in CallType /\ c.at = at
      <3>1. Types /\ at \in Label
        BY Zenon DEF IInv, Label
      <3> QED
        BY <3>1, CallTyped
    <2> HIDE DEF c
    <2>3. queue \in Seq(CallType) /\ Len(queue) \in Nat
      BY DEF IInv, QueueOk
    <2>4. /\ Len(queue') = Len(queue) + 1 /\ queue'[Len(queue) + 1] = c /\ queue' \in Seq(CallType)
          /\ \A i \in 1..Len(queue) : queue'[i] = queue[i]
      BY <2>1, <2>2, <2>3, Pushed
    <2>5. CASE queue = <<>>
      BY <2>1, <2>2, <2>4, <2>5 DEF SameHead
    <2>6. CASE queue # <<>>
      <3>1. H = queue[1] /\ 1 \in 1..Len(queue)
        BY <2>6, HeadFacts
      <3>2. queue'[1] = H /\ queue' # <<>>
        BY <2>3, <2>4, <3>1
      <3> QED
        BY <2>1, <2>6, <3>2, Zenon DEF SameHead
    <2> QED
      BY <2>5, <2>6, Zenon

  \* The kubelet's calls: a volume that is not staged yet has nothing on the node.
  <1>CallClean.
      ASSUME IInv, Clean,
             \/ \E v \in Volume : CallStage(v) \/ CallUnstage(v)
             \/ \E p \in Pod : CallPublish(p) \/ CallUnpublish(p) \/ CallExpand(p)
      PROVE  Clean'
    <2> USE <1>CallClean
    <2>1. PICK op \in Op, v \in Volume, p \in Pod \cup {None}, at \in Fresh :
             /\ Send(op, v, p, at)
             /\ \/ stage' = stage
                \/ stage' = [stage EXCEPT ![v] = "staging"] /\ stage[v] \in {"attached", "staging"}
                \/ stage' = [stage EXCEPT ![v] = "unstaging"]
      <3>1. CASE \E v \in Volume : CallStage(v) \/ CallUnstage(v)
        <4>1. /\ None \in Pod \cup {None} /\ "stage" \in Op /\ "unstage" \in Op
              /\ "port" \in Fresh /\ "load" \in Fresh
          BY Zenon DEF Op, Fresh
        <4> QED
          BY <3>1, <4>1, Zenon DEF CallStage, CallUnstage
      <3>2. CASE \E p \in Pod : CallPublish(p) \/ CallUnpublish(p) \/ CallExpand(p)
        <4>1. /\ "publish" \in Op /\ "unpublish" \in Op /\ "expand" \in Op
              /\ "targets" \in Fresh /\ "unmount" \in Fresh /\ "find" \in Fresh
          BY Zenon DEF Op, Fresh
        <4>2. \A p \in Pod : Uses[p] \in Volume /\ p \in Pod \cup {None}
          BY UsesAssumption, Zenon
        <4> QED
          BY <3>2, <4>1, <4>2, Zenon DEF CallPublish, CallUnpublish, CallExpand
      <3> QED
        BY <3>1, <3>2, Zenon
    <2>2. /\ queue' # <<>> /\ SameHead(queue'[1]) /\ (queue # <<>> => queue'[1] = H)
          /\ UNCHANGED <<lun, proto, map, disk, config>>
      BY <2>1, <1>SendHead, Zenon
    <2>3. ASSUME NEW w \in Volume
          PROVE  Tidy(w)' /\ (Remembered(w) => Remembered(w)')
      <3>1. Tidy(w) /\ PathsOf(w)' = PathsOf(w)
        BY <2>2, Zenon DEF Clean, PathsOf
      <3>2. stage'[w] \in {"staged", "unstaging"} \/ stage[w] \notin {"staged", "unstaging"}
        BY <2>1, Zenon DEF IInv, KubeletTypes
      <3> QED
        BY <2>2, <3>1, <3>2, <1>TidyStays, Zenon
    <2> QED
      BY <2>2, <2>3, <1>BetweenClean, Zenon

  \* A pod is deleted, a volume grows, multipathd makes a map of a disk.
  <1>OtherClean.
      ASSUME IInv, Clean,
             \/ \E p \in Pod : DeletePod(p)
             \/ \E v \in Volume : Grow(v) \/ AddMap(v)
             \/ UNCHANGED vars
      PROVE  Clean'
    <2> USE <1>OtherClean
    <2>1. /\ UNCHANGED <<lun, proto, stage, disk, config, queue>>
          /\ map' = map \/ \E v \in Volume : map' = map \cup {v} /\ PathsOf(v) # {}
      BY Zenon DEF DeletePod, Grow, AddMap, vars, array, k8s, kernel, files
    <2>2. ASSUME NEW w \in Volume
          PROVE  Tidy(w)' /\ (Remembered(w) => Remembered(w)')
      <3>1. Tidy(w) /\ PathsOf(w)' = PathsOf(w) /\ Own(w)' = Own(w)
        BY <2>1, Zenon DEF Clean, PathsOf, Own
      <3>2. (w \in map => w \in map') /\ (w \in map' => w \in map \/ PathsOf(w) # {})
        BY <2>1, Zenon
      <3> QED
        BY <2>1, <3>1, <3>2, Zenon DEF Tidy, Remembered
    <2>3. queue # <<>> => SameHead(queue'[1]) /\ queue'[1] = H
      BY <2>1, HeadFacts, Zenon DEF SameHead
    <2> QED
      BY <2>1, <2>2, <2>3, <1>BetweenClean, Zenon

  \* A step of a handler: its call goes on, or ends.
  <1>HandlerClean.
      ASSUME IInv, queue # <<>>, NEW v \in Volume, v = H.vol, \A w \in Volume : Tidy(w)',
             \A w \in Volume : w # v => Remembered(w)',
             \/ (ReturnError \/ ReturnOk) /\ Remembered(v)'
             \/ \E c \in CallType : Advances(c) /\ Doing(c)' /\ (Remembered(v)' \/ Changing(c))
      PROVE  Clean'
    <2> USE <1>HandlerClean
    <2>1. queue \in Seq(CallType) /\ Len(queue) \in Nat \ {0}
      BY HeadFacts, Zenon DEF IInv, QueueOk
    <2>2. CASE (ReturnError \/ ReturnOk) /\ Remembered(v)'
      <3>1. ASSUME queue' # <<>>
            PROVE  Doing(queue[1])'
        <4>1. /\ queue' \in Seq(CallType) /\ Len(queue') = Len(queue) - 1
              /\ \A i \in 1..Len(queue') : queue'[i] = queue[i + 1]
          BY <2>1, <2>2, Popped DEF ReturnError, ReturnOk
        <4>2. 1 \in 1..Len(queue') /\ 2 \in 2..Len(queue)
          BY <2>1, <3>1, <4>1
        <4>3. PICK c : c = queue'[1]
          BY Zenon
        <4>4. c.at \in Fresh
          BY <4>1, <4>2, <4>3 DEF IInv, QueueOk
        <4>5. Doing(c)'
          BY <4>4, Zenon DEF Doing, Fresh
        <4> QED
          BY <4>3, <4>5, Zenon
      <3> QED
        BY <2>2, <3>1, Zenon DEF Clean
    <2>3. CASE \E c \in CallType : Advances(c) /\ Doing(c)' /\ (Remembered(v)' \/ Changing(c))
      <3>1. PICK c \in CallType : Advances(c) /\ Doing(c)' /\ (Remembered(v)' \/ Changing(c))
        BY <2>3, Zenon
      <3>2. queue'[1] = c /\ Len(queue') = Len(queue) /\ queue' \in Seq(CallType)
        <4>1. queue' = <<c>> \o Tail(queue)
          BY <3>1, Zenon DEF Advances, Continue
        <4> QED
          BY <2>1, <3>1, <4>1, Replaced, Zenon
      <3>3. queue' # <<>>
        BY <2>1, <3>2, Zenon
      <3>4. queue'[1].vol = v
        BY <3>1, <3>2, Zenon DEF Advances
      <3>5. Doing(queue[1])' /\ (Remembered(v)' \/ Changing(queue'[1]))
        BY <3>1, <3>2, Zenon
      <3> QED
        BY <3>3, <3>4, <3>5, Zenon DEF Clean
    <2> QED
      BY <2>2, <2>3, Zenon

  \* What a handler's step does to the kubelet's knowledge of the volumes.
  <1>HandlerStage.
      ASSUME IInv, queue # <<>>, NEW v \in Volume, v = H.vol,
             ReturnError \/ ReturnOk \/ \E c : Advances(c)
      PROVE  /\ proto' = proto /\ \A w \in Volume : w # v => stage'[w] = stage[w]
             /\ \/ stage'[v] = stage[v]
                \/ H.op = "stage" /\ stage'[v] = "staged"
                \/ H.op = "unstage" /\ stage'[v] = "attached"
    BY <1>HandlerStage, Zenon DEF ReturnError, ReturnOk, Advances, Continue, k8s, IInv, KubeletTypes

  \* A step that leaves disks, maps and files alone.
  <1>StaysClean.
      ASSUME IInv, Clean, queue # <<>>, Stays,
             \/ ReturnError /\ Remembered(H.vol)
             \/ ReturnOk /\ Remembered(H.vol) /\ (H.op = "unstage" => PathsOf(H.vol) = {} /\ config[H.vol] = None)
             \/ \E c \in CallType : Advances(c) /\ Doing(c)' /\ (Remembered(H.vol) \/ Changing(c))
      PROVE  Clean'
    <2> USE <1>StaysClean
    <2>1. PICK v \in Volume : v = H.vol
      BY <1>CleanFacts, Zenon
    <2>2. /\ proto' = proto /\ \A w \in Volume : w # v => stage'[w] = stage[w]
          /\ \/ stage'[v] = stage[v]
             \/ H.op = "stage" /\ stage'[v] = "staged"
             \/ PathsOf(v) = {} /\ config[v] = None
      <3>1. CASE ReturnOk /\ (H.op = "unstage" => PathsOf(H.vol) = {} /\ config[H.vol] = None)
        BY <2>1, <3>1, <1>HandlerStage, Zenon
      <3>2. CASE ReturnError \/ \E c : Advances(c)
        BY <3>2, Zenon DEF ReturnError, Advances, Continue, k8s
      <3> QED
        BY <3>1, <3>2, Zenon
    <2>3. \A w : PathsOf(w)' = PathsOf(w) /\ config'[w] = config[w]
      BY Zenon DEF Stays, PathsOf
    <2>4. /\ Remembered(v) => Remembered(v)'
          /\ \A w \in Volume : w # v => Remembered(w)'
      BY <2>1, <2>3, <1>CleanFacts, Zenon DEF Stays, Remembered
    <2>5. ASSUME NEW w \in Volume
          PROVE  Tidy(w)'
      <3>1. Tidy(w) /\ Own(w)' = Own(w)
        BY <1>CleanFacts, Zenon DEF Own, Stays
      <3>2. CASE stage'[w] \in {"staged", "unstaging"} \/ stage[w] \notin {"staged", "unstaging"}
        BY <2>3, <3>1, <3>2, <1>TidyStays, Zenon DEF Stays
      <3>3. CASE PathsOf(w) = {} /\ config[w] = None
        BY <2>3, <3>1, <3>3, Zenon DEF Tidy, Stays
      <3> QED
        BY <2>1, <2>2, <3>2, <3>3, Zenon
    <2> QED
      BY <2>1, <2>4, <2>5, <1>HandlerClean, Zenon

  \* Labels of which nothing is asked.
  <1>BareDoes.
      ASSUME NEW c, c.op # "unstage", c.op = "publish" => c.at \notin {"reconfig", "perms"}
      PROVE  Doing(c)'
    BY <1>BareDoes, Zenon DEF Doing

  \* A step of another call than unstage, to such a label.
  <1>PlainClean.
      ASSUME IInv, Clean, queue # <<>>, Stays, H.op # "unstage", ~Changing(H),
             \/ ReturnError \/ ReturnOk
             \/ \E l \in Label : Goto(l) /\ (H.op = "publish" => l \notin {"reconfig", "perms"})
             \/ \E l \in Label, d \in Volume \cup {None} :
                  /\ Continue([H EXCEPT !.at = l, !.dev = d])
                  /\ H.op = "publish" => l \notin {"reconfig", "perms"}
      PROVE  Clean'
    <2> USE <1>PlainClean
    <2>1. Remembered(H.vol)
      BY <1>CleanFacts, Zenon
    <2>2. CASE ReturnError \/ ReturnOk
      BY <2>1, <2>2, <1>StaysClean, Zenon
    <2>3. CASE \E c \in CallType : Advances(c) /\ (H.op = "publish" => c.at \notin {"reconfig", "perms"})
      <3>1. PICK c \in CallType : Advances(c) /\ (H.op = "publish" => c.at \notin {"reconfig", "perms"})
        BY <2>3, Zenon
      <3>2. Doing(c)'
        <4>1. c.op # "unstage" /\ (c.op = "publish" => c.at \notin {"reconfig", "perms"})
          BY <3>1, Zenon DEF Advances
        <4> QED
          BY <4>1, <1>BareDoes, Zenon
      <3> QED
        BY <2>1, <3>1, <3>2, <1>StaysClean, Zenon
    <2>4. ASSUME NEW l \in Label, Goto(l), H.op = "publish" => l \notin {"reconfig", "perms"}
          PROVE  Clean'
      <3>1. \E c \in CallType : Advances(c) /\ c.at = l
        BY <2>4, GotoAdvances, Zenon
      <3> QED
        BY <2>3, <2>4, <3>1, Zenon
    <2>5. ASSUME NEW l \in Label, NEW d \in Volume \cup {None}, Continue([H EXCEPT !.at = l, !.dev = d]),
                 H.op = "publish" => l \notin {"reconfig", "perms"}
          PROVE  Clean'
      <3>1. \E c \in CallType : Advances(c) /\ c.at = l
        BY <2>5, DeviceAdvances, Zenon
      <3> QED
        BY <2>3, <2>5, <3>1, Zenon
    <2> QED
      BY <2>2, <2>4, <2>5, Zenon

  \* NodeStageVolume, the first steps of NodePublishVolume, NodeUnpublishVolume
  \* and the ends.
  <1>FirstClean.
      ASSUME IInv, Clean,
             \/ StageISCSI \/ StageFC \/ StageNVME \/ AddCHAPSecurity
             \/ PublishISCSI \/ PublishNVME \/ PublishFC \/ DiscoverTargets \/ LoginToTargets
             \/ SetVolumePermissions \/ UnmountAndCleanUp \/ CleanupOldMountDirectory
      PROVE  Clean'
    <2> USE <1>FirstClean
    <2>1. queue # <<>> /\ H.op # "unstage" /\ ~Changing(H)
      BY Zenon DEF StageISCSI, StageFC, StageNVME, AddCHAPSecurity, PublishISCSI, PublishNVME, PublishFC, DiscoverTargets,
         LoginToTargets, SetVolumePermissions, UnmountAndCleanUp, CleanupOldMountDirectory, Step, At, Changing
    <2>2. UNCHANGED <<lun, map, disk, config>>
      BY Zenon DEF StageISCSI, StageFC, StageNVME, AddCHAPSecurity, AddPortForHost, PublishISCSI, PublishNVME, PublishFC,
         DiscoverTargets, LoginToTargets, SetVolumePermissions, UnmountAndCleanUp, CleanupOldMountDirectory,
         array, kernel, files
    <2>3. ReturnError \/ ReturnOk \/ \E l \in {"chap", "discover", "login", "scan", "rmdir"} : Goto(l)
      BY Zenon DEF StageISCSI, StageFC, StageNVME, AddCHAPSecurity, AddPortForHost, PublishISCSI, PublishNVME, PublishFC,
         DiscoverTargets, LoginToTargets, SetVolumePermissions, UnmountAndCleanUp, CleanupOldMountDirectory, Then
    <2>4. proto' = proto
      BY <2>3, Zenon DEF ReturnError, ReturnOk, Goto, Continue, k8s
    <2>5. \A l \in {"chap", "discover", "login", "scan", "rmdir"} : l \in Label /\ l \notin {"reconfig", "perms"}
      BY Zenon DEF Label
    <2>6. Stays
      BY <2>2, <2>4, Zenon DEF Stays
    <2> QED
      BY <2>1, <2>3, <2>5, <2>6, <1>PlainClean, Zenon

  \* NodeExpandVolume changes sizes only.
  <1>ExpandClean.
      ASSUME IInv, Clean, ExpandISCSI \/ ExpandFC \/ ExpandNVME \/ RescanISCSI \/ RescanFC
                          \/ ResizeISCSI \/ ResizeFC \/ ExpandFileSystem
      PROVE  Clean'
    <2> USE <1>ExpandClean
    <2>1. queue # <<>> /\ H.op = "expand"
      BY Zenon DEF ExpandISCSI, ExpandFC, ExpandNVME, RescanISCSI, RescanFC, ResizeISCSI, ResizeFC,
             ExpandFileSystem, Step, At
    <2>2. UNCHANGED <<lun, map, disk, config>>
      BY Zenon DEF ExpandISCSI, ExpandFC, ExpandNVME, RescanISCSI, RescanFC, ResizeISCSI, ResizeFC,
             ExpandFileSystem, FindMultipathDevice, RescanPaths, ResizeMap, array, kernel, files
    <2>3. \/ ReturnError \/ ReturnOk
          \/ \E l \in {"resize", "grow"} : Goto(l)
          \/ \E l \in {"rescan", "grow"} : Continue([H EXCEPT !.at = l, !.dev = mounted[H.pod]])
      BY Zenon DEF ExpandISCSI, ExpandFC, ExpandNVME, RescanISCSI, RescanFC, ResizeISCSI, ResizeFC,
             ExpandFileSystem, FindMultipathDevice, RescanPaths, ResizeMap, Then
    <2>4. proto' = proto
      BY <2>3, Zenon DEF ReturnError, ReturnOk, Goto, Continue, k8s
    <2>5. mounted[H.pod] \in Volume \cup {None}
      BY <2>1, HeadFacts, Zenon DEF CallOk, IInv, KubeletTypes
    <2>6. "rescan" \in Label /\ "resize" \in Label /\ "grow" \in Label
      BY Zenon DEF Label
    <2>7. Stays /\ H.op # "unstage" /\ H.op # "publish" /\ ~Changing(H)
      BY <2>1, <2>2, <2>4, Zenon DEF Stays, Changing
    <2> QED
      BY <2>1, <2>3, <2>5, <2>6, <2>7, <1>PlainClean, Zenon

  \* An NVMe volume gets its device at login.
  <1>NVMEClean.
      ASSUME IInv, Clean, AttachNVME
      PROVE  Clean'
    <2> USE <1>NVMEClean
    <2>1. queue # <<>> /\ H.op = "publish" /\ ~Changing(H) /\ UNCHANGED <<lun, map, disk, config>>
      BY Zenon DEF AttachNVME, Step, At, Changing, array, files
    <2>2. ReturnError \/ \E d \in Volume : Continue([H EXCEPT !.at = "check", !.dev = d])
      <3>1. NVMENamespaces(H.lun) # {} => (CHOOSE v \in NVMENamespaces(H.lun) : TRUE) \in Volume
        BY Zenon DEF NVMENamespaces, MappedAt
      <3> QED
        BY <3>1, Zenon DEF AttachNVME, Then
    <2>3. proto' = proto
      BY <2>2, Zenon DEF ReturnError, Continue, k8s
    <2>4. Stays /\ H.op # "unstage" /\ "check" \in Label /\ "check" \notin {"reconfig", "perms"}
      BY <2>1, <2>3, Zenon DEF Stays, Label
    <2> QED
      BY <2>1, <2>2, <2>4, <1>PlainClean, Zenon

  \* A scan adds the disk of the volume that has the LUN: the one published.
  <1>ScanClean.
      ASSUME IInv, UInv, Clean, faults = 0, faults' = 0, ScanISCSI \/ ScanFC
      PROVE  Clean'
    <2> USE <1>ScanClean
    <2>1. /\ queue # <<>> /\ H.op = "publish" /\ H.at = "scan" /\ proto[H.vol] # "nvme" /\ RescanDeviceMap
          /\ UNCHANGED <<lun, map, config>>
      BY Zenon DEF ScanISCSI, ScanFC, RescanDeviceMap, Step, At, array, files
    <2>2. PICK v \in Volume : v = H.vol
      BY <2>1, <1>CleanFacts, Zenon
    <2>3. stage[v] = "staged" /\ H.lun = lun[v] /\ lun[v] \in Lun /\ lun[v] # None
      BY <2>1, <2>2, PublishFacts, NodeAssumption, Zenon
    <2>4. PICK o \in Outcome, a \in Address :
            /\ a = <<proto[H.vol], H.lun>> /\ Command("RescanDeviceMap", o) /\ Scan(a, o)
            /\ Then(o, IF disk'[a] = None THEN ReturnError
                       ELSE Continue([H EXCEPT !.at = "dm", !.dev = disk'[a]]))
      BY <2>1, Zenon DEF RescanDeviceMap, WaitForDeviceState
    <2>5. o = "ok" /\ a = Own(v) /\ a[2] = lun[v]
      BY <2>2, <2>3, <2>4, NoFault, Zenon DEF Own
    <2>6. MappedAt(a[2]) = {v}
      BY <2>3, <2>5, Zenon DEF MappedAt, UInv, Luns
    <2>7. disk' = IF disk[a] = None THEN [disk EXCEPT ![a] = v] ELSE disk
      <3>1. (CHOOSE x \in MappedAt(a[2]) : TRUE) = v
        BY <2>6, Zenon
      <3> QED
        BY <2>4, <2>5, <2>6, <3>1, Zenon DEF Scan, Done
    <2>8. disk'[a] \in Volume /\ disk'[a] # None
      BY <2>7, NodeAssumption, Zenon DEF IInv, Types
    <2>9. PICK c \in CallType : Advances(c) /\ c.at = "dm"
      <3>1. PICK d \in Volume : d = disk'[a]
        BY <2>8, Zenon
      <3>2. Continue([H EXCEPT !.at = "dm", !.dev = d])
        <4>1. Ok(o) /\ disk'[a] # None
          BY <2>5, <2>8, Zenon DEF Ok
        <4>2. Continue([H EXCEPT !.at = "dm", !.dev = disk'[a]])
          BY <2>4, <4>1, Zenon DEF Then
        <4> QED
          BY <3>1, <4>2, Zenon
      <3>3. queue # <<>> /\ "dm" \in Label /\ d \in Volume \cup {None}
        BY <2>1, Zenon DEF Label
      <3> QED
        BY <3>2, <3>3, DeviceAdvances, Zenon
    <2>10. /\ proto' = proto /\ \A w \in Volume : w # v => stage'[w] = stage[w]
           /\ stage'[v] = stage[v]
      <3>1. proto' = proto /\ stage' = stage
        BY <2>9, Zenon DEF Advances, Continue, k8s
      <3> QED
        BY <3>1, Zenon
    <2>11. ASSUME NEW w \in Volume, w # v
           PROVE  Tidy(w)' /\ Remembered(w)'
      <3>1. PathsOf(w)' = PathsOf(w)
        BY <2>7, <2>11, NodeAssumption, Zenon DEF PathsOf, IInv, Types
      <3>2. Tidy(w) /\ Remembered(w)
        BY <2>1, <2>2, <2>11, <1>CleanFacts, Zenon
      <3> QED
        BY <2>1, <2>10, <2>11, <3>1, <3>2, <1>TidyStays, Zenon
    <2>12. Tidy(v)'
      <3>1. PathsOf(v)' \subseteq PathsOf(v) \cup {Own(v)} /\ PathsOf(v) \subseteq PathsOf(v)'
        BY <2>5, <2>7, NodeAssumption, Zenon DEF PathsOf, IInv, Types
      <3>2. Tidy(v) /\ Own(v)' = Own(v) /\ stage'[v] = "staged"
        BY <2>1, <2>3, <2>10, <1>CleanFacts, Zenon DEF Own
      <3> QED
        BY <2>1, <3>1, <3>2, Zenon DEF Tidy
    <2>13. Changing(c) /\ Doing(c)'
      BY <2>1, <2>9, <1>BareDoes, Zenon DEF Changing, Advances
    <2> QED
      BY <2>1, <2>2, <2>9, <2>11, <2>12, <2>13, <1>HandlerClean, Zenon

  \* A publish that goes on with the device it has served.
  <1>ServedClean.
      ASSUME IInv, UInv, Clean, queue # <<>>, H.op = "publish", UNCHANGED <<lun, map, disk>>,
             config' = config \/ config' = [config EXCEPT ![H.vol] = H.dev],
             Serves(H.vol, H.dev), config'[H.vol] = H.dev,
             NEW l \in {"mount", "reconfig", "perms"}, Goto(l)
      PROVE  Clean'
    <2> USE <1>ServedClean
    <2>1. PICK v \in Volume : v = H.vol
      BY <1>CleanFacts, Zenon
    <2>2. PICK d : d = H.dev
      BY Zenon
    <2>3. stage[v] = "staged" /\ Serves(v, d)
      BY <2>1, <2>2, PublishFacts, Zenon
    <2>4. d = v /\ (PathsOf(v) # {} => v \in map)
      BY <2>3, OwnServed, Zenon
    <2>5. config'[v] = v /\ \A w \in Volume : w # v => config'[w] = config[w]
      BY <2>1, <2>2, <2>4, Zenon DEF IInv, Types
    <2>6. l \in Label
      BY Zenon DEF Label
    <2>7. PICK c \in CallType : Advances(c) /\ c.at = l
      BY <2>6, GotoAdvances, Zenon
    <2>8. proto' = proto /\ stage' = stage
      BY <2>7, Zenon DEF Advances, Continue, k8s
    <2>9. \A w : PathsOf(w)' = PathsOf(w)
      BY Zenon DEF PathsOf
    <2>10. ASSUME NEW w \in Volume, w # v
           PROVE  Tidy(w)' /\ Remembered(w)'
      <3>1. Tidy(w) /\ Remembered(w)
        BY <2>1, <2>10, <1>CleanFacts, Zenon
      <3> QED
        BY <2>5, <2>8, <2>9, <2>10, <3>1, <1>TidyStays, Zenon
    <2>11. Tidy(v)' /\ Remembered(v)'
      <3>1. Tidy(v) /\ Own(v)' = Own(v) /\ stage'[v] = "staged"
        BY <2>3, <2>8, <1>CleanFacts, Zenon DEF Own
      <3> QED
        BY <2>4, <2>5, <2>9, <3>1, Zenon DEF Tidy, Remembered
    <2>12. Doing(c)'
      BY <2>1, <2>5, <2>7, Zenon DEF Doing, Advances
    <2> QED
      BY <2>1, <2>7, <2>10, <2>11, <2>12, <1>HandlerClean, Zenon

  \* The map is there, and the target path is looked at.
  <1>CheckClean.
      ASSUME IInv, UInv, Clean, faults = 0, faults' = 0, AttachISCSI \/ SearchDiskFC \/ MountLogic
      PROVE  Clean'
    <2> USE <1>CheckClean
    <2>1. /\ queue # <<>> /\ H.op = "publish" /\ UNCHANGED <<lun, map, disk, config>>
      BY Zenon DEF AttachISCSI, SearchDiskFC, GetDMDevicePath, MountLogic, Step, At, array, kernel, files
    <2>2. \/ \E l \in {"check", "config"} : Goto(l)
          \/ H.at = "check" /\ mounted[H.pod] # None /\ \E l \in {"reconfig", "perms"} : Goto(l)
      BY NoFault, Zenon DEF AttachISCSI, SearchDiskFC, GetDMDevicePath, MountLogic, AfterMountLogic, Then, Step, At, Ok
    <2>3. CASE \E l \in {"check", "config"} : Goto(l)
      <3>1. PICK l \in {"check", "config"} : Goto(l)
        BY <2>3, Zenon
      <3>2. l \in Label
        BY Zenon DEF Label
      <3>3. PICK c \in CallType : Advances(c) /\ c.at = l
        BY <2>1, <3>1, <3>2, GotoAdvances, Zenon
      <3>4. Changing(c) /\ Doing(c)'
        BY <2>1, <3>3, <1>BareDoes, Zenon DEF Changing, Advances
      <3>5. Stays /\ H.op # "unstage"
        BY <2>1, <3>3, Zenon DEF Stays, Advances, Continue, k8s
      <3> QED
        BY <2>1, <3>3, <3>4, <3>5, <1>StaysClean, Zenon
    <2>4. CASE H.at = "check" /\ mounted[H.pod] # None /\ \E l \in {"reconfig", "perms"} : Goto(l)
      <3>1. H.pod \in Pod /\ Uses[H.pod] = H.vol /\ Serves(H.vol, H.dev)
        BY <2>1, <2>4, PublishFacts, Zenon DEF Working
      <3>2. Serves(H.vol, mounted[H.pod]) /\ config[H.vol] = mounted[H.pod]
        BY <2>4, <3>1, Zenon DEF UInv, Mounts
      <3>3. config'[H.vol] = H.dev
        BY <2>1, <3>1, <3>2, OneDevice, Zenon
      <3> QED
        BY <2>1, <2>4, <3>1, <3>3, <1>ServedClean, Zenon
    <2> QED
      BY <2>2, <2>3, <2>4, Zenon

  \* The file names the volume's own device.
  <1>ConfigClean.
      ASSUME IInv, UInv, Clean, faults = 0, faults' = 0, Persist \/ MountFCDisk
      PROVE  Clean'
    <2> USE <1>ConfigClean
    <2>1. /\ queue # <<>> /\ H.op = "publish" /\ H.at \in {"config", "reconfig"}
          /\ UNCHANGED <<lun, map, disk>>
      BY Zenon DEF Persist, MountFCDisk, CreateConfigFile, At, array, kernel
    <2>2. config' = [config EXCEPT ![H.vol] = H.dev] /\ \E l \in {"mount", "perms"} : Goto(l)
      BY NoFault, Zenon DEF Persist, MountFCDisk, CreateConfigFile, Then, Ok, Done
    <2>3. H.vol \in Volume /\ Serves(H.vol, H.dev)
      BY <2>1, PublishFacts, Zenon DEF Working
    <2>4. config'[H.vol] = H.dev
      BY <2>2, <2>3, Zenon DEF IInv, Types
    <2> QED
      BY <2>1, <2>2, <2>3, <2>4, <1>ServedClean, Zenon

  \* The mount, which fails when the device is not there.
  <1>MountClean.
      ASSUME IInv, UInv, Clean, MountBlock \/ FormatAndMount
      PROVE  Clean'
    <2> USE <1>MountClean
    <2>1. queue # <<>> /\ H.op = "publish" /\ H.at = "mount"
      BY Zenon DEF MountBlock, FormatAndMount, At
    <2>2. PICK o \in Outcome : Mount(o)
      BY Zenon DEF MountBlock, FormatAndMount
    <2>3. /\ UNCHANGED <<lun, map, disk, config>>
          /\ ReturnError \/ \E l \in {"reconfig", "perms"} : Goto(l)
      BY <2>2, Zenon DEF Mount, array, kernel, Then, AfterMountLogic
    <2>4. CASE ReturnError
      <3>1. Stays /\ H.op # "unstage" /\ ~Changing(H)
        BY <2>1, <2>3, <2>4, Zenon DEF Stays, ReturnError, k8s, Changing
      <3> QED
        BY <2>1, <2>4, <3>1, <1>PlainClean, Zenon
    <2>5. CASE \E l \in {"reconfig", "perms"} : Goto(l)
      <3>1. Serves(H.vol, H.dev) /\ config'[H.vol] = H.dev
        BY <2>1, <2>3, PublishFacts, Zenon DEF Working
      <3> QED
        BY <2>1, <2>3, <2>5, <3>1, <1>ServedClean, Zenon
    <2> QED
      BY <2>3, <2>4, <2>5, Zenon

  \* An unstage reads the name of its own map; without a file there are no disks.
  <1>LoadClean.
      ASSUME IInv, UInv, Clean, faults = 0, faults' = 0, UnstageISCSI \/ UnstageFC
      PROVE  Clean'
    <2> USE <1>LoadClean
    <2>1. queue # <<>> /\ H.op = "unstage" /\ H.at = "load" /\ UNCHANGED <<lun, map, disk, config>>
      BY Zenon DEF UnstageISCSI, UnstageFC, Step, At, array, kernel, files
    <2>2. \/ config[H.vol] = None /\ ReturnOk
          \/ config[H.vol] # None /\ Continue([H EXCEPT !.at = "devices", !.dev = config[H.vol]])
      BY NoFault, Zenon DEF UnstageISCSI, UnstageFC, LoadDiskInfoFromFile, Then, Ok
    <2>3. H.vol \in Volume /\ Remembered(H.vol) /\ Tidy(H.vol)
      BY <2>1, <1>CleanFacts, Zenon DEF Changing
    <2>4. Stays
      BY <2>1, <2>2, Zenon DEF Stays, ReturnOk, Continue, k8s
    <2>5. CASE config[H.vol] = None /\ ReturnOk
      <3>1. PathsOf(H.vol) = {}
        BY <2>3, <2>5, NodeAssumption, Zenon DEF Remembered
      <3> QED
        BY <2>1, <2>3, <2>4, <2>5, <3>1, <1>StaysClean, Zenon
    <2>6. CASE config[H.vol] # None /\ Continue([H EXCEPT !.at = "devices", !.dev = config[H.vol]])
      <3>1. PICK v \in Volume : v = H.vol
        BY <2>3, Zenon
      <3>2. config[H.vol] = v
        BY <2>3, <2>6, <3>1, Zenon DEF Tidy
      <3>3. Continue([H EXCEPT !.at = "devices", !.dev = v])
        BY <2>6, <3>2, Zenon
      <3>4. queue # <<>> /\ "devices" \in Label /\ v \in Volume \cup {None}
        BY <2>1, Zenon DEF Label
      <3>5. PICK c \in CallType : Advances(c) /\ c.at = "devices" /\ c.dev = v
        BY <3>3, <3>4, DeviceAdvances, Zenon
      <3>6. c.op = "unstage" /\ c.vol = v
        BY <2>1, <3>1, <3>5, Zenon DEF Advances
      <3>7. Doing(c)'
        BY <3>5, <3>6, Zenon DEF Doing
      <3> QED
        BY <2>1, <2>3, <2>4, <3>5, <3>7, <1>StaysClean, Zenon
    <2> QED
      BY <2>2, <2>5, <2>6, Zenon

  \* The paths of the map are noted; a volume without a map has none.
  <1>FindClean.
      ASSUME IInv, UInv, Clean, faults = 0, faults' = 0, FindDevicesForMpath
      PROVE  Clean'
    <2> USE <1>FindClean
    <2>1. queue # <<>> /\ H.op = "unstage" /\ H.at = "devices" /\ UNCHANGED <<lun, map, disk, config>>
      BY Zenon DEF FindDevicesForMpath, At, array, kernel, files
    <2>2. PICK v \in Volume : v = H.vol
      BY <2>1, <1>CleanFacts, Zenon
    <2>3. H.dev = v /\ Remembered(v)
      BY <2>1, <2>2, <1>CleanFacts, Zenon DEF Doing, Changing
    <2>4. \/ v \notin map /\ Goto("rmjson")
          \/ Continue([H EXCEPT !.at = "flush", !.paths = PathsOf(H.dev)])
      BY <2>3, NoFault, Zenon DEF FindDevicesForMpath, Ok
    <2>5. Stays
      BY <2>1, <2>4, Zenon DEF Stays, Goto, Continue, k8s
    <2>6. CASE v \notin map /\ Goto("rmjson")
      <3>1. PathsOf(v) = {}
        BY <2>3, <2>6, Zenon DEF Remembered
      <3>2. "rmjson" \in Label
        BY Zenon DEF Label
      <3>3. PICK c \in CallType : Advances(c) /\ c.at = "rmjson"
        BY <2>1, <2>6, <3>2, GotoAdvances, Zenon
      <3>4. c.vol = v /\ PathsOf(v)' = {}
        BY <2>1, <2>2, <3>1, <3>3, Zenon DEF Advances, PathsOf
      <3>5. Doing(c)'
        BY <3>3, <3>4, Zenon DEF Doing
      <3> QED
        BY <2>1, <2>2, <2>3, <2>5, <3>3, <3>5, <1>StaysClean, Zenon
    <2>7. CASE Continue([H EXCEPT !.at = "flush", !.paths = PathsOf(H.dev)])
      <3>1. PICK S \in SUBSET Address : S = PathsOf(v)
        BY Zenon DEF PathsOf
      <3>2. queue # <<>> /\ "flush" \in Label
        BY <2>1, Zenon DEF Label
      <3>3. Continue([H EXCEPT !.at = "flush", !.paths = S])
        BY <2>3, <2>7, <3>1, Zenon
      <3>4. PICK c \in CallType : Advances(c) /\ c.at = "flush" /\ c.dev = H.dev /\ c.paths = S
        BY <3>2, <3>3, PathsAdvances, Zenon
      <3>5. c.vol = v /\ c.dev = v /\ PathsOf(v)' = S
        BY <2>1, <2>2, <2>3, <3>1, <3>4, Zenon DEF Advances, PathsOf
      <3>6. Doing(c)'
        BY <3>4, <3>5, Zenon DEF Doing
      <3> QED
        BY <2>1, <2>2, <2>3, <2>5, <3>4, <3>6, <1>StaysClean, Zenon
    <2> QED
      BY <2>4, <2>6, <2>7, Zenon

  \* No pod has the device of a volume that is being unstaged.
  <1>NotInUse.
      ASSUME IInv, UInv, Clean, queue # <<>>, H.op = "unstage"
      PROVE  ~InUse(H.vol)
    <2> USE <1>NotInUse
    <2> SUFFICES ASSUME NEW p \in Pod, mounted[p] = H.vol
                 PROVE  FALSE
      BY Zenon DEF InUse
    <2>1. H.vol \in Volume /\ Uses[p] \in Volume /\ mounted[p] # None
      BY <1>CleanFacts, UsesAssumption, NodeAssumption, Zenon
    <2>2. stage[Uses[p]] = "staged" /\ Serves(Uses[p], mounted[p])
      BY <2>1, Zenon DEF IInv, PodsOk, UInv, Mounts
    <2>3. PICK w \in Volume : w = Uses[p]
      BY <2>1, Zenon
    <2>4. mounted[p] = w
      BY <2>2, <2>3, OwnServed, Zenon
    <2> QED
      BY <2>1, <2>3, <2>4, UnstageFacts, Zenon

  \* The map goes.
  <1>FlushClean.
      ASSUME IInv, UInv, Clean, faults = 0, faults' = 0, MultipathFlush
      PROVE  Clean'
    <2> USE <1>FlushClean
    <2>1. queue # <<>> /\ H.op = "unstage" /\ H.at = "flush" /\ UNCHANGED <<lun, disk, config>>
      BY Zenon DEF MultipathFlush, At, array, files
    <2>2. PICK v \in Volume : v = H.vol
      BY <2>1, <1>CleanFacts, Zenon
    <2>3. H.dev = v /\ PathsOf(v) \subseteq H.paths /\ ~InUse(v)
      BY <2>1, <2>2, <1>CleanFacts, <1>NotInUse, Zenon DEF Doing
    <2>4. map' = map \ {v} /\ Goto("detach")
      BY <2>3, NoFault, Zenon DEF MultipathFlush, Ok
    <2>5. "detach" \in Label
      BY Zenon DEF Label
    <2>6. PICK c \in CallType : Advances(c) /\ c.at = "detach" /\ c.dev = H.dev /\ c.paths = H.paths
      BY <2>1, <2>4, <2>5, GotoAdvances, Zenon
    <2>7. proto' = proto /\ stage' = stage /\ \A w : PathsOf(w)' = PathsOf(w)
      BY <2>1, <2>6, Zenon DEF Advances, Continue, k8s, PathsOf
    <2>8. ASSUME NEW w \in Volume, w # v
          PROVE  Tidy(w)' /\ Remembered(w)'
      <3>1. Tidy(w) /\ Remembered(w)
        BY <2>1, <2>2, <2>8, <1>CleanFacts, Zenon
      <3> QED
        BY <2>1, <2>4, <2>7, <2>8, <3>1, <1>TidyStays, Zenon
    <2>9. Tidy(v)'
      <3>1. Tidy(v) /\ Own(v)' = Own(v) /\ v \notin map'
        BY <2>1, <2>4, <2>7, <1>CleanFacts, Zenon DEF Own
      <3> QED
        BY <2>1, <2>7, <3>1, Zenon DEF Tidy
    <2>10. Changing(c) /\ Doing(c)'
      <3>1. c.op = "unstage" /\ c.vol = v /\ c.dev = v /\ PathsOf(v)' \subseteq c.paths
        BY <2>1, <2>2, <2>3, <2>6, <2>7, Zenon DEF Advances
      <3> QED
        BY <2>6, <3>1, Zenon DEF Changing, Doing
    <2> QED
      BY <2>1, <2>2, <2>6, <2>8, <2>9, <2>10, <1>HandlerClean, Zenon

  \* The disks go.
  <1>DetachClean.
      ASSUME IInv, UInv, Clean, faults = 0, faults' = 0, DetachMpathDevice
      PROVE  Clean'
    <2> USE <1>DetachClean
    <2>1. queue # <<>> /\ H.op = "unstage" /\ H.at = "detach" /\ Goto("rmjson") /\ UNCHANGED <<lun, config>>
      BY Zenon DEF DetachMpathDevice, At, array, files
    <2>2. PICK v \in Volume : v = H.vol
      BY <2>1, <1>CleanFacts, Zenon
    <2>3. H.dev = v /\ H.paths = PathsOf(v)
      <3>1. H.dev = v /\ PathsOf(v) \subseteq H.paths
        BY <2>1, <2>2, <1>CleanFacts, Zenon DEF Doing
      <3>2. H.paths \subseteq PathsOf(H.dev)
        BY <2>1, UnstageFacts, Zenon DEF Working
      <3> QED
        BY <3>1, <3>2, Zenon
    <2>4. disk' = [a \in Address |-> IF a \in PathsOf(v) THEN None ELSE disk[a]]
      <3>1. PICK left \in SUBSET H.paths :
               /\ left = {} \/ Fault("DetachDiskByDeviceName")
               /\ DetachDiskByDeviceName(left)
        BY Zenon DEF DetachMpathDevice
      <3>2. left = {} /\ H.paths \ left = PathsOf(v)
        BY <2>3, <3>1, NoFault, Zenon
      <3> QED
        BY <3>1, <3>2, Zenon DEF DetachDiskByDeviceName
    <2>5. map' = {u \in map : \E a \in Address : disk'[a] = u}
      BY Zenon DEF DetachMpathDevice, RemoveMultipathDevices
    <2>6. PathsOf(v)' = {} /\ \A w \in Volume : w # v => PathsOf(w)' = PathsOf(w)
      BY <2>4, NodeAssumption, Zenon DEF PathsOf
    <2>7. v \notin map' /\ \A w : w \in map' => w \in map /\ PathsOf(w)' # {}
      BY <2>5, <2>6, Zenon DEF PathsOf
    <2>8. "rmjson" \in Label
      BY Zenon DEF Label
    <2>9. PICK c \in CallType : Advances(c) /\ c.at = "rmjson"
      BY <2>1, <2>8, GotoAdvances, Zenon
    <2>10. proto' = proto /\ stage' = stage
      BY <2>9, Zenon DEF Advances, Continue, k8s
    <2>11. ASSUME NEW w \in Volume, w # v
           PROVE  Tidy(w)' /\ Remembered(w)'
      <3>1. Tidy(w) /\ Remembered(w) /\ PathsOf(w)' = PathsOf(w)
        BY <2>1, <2>2, <2>6, <2>11, <1>CleanFacts, Zenon
      <3>2. w \in map => w \in map'
        <4>1. ASSUME w \in map
              PROVE  \E a \in Address : disk'[a] = w
          BY <3>1, <4>1, Zenon DEF Tidy, PathsOf
        <4> QED
          BY <2>5, <4>1, Zenon
      <3> QED
        BY <2>1, <2>7, <2>10, <3>1, <3>2, <1>TidyStays, Zenon
    <2>12. Tidy(v)' /\ Remembered(v)'
      <3>1. Tidy(v)
        BY <2>1, <1>CleanFacts, Zenon
      <3> QED
        BY <2>1, <2>6, <2>7, <2>10, <3>1, Zenon DEF Tidy, Remembered
    <2>13. Doing(c)'
      <3>1. c.vol = v
        BY <2>2, <2>9, Zenon DEF Advances
      <3> QED
        BY <2>6, <2>9, <3>1, Zenon DEF Doing
    <2> QED
      BY <2>1, <2>2, <2>9, <2>11, <2>12, <2>13, <1>HandlerClean, Zenon

  \* The file goes.
  <1>RemoveClean.
      ASSUME IInv, UInv, Clean, faults = 0, faults' = 0, RemoveISCSI \/ RemoveFC \/ UnstageNVME
      PROVE  Clean'
    <2> USE <1>RemoveClean
    <2>1. /\ queue # <<>> /\ H.op = "unstage" /\ UNCHANGED <<lun, map, disk>>
          /\ H.at = "rmjson" \/ proto[H.vol] = "nvme"
      BY Zenon DEF RemoveISCSI, RemoveFC, UnstageNVME, RemoveJson, Step, At, array, kernel
    <2>2. PICK v \in Volume : v = H.vol
      BY <2>1, <1>CleanFacts, Zenon
    <2>3. PathsOf(v) = {} /\ Tidy(v)
      <3>1. Tidy(v) /\ Doing(H)
        BY <2>1, <1>CleanFacts, Zenon
      <3>2. CASE H.at = "rmjson"
        BY <2>1, <2>2, <3>1, <3>2, Zenon DEF Doing
      <3>3. CASE proto[v] = "nvme"
        BY <3>1, <3>3, NoPaths, Zenon
      <3> QED
        BY <2>1, <2>2, <3>1, <3>2, <3>3, Zenon
    <2>4. config' = [config EXCEPT ![v] = None] /\ (ReturnOk \/ Goto("logout"))
      <3>1. Done("ok") /\ Ok("ok")
        BY Zenon DEF Done, Ok
      <3> QED
        BY <2>2, <3>1, NoFault, Zenon DEF RemoveISCSI, RemoveFC, UnstageNVME, RemoveJson, Then
    <2>5. config'[v] = None /\ \A w \in Volume : w # v => config'[w] = config[w]
      BY <2>4, Zenon DEF IInv, Types
    <2>6. "logout" \in Label
      BY Zenon DEF Label
    <2>7. ReturnOk \/ \E c \in CallType : Advances(c) /\ c.at = "logout"
      BY <2>1, <2>4, <2>6, GotoAdvances, Zenon
    <2>8. proto' = proto /\ \A w \in Volume : w # v => stage'[w] = stage[w]
      BY <2>1, <2>2, <2>7, <1>HandlerStage, Zenon
    <2>9. \A w : PathsOf(w)' = PathsOf(w)
      BY <2>1, Zenon DEF PathsOf
    <2>10. ASSUME NEW w \in Volume, w # v
           PROVE  Tidy(w)' /\ Remembered(w)'
      <3>1. Tidy(w) /\ Remembered(w)
        BY <2>1, <2>2, <2>10, <1>CleanFacts, Zenon
      <3> QED
        BY <2>1, <2>5, <2>8, <2>9, <2>10, <3>1, <1>TidyStays, Zenon
    <2>11. Tidy(v)' /\ Remembered(v)'
      <3>1. v \notin map' /\ PathsOf(v)' = {}
        BY <2>1, <2>3, <2>9, Zenon DEF Tidy
      <3> QED
        BY <2>5, <3>1, Zenon DEF Tidy, Remembered
    <2>12. ASSUME NEW c \in CallType, Advances(c), c.at = "logout"
           PROVE  Doing(c)'
      <3>1. c.vol = v /\ PathsOf(v)' = {}
        BY <2>2, <2>3, <2>9, <2>12, Zenon DEF Advances
      <3> QED
        BY <2>5, <2>12, <3>1, Zenon DEF Doing
    <2> QED
      BY <2>1, <2>2, <2>7, <2>10, <2>11, <2>12, <1>HandlerClean, Zenon

  \* The sessions end when there is no map, and then no volume has a disk.
  <1>LogoutClean.
      ASSUME IInv, UInv, Clean, LogoutAllSessions
      PROVE  Clean'
    <2> USE <1>LogoutClean
    <2>1. queue # <<>> /\ H.op = "unstage" /\ H.at = "logout" /\ ReturnOk /\ UNCHANGED <<lun, map, config>>
      BY Zenon DEF LogoutAllSessions, At, array, files
    <2>2. PICK v \in Volume : v = H.vol
      BY <2>1, <1>CleanFacts, Zenon
    <2>3. PathsOf(v) = {} /\ config[v] = None
      BY <2>1, <2>2, <1>CleanFacts, Zenon DEF Doing
    <2>4. ~Changing(H)
      BY <2>1, Zenon DEF Changing
    <2>5. \A w \in Volume : PathsOf(w)' = PathsOf(w)
      <3>1. CASE disk' = disk
        BY <3>1, Zenon DEF PathsOf
      <3>2. CASE /\ map = {}
                 /\ disk' = [a \in Address |-> IF a[1] = "iscsi" THEN None ELSE disk[a]]
        <4>1. \A w \in Volume : PathsOf(w) = {}
          BY <2>1, <2>4, <3>2, <1>CleanFacts, Zenon DEF Remembered
        <4> QED
          BY <3>2, <4>1, NodeAssumption, Zenon DEF PathsOf
      <3> QED
        BY <3>1, <3>2, Zenon DEF LogoutAllSessions, NoMultipathDevice
    <2>6. proto' = proto /\ \A w \in Volume : w # v => stage'[w] = stage[w]
      BY <2>1, <2>2, <1>HandlerStage, Zenon
    <2>7. ASSUME NEW w \in Volume
          PROVE  Tidy(w)' /\ Remembered(w)'
      <3>1. Tidy(w) /\ Remembered(w) /\ PathsOf(w)' = PathsOf(w)
        BY <2>1, <2>4, <2>5, <1>CleanFacts, Zenon
      <3>2. CASE w # v
        BY <2>1, <2>6, <3>1, <3>2, <1>TidyStays, Zenon
      <3>3. CASE w = v
        <4>1. w \notin map' /\ PathsOf(w)' = {} /\ config'[w] = None
          BY <2>1, <2>3, <3>1, <3>3, Zenon DEF Tidy
        <4> QED
          BY <4>1, Zenon DEF Tidy, Remembered
      <3> QED
        BY <3>2, <3>3, Zenon
    <2> QED
      BY <2>1, <2>2, <2>7, <1>HandlerClean, Zenon

  <1> SUFFICES ASSUME IInv, UInv, FInv, [Next]_vars
               PROVE  FInv'
    BY Zenon
  <1>1. faults' \in Nat /\ (faults' = 0 => faults = 0)
    BY FaultsGrow, Zenon DEF FInv
  <1>2. ASSUME faults' = 0
        PROVE  Clean'
    <2>1. faults = 0 /\ Clean
      BY <1>1, <1>2, Zenon DEF FInv
    <2>2. CASE Handler
      BY Zenon, <1>2, <2>1, <2>2, <1>FirstClean, <1>ExpandClean, <1>NVMEClean, <1>ScanClean, <1>CheckClean, <1>ConfigClean,
         <1>MountClean, <1>LoadClean, <1>FindClean, <1>FlushClean, <1>DetachClean, <1>RemoveClean, <1>LogoutClean DEF Handler
    <2>3. CASE (\E i \in DOMAIN queue : GiveUp(i)) \/ Crash
      BY <1>2, <2>1, <2>3, NoFault, Zenon DEF GiveUp, Crash
    <2>4. CASE Next /\ ~Handler /\ ~((\E i \in DOMAIN queue : GiveUp(i)) \/ Crash)
      BY Zenon, <2>1, <2>4, <1>AttachClean, <1>CallClean, <1>OtherClean DEF Next
    <2>5. CASE UNCHANGED vars
      BY <2>1, <2>5, <1>OtherClean, Zenon
    <2> QED
      BY <2>2, <2>3, <2>4, <2>5, Zenon
  <1> QED
    BY <1>1, <1>2, Zenon DEF FInv

\* As long as nothing fails, a pod gets the device of its own volume although
\* LUNs are reused, and an unstage leaves nothing of its volume on the node
\* (RightVolume), for any number of volumes, pods, LUNs and calls in any order.
THEOREM RightVolumeKept == Spec => []RightVolume
  <1>1. Init => IInv /\ UInv /\ FInv
    BY InitIInv, InitUInv, InitFInv, Zenon
  <1>2. IInv /\ UInv /\ FInv /\ [Next]_vars => IInv' /\ UInv' /\ FInv'
    BY NextIInv, NextUInv, NextFInv, Zenon
  <1>3. IInv /\ UInv /\ FInv => RightVolume
    <2> SUFFICES ASSUME IInv, UInv, Clean
                 PROVE  /\ \A p \in Pod : mounted[p] \in {None, Uses[p]}
                        /\ \A v \in Volume : stage[v] \in {"detached", "attached"} =>
                              v \notin map /\ PathsOf(v) = {} /\ config[v] = None
      BY Zenon DEF FInv, RightVolume
    <2>1. ASSUME NEW p \in Pod, mounted[p] # None
          PROVE  mounted[p] = Uses[p]
      <3>1. PICK w \in Volume : w = Uses[p]
        BY UsesAssumption, Zenon
      <3>2. stage[w] = "staged" /\ Serves(w, mounted[p])
        BY <2>1, <3>1, Zenon DEF IInv, PodsOk, UInv, Mounts
      <3> QED
        BY <3>1, <3>2, OwnServed, Zenon
    <2>2. ASSUME NEW v \in Volume, stage[v] \in {"detached", "attached"}
          PROVE  v \notin map /\ PathsOf(v) = {} /\ config[v] = None
      <3>1. Tidy(v) /\ stage[v] \notin {"staged", "unstaging"}
        BY <2>2, Zenon DEF Clean
      <3> QED
        BY <3>1, Zenon DEF Tidy
    <2> QED
      BY <2>1, <2>2, Zenon
  <1> QED
    BY <1>1, <1>2, <1>3, PTL DEF Spec
-----------------------------------------------------------------------------
(* Sizes.  An expansion works on the device mounted for its pod.  The disk *)
(* at the LUN of the volume has the size asked for when it is rescanned,   *)
(* and the map has it when it is resized, if that disk is its only one.    *)

SizeTypes ==
    /\ expanded \in [Volume -> Nat] /\ dsize \in [Address -> Nat]
    /\ DOMAIN fsize = Volume /\ DOMAIN msize = Volume

\* A disk is at an address of its volume's protocol.
Wired == \A a \in Address : disk[a] # None => proto[disk[a]] = a[1]

\* An expansion asks for no more than the volume has on the array.
Asking(c) == c.op = "expand" => Uses[c.pod] = c.vol /\ c.size <= size[c.vol]
Asks == \A i \in 1..Len(queue) : Asking(queue[i])

\* What an expansion that holds the mutex has reached.
Grows(c) ==
    c.op = "expand" =>
        /\ c.at \in {"rescan", "resize", "grow"} => c.dev # None /\ c.dev = mounted[c.pod]
        /\ c.at = "resize" /\ proto[c.vol] # "nvme" => c.size <= dsize[Own(c.vol)]
        /\ c.at = "grow" /\ proto[c.vol] # "nvme" /\ PathsOf(c.dev) = {Own(c.vol)} => c.size <= msize[c.dev]

EInv == SizeTypes /\ Wired /\ Asks /\ (queue # <<>> => Grows(queue[1]))

\* The size of a map with one disk (AddMap, ResizeMap).
LEMMA LeastOne ==
    ASSUME NEW n \in Nat
    PROVE  Least({n}) = n
  BY DEF Least

\* The volume that has a LUN is the only one (MappedAt).
LEMMA Alone ==
    ASSUME UInv, NEW v \in Volume, lun[v] # None
    PROVE  MappedAt(lun[v]) = {v} /\ (CHOOSE x \in MappedAt(lun[v]) : TRUE) = v
  <1>1. MappedAt(lun[v]) = {v}
    BY Zenon DEF UInv, Luns, MappedAt
  <1> QED
    BY <1>1, Zenon

\* An expansion that holds the mutex: what is mounted for its pod is served.
LEMMA ExpandFacts ==
    ASSUME IInv, UInv, EInv, queue # <<>>, H.op = "expand"
    PROVE  /\ H \in CallType /\ H.vol \in Volume /\ H.pod \in Pod /\ Uses[H.pod] = H.vol
           /\ H.size \in Nat /\ size[H.vol] \in Nat /\ H.size <= size[H.vol] /\ Grows(H)
           /\ mounted[H.pod] # None =>
                /\ mounted[H.pod] \in Volume /\ stage[H.vol] = "staged" /\ lun[H.vol] # None
                /\ Serves(H.vol, mounted[H.pod])
                /\ proto[H.vol] # "nvme" =>
                     Own(H.vol) \in Address /\ disk[Own(H.vol)] = mounted[H.pod] /\ mounted[H.pod] \in map
  <1>1. H \in CallType /\ H = queue[1] /\ CallOk(H, stage, pod) /\ 1 \in 1..Len(queue)
    BY HeadFacts
  <1>2. Asking(H) /\ Grows(H)
    BY <1>1, Zenon DEF EInv, Asks
  <1>3. H.vol \in Volume /\ H.pod \in Pod /\ Uses[H.pod] = H.vol /\ H.size \in Nat /\ H.size <= size[H.vol]
    BY <1>1, <1>2, Zenon DEF CallType, CallOk, Asking
  <1>4. size[H.vol] \in Nat
    BY <1>3, Zenon DEF IInv, Types
  <1>5. ASSUME mounted[H.pod] # None
        PROVE  /\ mounted[H.pod] \in Volume /\ stage[H.vol] = "staged" /\ lun[H.vol] # None
               /\ Serves(H.vol, mounted[H.pod])
               /\ proto[H.vol] # "nvme" =>
                    Own(H.vol) \in Address /\ disk[Own(H.vol)] = mounted[H.pod] /\ mounted[H.pod] \in map
    <2>1. stage[H.vol] = "staged" /\ mounted[H.pod] \in Volume /\ Serves(H.vol, mounted[H.pod])
      <3>1. PICK p \in Pod : p = H.pod
        BY <1>3, Zenon
      <3>2. mounted[p] # None /\ mounted[p] \in Volume /\ stage[Uses[p]] = "staged"
        BY <1>5, <3>1, Zenon DEF IInv, PodsOk, KubeletTypes
      <3>3. Serves(Uses[p], mounted[p])
        BY <3>2, Zenon DEF UInv, Mounts
      <3> QED
        BY <1>3, <3>1, <3>2, <3>3, Zenon
    <2>2. lun[H.vol] \in Lun /\ lun[H.vol] # None /\ proto[H.vol] \in Protocol
      BY <1>3, <2>1, Zenon DEF IInv, Types, UInv, Luns, NodeTypes
    <2>3. proto[H.vol] # "nvme" => Own(H.vol) \in Address
      BY <2>2, Zenon DEF Own, Address, Transport, Protocol
    <2> QED
      BY <2>1, <2>2, <2>3, Zenon DEF Serves, Found, Own
  <1> QED
    BY <1>1, <1>2, <1>3, <1>4, <1>5, Zenon

\* c is the call b, but that the kubelet may have given it up.
SameCall(c, b) ==
    c.op = b.op /\ c.vol = b.vol /\ c.pod = b.pod /\ c.at = b.at /\ c.dev = b.dev /\ c.size = b.size

\* Only an expansion that is confirmed changes what the kubelet knows of a size.
LEMMA HandlerConfirms ==
    ASSUME HandlerStep
    PROVE  /\ proto' = proto
           /\ \/ expanded' = expanded
              \/ /\ ReturnOk /\ H.live /\ H.op = "expand"
                 /\ expanded' = [expanded EXCEPT ![H.vol] = H.size]
  BY Zenon DEF HandlerStep, Moved, ReturnError, ReturnOk, Continue, k8s

\* The steps that change no disk, map or file system.
QuietHandler ==
    \/ StageISCSI \/ StageFC \/ StageNVME \/ AddCHAPSecurity
    \/ PublishISCSI \/ PublishNVME \/ PublishFC \/ DiscoverTargets \/ LoginToTargets \/ AttachNVME
    \/ AttachISCSI \/ SearchDiskFC \/ MountLogic \/ Persist \/ MountFCDisk \/ MountBlock \/ SetVolumePermissions
    \/ UnmountAndCleanUp \/ CleanupOldMountDirectory \/ UnstageISCSI \/ UnstageFC \/ UnstageNVME
    \/ FindDevicesForMpath \/ RemoveISCSI \/ RemoveFC

\* They belong to no expansion.
LEMMA QuietSizes ==
    ASSUME QuietHandler
    PROVE  /\ H.op # "expand" /\ size' = size
           /\ disk' = disk /\ dsize' = dsize /\ map' = map /\ msize' = msize /\ fsize' = fsize
  <1>1. CASE StageISCSI \/ StageFC \/ StageNVME \/ AddCHAPSecurity
    BY <1>1, Zenon DEF StageISCSI, StageFC, StageNVME, AddCHAPSecurity, AddPortForHost, Step, At, kernel, files
  <1>2. CASE PublishISCSI \/ PublishNVME \/ PublishFC \/ DiscoverTargets
    BY <1>2, Zenon DEF PublishISCSI, PublishNVME, PublishFC, DiscoverTargets, Step, At, array, kernel, files
  <1>3. CASE LoginToTargets \/ AttachNVME \/ AttachISCSI \/ SearchDiskFC
    BY <1>3, Zenon DEF LoginToTargets, AttachNVME, AttachISCSI, SearchDiskFC, GetDMDevicePath, Step, At,
       array, kernel, files
  <1>4. CASE MountLogic \/ Persist \/ MountFCDisk \/ MountBlock \/ SetVolumePermissions
    BY <1>4, Zenon DEF MountLogic, Persist, MountFCDisk, CreateConfigFile, MountBlock, Mount,
       SetVolumePermissions, At, array, kernel, files
  <1>5. CASE UnmountAndCleanUp \/ CleanupOldMountDirectory \/ UnstageISCSI \/ UnstageFC
    BY <1>5, Zenon DEF UnmountAndCleanUp, CleanupOldMountDirectory, UnstageISCSI, UnstageFC, Step, At,
       array, kernel, files
  <1>6. CASE FindDevicesForMpath \/ RemoveISCSI \/ RemoveFC \/ UnstageNVME
    BY <1>6, Zenon DEF FindDevicesForMpath, RemoveISCSI, RemoveFC, UnstageNVME, RemoveJson, Step, At,
       array, kernel, files
  <1> QED
    BY <1>1, <1>2, <1>3, <1>4, <1>5, <1>6, Zenon DEF QuietHandler

\* At first nothing is mounted and no call waits.
LEMMA InitEInv == Init => EInv
  <1> SUFFICES ASSUME Init
               PROVE  EInv
    BY Zenon
  <1>1. SizeTypes
    BY Zenon DEF Init, SizeTypes
  <1>2. Wired
    BY Zenon DEF Init, Wired
  <1>3. queue = <<>> /\ Asks
    BY DEF Init, Asks
  <1> QED
    BY <1>1, <1>2, <1>3, Zenon DEF EInv

\* Every step keeps it.
LEMMA NextEInv == IInv /\ UInv /\ EInv /\ [Next]_vars => EInv'
  \* At its first step an expansion has reached nothing.
  <1>FreshGrows.
      ASSUME NEW c, c.at \in Fresh
      PROVE  Grows(c)'
    BY <1>FreshGrows, Zenon DEF Fresh, Grows

  \* Steps between those of the call that holds the mutex: the map in use keeps
  \* its size.
  <1>BetweenGrows.
      ASSUME IInv, UInv, EInv, SizeTypes', Asks', proto' = proto, dsize' = dsize, disk' = disk, mounted' = mounted,
             LunsKept, \A w \in map : msize'[w] = msize[w],
             queue' # <<>> => queue'[1].at \in Fresh \/ (queue # <<>> /\ SameCall(queue'[1], H))
      PROVE  EInv'
    <2> USE <1>BetweenGrows
    <2>1. Wired'
      BY Zenon DEF EInv, Wired
    <2>2. ASSUME queue' # <<>>
          PROVE  Grows(queue[1])'
      <3>1. PICK c : c = queue'[1]
        BY Zenon
      <3>2. CASE c.at \in Fresh
        BY <3>1, <3>2, <1>FreshGrows, Zenon
      <3>3. CASE queue # <<>> /\ SameCall(c, H) /\ c.op = "expand" /\ c.at \in {"rescan", "resize", "grow"}
        <4>1. H.op = "expand"
          BY <3>3, Zenon DEF SameCall
        <4>2. Grows(H) /\ H.vol \in Volume
          BY <3>3, <4>1, ExpandFacts, Zenon
        <4>3. c.dev # None /\ c.dev = mounted[c.pod] /\ mounted[H.pod] # None
          BY <3>3, <4>2, Zenon DEF SameCall, Grows
        <4>4. stage[c.vol] = "staged" /\ (proto[c.vol] # "nvme" => c.dev \in map)
          BY <3>3, <4>1, <4>3, ExpandFacts, Zenon DEF SameCall
        <4>5. lun'[c.vol] = lun[c.vol]
          BY <3>3, <4>2, <4>4, Zenon DEF LunsKept, SameCall
        <4>6. Own(c.vol)' = Own(c.vol) /\ PathsOf(c.dev)' = PathsOf(c.dev)
          BY <4>5, Zenon DEF Own, PathsOf
        <4>7. Grows(c)'
          BY <3>3, <4>2, <4>3, <4>4, <4>6, Zenon DEF Grows, SameCall
        <4> QED
          BY <3>1, <4>7, Zenon
      <3>4. CASE ~(c.op = "expand" /\ c.at \in {"rescan", "resize", "grow"})
        <4>1. Grows(c)'
          BY <3>4, Zenon DEF Grows
        <4> QED
          BY <3>1, <4>1, Zenon
      <3> QED
        BY <2>2, <3>1, <3>2, <3>3, <3>4, Zenon
    <2> QED
      BY <2>1, <2>2, Zenon DEF EInv

  \* The attacher, a deleted pod, a volume that grows, a new map and a restart.
  <1>OtherGrows.
      ASSUME IInv, UInv, EInv,
             \/ \E v \in Volume : Attach(v) \/ Detach(v) \/ Grow(v) \/ AddMap(v)
             \/ \E p \in Pod : DeletePod(p)
             \/ Crash \/ UNCHANGED vars
      PROVE  EInv'
    <2> USE <1>OtherGrows
    <2>1. /\ proto' = proto /\ expanded' = expanded /\ dsize' = dsize /\ disk' = disk /\ mounted' = mounted
          /\ fsize' = fsize /\ (queue' = queue \/ queue' = <<>>)
      BY Zenon DEF Attach, Detach, Grow, AddMap, DeletePod, Crash, vars, array, k8s, kernel, files
    <2>2. LunsKept
      <3>1. CASE \E v \in Volume : Attach(v) \/ Detach(v)
        <4>1. PICK v \in Volume : stage[v] # "staged" /\ \E l : lun' = [lun EXCEPT ![v] = l]
          BY <3>1, Zenon DEF Attach, Detach
        <4> QED
          BY <4>1, Zenon DEF LunsKept, IInv, Types
      <3>2. CASE lun' = lun
        BY <3>2, Zenon DEF LunsKept
      <3> QED
        BY <3>1, <3>2, Zenon DEF Grow, AddMap, DeletePod, Crash, vars, array
    <2>3. DOMAIN msize' = Volume /\ \A w \in map : msize'[w] = msize[w]
      <3>1. msize' = msize \/ \E v : v \notin map /\ \E n : msize' = [msize EXCEPT ![v] = n]
        BY Zenon DEF Attach, Detach, Grow, AddMap, DeletePod, Crash, vars, kernel
      <3>2. DOMAIN msize = Volume /\ map \subseteq Volume
        BY Zenon DEF EInv, SizeTypes, UInv, NodeTypes
      <3> QED
        BY <3>1, <3>2, Zenon
    <2>4. SizeTypes'
      BY <2>1, <2>3, Zenon DEF EInv, SizeTypes
    <2>5. Asks'
      <3>1. \A v \in Volume : size[v] \in Nat /\ size'[v] \in Nat /\ size[v] <= size'[v]
        <4>1. size \in [Volume -> Nat]
          BY Zenon DEF IInv, Types
        <4>2. size' = size \/ \E v \in Volume : size' = [size EXCEPT ![v] = @ + 1]
          BY Zenon DEF Attach, Detach, Grow, AddMap, DeletePod, Crash, vars, array
        <4> QED
          BY <4>1, <4>2
      <3>2. CASE queue' = queue
        <4> SUFFICES ASSUME NEW i \in 1..Len(queue)
                     PROVE  Asking(queue[i])'
          BY <3>2, Zenon DEF Asks
        <4>1. PICK c \in CallType : c = queue[i]
          BY Queued, Zenon
        <4>2. Asking(c) /\ c.vol \in Volume /\ c.size \in Nat
          BY <4>1, Zenon DEF EInv, Asks, CallType
        <4>3. Asking(c)'
          BY <3>1, <4>2 DEF Asking
        <4> QED
          BY <3>2, <4>1, <4>3, Zenon
      <3>3. CASE queue' = <<>>
        BY <3>3 DEF Asks
      <3> QED
        BY <2>1, <3>2, <3>3, Zenon
    <2>6. queue' # <<>> => queue # <<>> /\ SameCall(queue'[1], H)
      BY <2>1, HeadFacts, Zenon DEF SameCall
    <2> QED
      BY <2>1, <2>2, <2>3, <2>4, <2>5, <2>6, <1>BetweenGrows, Zenon

  \* A new call joins the queue; an expansion asks for the size of its volume.
  <1>SendGrows.
      ASSUME IInv, UInv, EInv, NEW op \in Op, NEW v \in Volume, NEW p \in Pod \cup {None}, NEW at \in Fresh,
             Send(op, v, p, at), op = "expand" => Uses[p] = v
      PROVE  EInv'
    <2> USE <1>SendGrows
    <2> DEFINE c == Call(op, v, p, at)
    <2>1. /\ queue' = Append(queue, c) /\ lun' = lun /\ size' = size /\ proto' = proto /\ expanded' = expanded
          /\ disk' = disk /\ dsize' = dsize /\ msize' = msize /\ fsize' = fsize /\ mounted' = mounted
      BY Zenon DEF Send, array, kernel, files
    <2>2. c \in CallType
      <3>1. Types /\ at \in Label
        BY Zenon DEF IInv, Label
      <3> QED
        BY <3>1, CallTyped, Zenon
    <2>3. c.op = op /\ c.vol = v /\ c.pod = p /\ c.at = at /\ (op = "expand" => c.size = size[v])
      BY Zenon DEF Call
    <2> HIDE DEF c
    <2>4. Asking(c)
      <3>1. size[v] \in Nat
        BY Zenon DEF IInv, Types
      <3> QED
        BY <2>3, <3>1 DEF Asking
    <2>5. queue \in Seq(CallType) /\ Len(queue) \in Nat
      BY DEF IInv, QueueOk
    <2>6. /\ Len(queue') = Len(queue) + 1 /\ queue'[Len(queue) + 1] = c
          /\ \A i \in 1..Len(queue) : queue'[i] = queue[i]
      BY <2>1, <2>2, <2>5, Pushed
    <2>7. Asks'
      <3>1. \A i \in 1..Len(queue') : Asking(queue'[i])
        BY <2>4, <2>5, <2>6 DEF EInv, Asks
      <3> QED
        BY <2>1, <3>1, Zenon DEF Asks, Asking
    <2>8. queue'[1].at \in Fresh \/ (queue # <<>> /\ SameCall(queue'[1], H))
      <3>1. CASE queue = <<>>
        <4>1. queue'[1] = c
          BY <2>6, <3>1
        <4> QED
          BY <2>3, <4>1, Zenon
      <3>2. CASE queue # <<>>
        <4>1. queue'[1] = H
          BY <2>6, <3>2, HeadFacts
        <4> QED
          BY <3>2, <4>1, Zenon DEF SameCall
      <3> QED
        BY <3>1, <3>2, Zenon
    <2>9. SizeTypes' /\ LunsKept
      BY <2>1, Zenon DEF EInv, SizeTypes, LunsKept
    <2> QED
      BY <2>1, <2>7, <2>8, <2>9, <1>BetweenGrows, Zenon

  \* The kubelet's calls.
  <1>CallGrows.
      ASSUME IInv, UInv, EInv,
             \/ \E v \in Volume : CallStage(v) \/ CallUnstage(v)
             \/ \E p \in Pod : CallPublish(p) \/ CallUnpublish(p) \/ CallExpand(p)
      PROVE  EInv'
    <2> USE <1>CallGrows
    <2>1. CASE \E v \in Volume : CallStage(v) \/ CallUnstage(v)
      <3>1. PICK v \in Volume, op \in {"stage", "unstage"}, at \in {"port", "load"} : Send(op, v, None, at)
        BY <2>1, Zenon DEF CallStage, CallUnstage
      <3>2. op \in Op /\ at \in Fresh /\ op # "expand"
        BY <3>1, Zenon DEF Op, Fresh
      <3> QED
        BY <3>1, <3>2, <1>SendGrows, Zenon
    <2>2. CASE \E p \in Pod : CallPublish(p) \/ CallUnpublish(p) \/ CallExpand(p)
      <3>1. PICK p \in Pod, op \in {"publish", "unpublish", "expand"}, at \in {"targets", "unmount", "find"} :
               Send(op, Uses[p], p, at)
        BY <2>2, Zenon DEF CallPublish, CallUnpublish, CallExpand
      <3>2. op \in Op /\ at \in Fresh
        BY <3>1, Zenon DEF Op, Fresh
      <3>3. PICK v \in Volume : v = Uses[p]
        BY UsesAssumption, Zenon
      <3> QED
        BY <3>1, <3>2, <3>3, <1>SendGrows, Zenon
    <2> QED
      BY <2>1, <2>2, Zenon

  \* The kubelet gives a call up: it stays the call it is.
  <1>GiveUpGrows.
      ASSUME IInv, UInv, EInv, NEW i \in DOMAIN queue, GiveUp(i)
      PROVE  EInv'
    <2> USE <1>GiveUpGrows
    <2>1. /\ queue' = [queue EXCEPT ![i].live = FALSE] /\ lun' = lun /\ size' = size /\ proto' = proto
          /\ expanded' = expanded /\ disk' = disk /\ dsize' = dsize /\ msize' = msize /\ fsize' = fsize
          /\ mounted' = mounted
      BY Zenon DEF GiveUp, array, k8s, kernel, files
    <2>2. queue \in Seq(CallType) /\ i \in 1..Len(queue)
      BY DEF IInv, QueueOk
    <2> DEFINE c == [queue[i] EXCEPT !.live = FALSE]
    <2>3. queue[i] \in CallType
      BY <2>2
    <2>4. c \in CallType /\ SameCall(c, queue[i])
      BY <2>3, Zenon DEF CallType, SameCall
    <2>5. queue' = [queue EXCEPT ![i] = c]
      BY <2>1, Zenon
    <2> HIDE DEF c
    <2>6. /\ Len(queue') = Len(queue)
          /\ \A j \in 1..Len(queue) : queue'[j] = IF j = i THEN c ELSE queue[j]
      BY <2>2, <2>4, <2>5
    <2>7. Asks'
      <3>1. \A j \in 1..Len(queue) : Asking(queue[j])
        BY Zenon DEF EInv, Asks
      <3>2. Asking(c)
        BY <2>2, <2>4, <3>1, Zenon DEF SameCall, Asking
      <3>3. \A j \in 1..Len(queue') : Asking(queue'[j])
        BY <2>6, <3>1, <3>2, Zenon
      <3> QED
        BY <2>1, <3>3, Zenon DEF Asks, Asking
    <2>8. queue # <<>> /\ SameCall(queue'[1], H)
      <3>1. queue # <<>> /\ 1 \in 1..Len(queue)
        BY <2>2
      <3>2. H = queue[1]
        BY <3>1, HeadFacts, Zenon
      <3> QED
        BY <2>4, <2>6, <3>1, <3>2, Zenon DEF SameCall
    <2>9. SizeTypes' /\ LunsKept
      BY <2>1, Zenon DEF EInv, SizeTypes, LunsKept
    <2> QED
      BY <2>1, <2>7, <2>8, <2>9, <1>BetweenGrows, Zenon

  \* A step of a handler: its call goes on, or ends.
  <1>HandlerGrows.
      ASSUME IInv, UInv, EInv, queue # <<>>, SizeTypes', Wired', size' = size,
             \/ ReturnError \/ ReturnOk
             \/ \E c \in CallType : /\ Continue(c) /\ Grows(c)'
                                    /\ c.op = H.op /\ c.vol = H.vol /\ c.pod = H.pod /\ c.size = H.size
      PROVE  EInv'
    <2> USE <1>HandlerGrows
    <2>1. queue \in Seq(CallType) /\ Len(queue) \in Nat \ {0} /\ H = queue[1]
      BY HeadFacts, Zenon DEF IInv, QueueOk
    <2>2. \A i \in 1..Len(queue) : Asking(queue[i])
      BY Zenon DEF EInv, Asks
    <2>3. CASE ReturnError \/ ReturnOk
      <3>1. /\ queue' \in Seq(CallType) /\ Len(queue') = Len(queue) - 1
            /\ \A i \in 1..Len(queue') : queue'[i] = queue[i + 1]
        <4>1. queue' = Tail(queue)
          BY <2>3, Zenon DEF ReturnError, ReturnOk
        <4>2. /\ Tail(queue) \in Seq(CallType) /\ Len(Tail(queue)) = Len(queue) - 1
              /\ \A i \in 1..(Len(queue) - 1) : Tail(queue)[i] = queue[i + 1]
          BY <2>1, Popped, Zenon
        <4> QED
          BY <4>1, <4>2, Zenon
      <3>2. \A i \in 1..Len(queue') : i + 1 \in 1..Len(queue)
        BY <2>1, <3>1
      <3>3. \A i \in 1..Len(queue') : Asking(queue'[i])
        BY <2>2, <3>1, <3>2, Zenon
      <3>4. Asks'
        BY <3>3, Zenon DEF Asks, Asking
      <3>5. ASSUME queue' # <<>>
            PROVE  Grows(queue[1])'
        <4>1. 1 \in 1..Len(queue') /\ 2 \in 2..Len(queue)
          BY <2>1, <3>1, <3>5
        <4>2. PICK c : c = queue'[1]
          BY Zenon
        <4>3. c.at \in Fresh
          BY <3>1, <4>1, <4>2 DEF IInv, QueueOk
        <4> QED
          BY <4>2, <4>3, <1>FreshGrows, Zenon
      <3> QED
        BY <3>4, <3>5, Zenon DEF EInv
    <2>4. CASE \E c \in CallType : /\ Continue(c) /\ Grows(c)'
                                   /\ c.op = H.op /\ c.vol = H.vol /\ c.pod = H.pod /\ c.size = H.size
      <3>1. PICK c \in CallType : /\ Continue(c) /\ Grows(c)'
                                  /\ c.op = H.op /\ c.vol = H.vol /\ c.pod = H.pod /\ c.size = H.size
        BY <2>4, Zenon
      <3>2. /\ Len(queue') = Len(queue) /\ queue'[1] = c
            /\ \A i \in 2..Len(queue) : queue'[i] = queue[i]
        BY <2>1, <3>1, Replaced DEF Continue
      <3>3. Asking(c)
        <4>1. Asking(H)
          BY <2>1, <2>2
        <4> QED
          BY <3>1, <4>1, Zenon DEF Asking
      <3>4. \A i \in 1..Len(queue') : Asking(queue'[i])
        BY <2>1, <2>2, <3>2, <3>3
      <3>5. Asks'
        BY <3>4, Zenon DEF Asks, Asking
      <3>6. Grows(queue[1])'
        BY <3>1, <3>2, Zenon
      <3> QED
        BY <3>5, <3>6, Zenon DEF EInv
    <2> QED
      BY <2>3, <2>4, Zenon

  \* A step of another call than an expansion.
  <1>OthersGrow.
      ASSUME IInv, UInv, EInv, HandlerStep, H.op # "expand", size' = size, dsize' \in [Address -> Nat],
             DOMAIN fsize' = Volume, DOMAIN msize' = Volume,
             \A a \in Address : disk'[a] # None => disk'[a] = disk[a] \/ proto[disk'[a]] = a[1]
      PROVE  EInv'
    <2> USE <1>OthersGrow
    <2>1. proto' = proto /\ expanded' = expanded /\ queue # <<>>
      BY HandlerConfirms, Zenon DEF HandlerStep
    <2>2. SizeTypes' /\ Wired'
      BY <2>1, Zenon DEF EInv, SizeTypes, Wired
    <2>3. \A c : c.op # "expand" => Grows(c)'
      BY Zenon DEF Grows
    <2>4. \/ ReturnError \/ ReturnOk
          \/ \E c \in CallType : /\ Continue(c) /\ Grows(c)'
                                 /\ c.op = H.op /\ c.vol = H.vol /\ c.pod = H.pod /\ c.size = H.size
      BY <2>3, Zenon DEF HandlerStep, Moved
    <2> QED
      BY <2>1, <2>2, <2>4, <1>HandlerGrows, Zenon

  \* A scan adds the disk of the volume published, at an address of its protocol.
  <1>ScanGrows.
      ASSUME IInv, UInv, EInv, ScanISCSI \/ ScanFC
      PROVE  EInv'
    <2> USE <1>ScanGrows
    <2>1. /\ queue # <<>> /\ H.op = "publish" /\ RescanDeviceMap /\ size' = size /\ map' = map
          /\ msize' = msize /\ fsize' = fsize
      BY Zenon DEF ScanISCSI, ScanFC, RescanDeviceMap, Step, At, array, files
    <2>2. HandlerStep
      BY ScanStep, Zenon
    <2>3. PICK o \in Outcome, a \in Address : a = <<proto[H.vol], H.lun>> /\ Scan(a, o)
      BY <2>1, Zenon DEF RescanDeviceMap
    <2>4. PICK v \in Volume : v = H.vol /\ H.lun = lun[v] /\ lun[v] # None
      BY <2>1, PublishFacts, NodeAssumption, Zenon
    <2>5. a[1] = proto[v] /\ a[2] = lun[v]
      BY <2>3, <2>4, Zenon
    <2>6. (CHOOSE x \in MappedAt(a[2]) : TRUE) = v
      <3>1. (CHOOSE x \in MappedAt(lun[v]) : TRUE) = v
        BY <2>4, Alone, Zenon
      <3> QED
        BY <2>5, <3>1, Zenon
    <2>7. \/ disk' = disk /\ dsize' = dsize
          \/ disk' = [disk EXCEPT ![a] = v] /\ dsize' = [dsize EXCEPT ![a] = size[v]]
      BY <2>3, <2>6, Zenon DEF Scan
    <2>8. dsize' \in [Address -> Nat]
      <3>1. size[v] \in Nat /\ dsize \in [Address -> Nat]
        BY Zenon DEF IInv, Types, EInv, SizeTypes
      <3> QED
        BY <2>7, <3>1, Zenon
    <2>9. \A x \in Address : disk'[x] # None => disk'[x] = disk[x] \/ proto[disk'[x]] = x[1]
      <3>1. DOMAIN disk = Address
        BY Zenon DEF IInv, Types
      <3> QED
        BY <2>5, <2>7, <3>1, Zenon
    <2> QED
      BY <2>1, <2>2, <2>8, <2>9, <1>OthersGrow, Zenon DEF EInv, SizeTypes

  \* A new file system, and the steps of unstage that remove a map or disks.
  <1>ShrinkGrows.
      ASSUME IInv, UInv, EInv, FormatAndMount \/ MultipathFlush \/ DetachMpathDevice \/ LogoutAllSessions
      PROVE  EInv'
    <2> USE <1>ShrinkGrows
    <2>0. dsize \in [Address -> Nat] /\ DOMAIN fsize = Volume /\ DOMAIN msize = Volume
      BY Zenon DEF EInv, SizeTypes
    <2>1. HandlerStep
      BY HandlerMoves, Zenon DEF Handler
    <2>2. H.op # "expand" /\ size' = size
      BY Zenon DEF FormatAndMount, MultipathFlush, DetachMpathDevice, LogoutAllSessions, Mount, At, array
    <2>3. DOMAIN fsize' = Volume /\ DOMAIN msize' = Volume
      <3>1. fsize' = fsize \/ \E v, n : fsize' = [fsize EXCEPT ![v] = n]
        BY Zenon DEF FormatAndMount, MultipathFlush, DetachMpathDevice, LogoutAllSessions, files
      <3>2. msize' = msize \/ \E v, n : msize' = [msize EXCEPT ![v] = n]
        BY Zenon DEF FormatAndMount, Mount, MultipathFlush, DetachMpathDevice, LogoutAllSessions, kernel
      <3> QED
        BY <2>0, <3>1, <3>2, Zenon
    <2>4. CASE FormatAndMount \/ MultipathFlush
      <3>1. disk' = disk /\ dsize' = dsize
        BY <2>4, Zenon DEF FormatAndMount, MultipathFlush, Mount, kernel
      <3> QED
        BY <2>0, <2>1, <2>2, <2>3, <3>1, <1>OthersGrow, Zenon
    <2>5. CASE DetachMpathDevice
      <3>1. PICK S : disk' = [x \in Address |-> IF x \in S THEN None ELSE disk[x]]
        BY <2>5, Zenon DEF DetachMpathDevice, DetachDiskByDeviceName
      <3>2. dsize' = [x \in Address |-> IF disk'[x] = None THEN 0 ELSE dsize[x]]
        BY <2>5, Zenon DEF DetachMpathDevice
      <3>3. dsize' \in [Address -> Nat]
        BY <2>0, <3>2, Zenon
      <3>4. \A x \in Address : disk'[x] # None => disk'[x] = disk[x]
        BY <3>1, Zenon
      <3> QED
        BY <2>1, <2>2, <2>3, <3>3, <3>4, <1>OthersGrow, Zenon
    <2>6. CASE LogoutAllSessions
      <3>1. \/ disk' = disk /\ dsize' = dsize
            \/ /\ disk' = [x \in Address |-> IF x[1] = "iscsi" THEN None ELSE disk[x]]
               /\ dsize' = [x \in Address |-> IF x[1] = "iscsi" THEN 0 ELSE dsize[x]]
        BY <2>6, Zenon DEF LogoutAllSessions
      <3>2. dsize' \in [Address -> Nat]
        BY <2>0, <3>1
      <3>3. \A x \in Address : disk'[x] # None => disk'[x] = disk[x]
        BY <3>1, Zenon
      <3> QED
        BY <2>1, <2>2, <2>3, <3>2, <3>3, <1>OthersGrow, Zenon
    <2> QED
      BY <2>4, <2>5, <2>6, Zenon

  \* A step of an expansion.
  <1>ExpandGoes.
      ASSUME IInv, UInv, EInv, queue # <<>>, H.op = "expand", NEW l, NEW d, Goes(l, d),
             UNCHANGED <<size, lun, mounted, disk, fsize>>, dsize' \in [Address -> Nat], DOMAIN msize' = Volume,
             d # None /\ d = mounted[H.pod],
             l = "resize" => H.size <= dsize'[Own(H.vol)],
             l = "grow" /\ proto[H.vol] # "nvme" /\ PathsOf(d) = {Own(H.vol)} => H.size <= msize'[d]
      PROVE  EInv'
    <2> USE <1>ExpandGoes
    <2>1. PICK c \in CallType :
            /\ Continue(c) /\ c.at = l /\ c.dev = d
            /\ c.op = H.op /\ c.vol = H.vol /\ c.pod = H.pod /\ c.live = H.live /\ c.size = H.size
      BY Zenon DEF Goes
    <2>2. proto' = proto /\ expanded' = expanded
      BY <2>1, Zenon DEF Continue, k8s
    <2>3. SizeTypes' /\ Wired'
      BY <2>2, Zenon DEF EInv, SizeTypes, Wired
    <2>4. Own(c.vol)' = Own(H.vol) /\ PathsOf(c.dev)' = PathsOf(d)
      BY <2>1, <2>2, Zenon DEF Own, PathsOf
    <2>5. Grows(c)'
      BY <2>1, <2>2, <2>4, Zenon DEF Grows
    <2> QED
      BY <2>1, <2>3, <2>5, <1>HandlerGrows, Zenon

  \* An expansion that ends.
  <1>ExpandEnds.
      ASSUME IInv, UInv, EInv, queue # <<>>, H.op = "expand", ReturnError \/ ReturnOk, size' = size,
             disk' = disk, dsize' \in [Address -> Nat], DOMAIN msize' = Volume, DOMAIN fsize' = Volume
      PROVE  EInv'
    <2> USE <1>ExpandEnds
    <2>1. H.vol \in Volume /\ H.size \in Nat /\ expanded \in [Volume -> Nat]
      BY ExpandFacts, Zenon DEF EInv, SizeTypes
    <2>2. proto' = proto /\ (expanded' = expanded \/ expanded' = [expanded EXCEPT ![H.vol] = H.size])
      BY Zenon DEF ReturnError, ReturnOk, k8s
    <2>3. expanded' \in [Volume -> Nat]
      BY <2>1, <2>2, Zenon
    <2>4. SizeTypes' /\ Wired'
      BY <2>2, <2>3, Zenon DEF EInv, SizeTypes, Wired
    <2> QED
      BY <2>4, <1>HandlerGrows, Zenon

  \* The device is looked up in the mounts (FindMultipathDevice).
  <1>FindGrows.
      ASSUME IInv, UInv, EInv, ExpandISCSI \/ ExpandFC \/ ExpandNVME
      PROVE  EInv'
    <2> USE <1>FindGrows
    <2>1. /\ queue # <<>> /\ H.op = "expand" /\ size' = size /\ lun' = lun /\ mounted' = mounted /\ disk' = disk
          /\ dsize' = dsize /\ msize' = msize /\ fsize' = fsize
      BY Zenon DEF ExpandISCSI, ExpandFC, ExpandNVME, FindMultipathDevice, Step, At, array, kernel, files
    <2>2. dsize' \in [Address -> Nat] /\ DOMAIN msize' = Volume /\ DOMAIN fsize' = Volume
      BY <2>1, Zenon DEF EInv, SizeTypes
    <2>3. \/ ReturnError \/ ReturnOk
          \/ /\ mounted[H.pod] # None
             /\ \/ Continue([H EXCEPT !.at = "rescan", !.dev = mounted[H.pod]])
                \/ Continue([H EXCEPT !.at = "grow", !.dev = mounted[H.pod]]) /\ proto[H.vol] = "nvme"
      BY Zenon DEF ExpandISCSI, ExpandFC, ExpandNVME, FindMultipathDevice, Then, Step
    <2>4. CASE ReturnError \/ ReturnOk
      BY <2>1, <2>2, <2>4, <1>ExpandEnds, Zenon
    <2>5. CASE /\ mounted[H.pod] # None
               /\ \/ Continue([H EXCEPT !.at = "rescan", !.dev = mounted[H.pod]])
                  \/ Continue([H EXCEPT !.at = "grow", !.dev = mounted[H.pod]]) /\ proto[H.vol] = "nvme"
      <3>1. mounted[H.pod] \in Volume \cup {None} /\ "rescan" \in Label /\ "grow" \in Label
        BY <2>1, <2>5, ExpandFacts, Zenon DEF Label
      <3>2. Goes("rescan", mounted[H.pod]) \/ (Goes("grow", mounted[H.pod]) /\ proto[H.vol] = "nvme")
        BY <2>1, <2>5, <3>1, DeviceGoes, Zenon
      <3>3. ASSUME Goes("rescan", mounted[H.pod])
            PROVE  EInv'
        BY <2>1, <2>2, <2>5, <3>3, <1>ExpandGoes, Zenon
      <3>4. ASSUME Goes("grow", mounted[H.pod]), proto[H.vol] = "nvme"
            PROVE  EInv'
        BY <2>1, <2>2, <2>5, <3>4, <1>ExpandGoes, Zenon
      <3> QED
        BY <3>2, <3>3, <3>4, Zenon
    <2> QED
      BY <2>3, <2>4, <2>5, Zenon

  \* The size the array has for what is at the LUN is read by the rescan.
  <1>RescanGrows.
      ASSUME IInv, UInv, EInv, RescanISCSI \/ RescanFC
      PROVE  EInv'
    <2> USE <1>RescanGrows
    <2>1. /\ queue # <<>> /\ H.op = "expand" /\ H.at = "rescan" /\ proto[H.vol] # "nvme" /\ RescanPaths
          /\ size' = size /\ lun' = lun /\ mounted' = mounted /\ disk' = disk /\ msize' = msize /\ fsize' = fsize
      BY Zenon DEF RescanISCSI, RescanFC, RescanPaths, Step, At, array, files
    <2>2. /\ H \in CallType /\ H.vol \in Volume /\ H.dev # None /\ H.dev = mounted[H.pod] /\ H.dev \in Volume
          /\ H.size \in Nat /\ H.size <= size[H.vol]
          /\ lun[H.vol] # None /\ Own(H.vol) \in Address /\ disk[Own(H.vol)] = H.dev
      <3>1. Grows(H) /\ H \in CallType /\ H.vol \in Volume /\ H.size \in Nat /\ H.size <= size[H.vol]
        BY <2>1, ExpandFacts, Zenon
      <3>2. H.dev # None /\ H.dev = mounted[H.pod]
        BY <2>1, <3>1, Zenon DEF Grows
      <3> QED
        BY <2>1, <3>1, <3>2, ExpandFacts, Zenon
    <2> DEFINE read(a) == IF disk[a] = H.dev /\ MappedAt(a[2]) # {}
                          THEN size[CHOOSE v \in MappedAt(a[2]) : TRUE] ELSE dsize[a]
    <2>3. PICK o \in Outcome : /\ dsize' = IF Done(o) THEN [a \in Address |-> read(a)] ELSE dsize
                               /\ Then(o, Goto("resize"))
      BY <2>1, Zenon DEF RescanPaths
    <2>4. \A a \in Address : read(a) \in Nat
      <3>1. \A a \in Address : MappedAt(a[2]) # {} => (CHOOSE v \in MappedAt(a[2]) : TRUE) \in Volume
        BY Zenon DEF MappedAt
      <3>2. size \in [Volume -> Nat] /\ dsize \in [Address -> Nat]
        BY Zenon DEF IInv, Types, EInv, SizeTypes
      <3> QED
        BY <3>1, <3>2, Zenon
    <2>5. read(Own(H.vol)) = size[H.vol]
      <3>1. Own(H.vol)[2] = lun[H.vol]
        BY Zenon DEF Own
      <3>2. MappedAt(lun[H.vol]) = {H.vol} /\ (CHOOSE x \in MappedAt(lun[H.vol]) : TRUE) = H.vol
        BY <2>2, Alone, Zenon
      <3> QED
        BY <2>2, <3>1, <3>2, Zenon
    <2> HIDE DEF read
    <2>6. dsize' \in [Address -> Nat]
      BY <2>3, <2>4, Zenon DEF EInv, SizeTypes
    <2>7. DOMAIN msize' = Volume /\ DOMAIN fsize' = Volume
      BY <2>1, Zenon DEF EInv, SizeTypes
    <2>8. CASE ~Ok(o)
      BY <2>1, <2>3, <2>6, <2>7, <2>8, <1>ExpandEnds, Zenon DEF Then
    <2>9. CASE Ok(o)
      <3>1. Goes("resize", H.dev)
        <4>1. Goto("resize") /\ "resize" \in Label
          BY <2>3, <2>9, Zenon DEF Then, Label
        <4> QED
          BY <2>1, <4>1, GotoGoes, Zenon
      <3>2. dsize'[Own(H.vol)] = size[H.vol]
        <4>1. Done(o)
          BY <2>9, Zenon DEF Ok, Done
        <4>2. dsize' = [a \in Address |-> read(a)]
          BY <2>3, <4>1, Zenon
        <4> QED
          BY <2>2, <2>5, <4>2, Zenon
      <3> QED
        BY <2>1, <2>2, <2>6, <2>7, <3>1, <3>2, <1>ExpandGoes, Zenon
    <2> QED
      BY <2>8, <2>9, Zenon

  \* The map gets the size of its disk (ResizeMap); a raw device needs no more.
  <1>ResizeGrows.
      ASSUME IInv, UInv, EInv, ResizeISCSI \/ ResizeFC
      PROVE  EInv'
    <2> USE <1>ResizeGrows
    <2>1. /\ queue # <<>> /\ H.op = "expand" /\ H.at = "resize" /\ proto[H.vol] # "nvme" /\ ResizeMap
          /\ size' = size /\ lun' = lun /\ mounted' = mounted /\ disk' = disk /\ dsize' = dsize /\ fsize' = fsize
      BY Zenon DEF ResizeISCSI, ResizeFC, ResizeMap, Step, At, array, files
    <2>2. /\ H.dev # None /\ H.dev = mounted[H.pod] /\ H.dev \in Volume /\ H.size <= dsize[Own(H.vol)]
          /\ Own(H.vol) \in Address
      <3>1. Grows(H)
        BY <2>1, ExpandFacts, Zenon
      <3>2. H.dev # None /\ H.dev = mounted[H.pod] /\ H.size <= dsize[Own(H.vol)]
        BY <2>1, <3>1, Zenon DEF Grows
      <3> QED
        BY <2>1, <3>2, ExpandFacts, Zenon
    <2>3. PICK o \in Outcome :
            /\ msize' = IF Done(o) /\ PathsOf(H.dev) # {}
                        THEN [msize EXCEPT ![H.dev] = Least({dsize[a] : a \in PathsOf(H.dev)})]
                        ELSE msize
            /\ Then(o, IF H.vol \in Block THEN ReturnOk ELSE Goto("grow"))
      BY <2>1, Zenon DEF ResizeMap
    <2>4. dsize' \in [Address -> Nat] /\ DOMAIN msize' = Volume /\ DOMAIN fsize' = Volume
      <3>1. dsize \in [Address -> Nat] /\ DOMAIN msize = Volume /\ DOMAIN fsize = Volume
        BY Zenon DEF EInv, SizeTypes
      <3>2. msize' = msize \/ \E n : msize' = [msize EXCEPT ![H.dev] = n]
        BY <2>3, Zenon
      <3> QED
        BY <2>1, <3>1, <3>2, Zenon
    <2>5. CASE ReturnError \/ ReturnOk
      BY <2>1, <2>4, <2>5, <1>ExpandEnds, Zenon
    <2>6. CASE Ok(o) /\ Goto("grow")
      <3>1. Goes("grow", H.dev)
        <4>1. "grow" \in Label
          BY Zenon DEF Label
        <4> QED
          BY <2>1, <2>6, <4>1, GotoGoes, Zenon
      <3>2. ASSUME PathsOf(H.dev) = {Own(H.vol)}
            PROVE  H.size <= msize'[H.dev]
        <4>1. {dsize[a] : a \in PathsOf(H.dev)} = {dsize[Own(H.vol)]} /\ dsize[Own(H.vol)] \in Nat
          BY <2>2, <3>2, Zenon DEF EInv, SizeTypes
        <4>2. Least({dsize[a] : a \in PathsOf(H.dev)}) = dsize[Own(H.vol)]
          BY <4>1, LeastOne, Zenon
        <4>3. msize' = [msize EXCEPT ![H.dev] = Least({dsize[a] : a \in PathsOf(H.dev)})]
          BY <2>3, <2>6, <3>2, Zenon DEF Ok, Done
        <4>4. msize' = [msize EXCEPT ![H.dev] = dsize[Own(H.vol)]] /\ DOMAIN msize = Volume
          BY <4>2, <4>3, Zenon DEF EInv, SizeTypes
        <4> QED
          BY <2>2, <4>4, Zenon
      <3> QED
        BY <2>1, <2>2, <2>4, <3>1, <3>2, <1>ExpandGoes, Zenon
    <2> QED
      BY <2>3, <2>5, <2>6, Zenon DEF Then

  \* The file system gets the size of the device, and the expansion ends.
  <1>FileSystemGrows.
      ASSUME IInv, UInv, EInv, ExpandFileSystem
      PROVE  EInv'
    <2> USE <1>FileSystemGrows
    <2>1. /\ queue # <<>> /\ H.op = "expand" /\ size' = size /\ disk' = disk /\ dsize' = dsize /\ msize' = msize
          /\ (ReturnError \/ ReturnOk) /\ (fsize' = fsize \/ \E n : fsize' = [fsize EXCEPT ![H.dev] = n])
      BY Zenon DEF ExpandFileSystem, Then, At, array, kernel
    <2>2. DOMAIN fsize = Volume /\ dsize \in [Address -> Nat] /\ DOMAIN msize = Volume
      BY Zenon DEF EInv, SizeTypes
    <2>3. DOMAIN fsize' = Volume /\ dsize' \in [Address -> Nat] /\ DOMAIN msize' = Volume
      BY <2>1, <2>2, Zenon
    <2> QED
      BY <2>1, <2>3, <1>ExpandEnds, Zenon

  <1> SUFFICES ASSUME IInv, UInv, EInv, [Next]_vars
               PROVE  EInv'
    BY Zenon
  <1>1. CASE Handler
    <2>1. CASE QuietHandler
      <3>1. HandlerStep
        BY <1>1, HandlerMoves, Zenon
      <3>2. /\ H.op # "expand" /\ size' = size
            /\ disk' = disk /\ dsize' = dsize /\ map' = map /\ msize' = msize /\ fsize' = fsize
        BY <2>1, QuietSizes, Zenon
      <3>3. dsize' \in [Address -> Nat] /\ DOMAIN fsize' = Volume /\ DOMAIN msize' = Volume
        BY <3>2, Zenon DEF EInv, SizeTypes
      <3> QED
        BY <3>1, <3>2, <3>3, <1>OthersGrow, Zenon
    <2> QED
      BY Zenon, <1>1, <2>1, <1>ScanGrows, <1>ShrinkGrows, <1>FindGrows, <1>RescanGrows, <1>ResizeGrows, <1>FileSystemGrows
         DEF Handler, QuietHandler
  <1>2. CASE Next /\ ~Handler
    BY Zenon, <1>2, <1>OtherGrows, <1>CallGrows, <1>GiveUpGrows DEF Next
  <1>3. CASE UNCHANGED vars
    BY <1>3, <1>OtherGrows, Zenon
  <1> QED
    BY <1>1, <1>2, <1>3, Zenon
-----------------------------------------------------------------------------
(* Without failures a file system, its map, the disk and the volume on the *)
(* array never have less than the one before.                              *)

Sized(v) ==
    /\ fsize[v] \in Nat /\ fsize[v] <= size[v]
    /\ \A x \in PathsOf(v) : fsize[v] <= dsize[x] /\ dsize[x] <= size[v]
    /\ v \in map /\ proto[v] # "nvme" =>
         msize[v] \in Nat /\ fsize[v] <= msize[v] /\ \A x \in PathsOf(v) : msize[v] <= dsize[x]

SizedInv == faults = 0 => \A v \in Volume : Sized(v)

\* Every step that is charged no fault keeps the sizes in order, and makes no
\* file system smaller.
LEMMA NextSized ==
    ASSUME IInv, UInv, EInv, FInv, SizedInv, [Next]_vars, faults' = 0
    PROVE  \A w \in Volume : Sized(w)' /\ fsize[w] <= fsize'[w]
  \* A volume that loses disks or its map, or grows on the array, stays sized.
  <1>SizedStays.
      ASSUME IInv, EInv, NEW w \in Volume, proto' = proto, fsize'[w] = fsize[w],
             size'[w] \in Nat, size[w] <= size'[w],
             \A x \in Address : disk'[x] = w => disk[x] = w /\ dsize'[x] = dsize[x],
             w \in map' => w \in map /\ msize'[w] = msize[w], Sized(w)
      PROVE  Sized(w)'
    <2> USE <1>SizedStays
    <2>1. size[w] \in Nat /\ \A x \in Address : dsize[x] \in Nat
      BY Zenon DEF IInv, Types, EInv, SizeTypes
    <2>2. \A x \in PathsOf(w)' : x \in PathsOf(w) /\ dsize'[x] = dsize[x] /\ dsize[x] \in Nat
      BY <2>1, Zenon DEF PathsOf
    <2>3. /\ fsize[w] \in Nat /\ fsize[w] <= size[w]
          /\ \A x \in PathsOf(w) : fsize[w] <= dsize[x] /\ dsize[x] <= size[w]
          /\ w \in map /\ proto[w] # "nvme" =>
               msize[w] \in Nat /\ fsize[w] <= msize[w] /\ \A x \in PathsOf(w) : msize[w] <= dsize[x]
      BY Zenon DEF Sized
    <2>4. fsize'[w] \in Nat /\ fsize'[w] <= size'[w]
      BY <2>1, <2>3
    <2>5. \A x \in PathsOf(w)' : fsize'[w] <= dsize'[x] /\ dsize'[x] <= size'[w]
      BY <2>1, <2>2, <2>3
    <2>6. w \in map' /\ proto'[w] # "nvme" =>
            msize'[w] \in Nat /\ fsize'[w] <= msize'[w] /\ \A x \in PathsOf(w)' : msize'[w] <= dsize'[x]
      BY <2>2, <2>3, Zenon
    <2> QED
      BY <2>4, <2>5, <2>6, Zenon DEF Sized

  \* Steps that leave the disks alone.
  <1>OtherSized.
      ASSUME IInv, EInv, \A w \in Volume : Sized(w),
             \/ \E v \in Volume : Attach(v) \/ Detach(v) \/ CallStage(v) \/ CallUnstage(v) \/ Grow(v)
             \/ \E p \in Pod : CallPublish(p) \/ DeletePod(p) \/ CallUnpublish(p) \/ CallExpand(p)
             \/ UNCHANGED vars
      PROVE  \A w \in Volume : Sized(w)' /\ fsize'[w] = fsize[w]
    <2> USE <1>OtherSized
    <2>1. /\ proto' = proto /\ disk' = disk /\ dsize' = dsize /\ map' = map /\ msize' = msize /\ fsize' = fsize
          /\ size' = size \/ \E v \in Volume : size' = [size EXCEPT ![v] = @ + 1]
      BY Zenon DEF Attach, Detach, CallStage, CallUnstage, Grow, CallPublish, DeletePod, CallUnpublish, CallExpand,
         Send, vars, array, k8s, kernel, files
    <2>2. \A w \in Volume : size[w] \in Nat /\ size'[w] \in Nat /\ size[w] <= size'[w]
      <3>1. size \in [Volume -> Nat]
        BY Zenon DEF IInv, Types
      <3>2. size' = size \/ \E v \in Volume : size' = [size EXCEPT ![v] = @ + 1]
        BY <2>1, Zenon
      <3> QED
        BY <3>1, <3>2
    <2> QED
      BY <2>1, <2>2, <1>SizedStays, Zenon

  \* The steps of a handler that only take things away, or change nothing here.
  <1>LessSized.
      ASSUME IInv, EInv, \A w \in Volume : Sized(w),
             QuietHandler \/ MultipathFlush \/ DetachMpathDevice \/ LogoutAllSessions
                          \/ ExpandISCSI \/ ExpandFC \/ ExpandNVME
      PROVE  \A w \in Volume : Sized(w)' /\ fsize'[w] = fsize[w]
    <2> USE <1>LessSized
    <2>1. proto' = proto
      <3>1. Handler
        BY Zenon DEF Handler, QuietHandler
      <3> QED
        BY <3>1, HandlerMoves, HandlerConfirms, Zenon
    <2>2. fsize' = fsize /\ size' = size
      <3>1. CASE QuietHandler
        BY <3>1, QuietSizes, Zenon
      <3>2. CASE MultipathFlush \/ DetachMpathDevice \/ LogoutAllSessions
        BY <3>2, Zenon DEF MultipathFlush, DetachMpathDevice, LogoutAllSessions, array, files
      <3>3. CASE ExpandISCSI \/ ExpandFC \/ ExpandNVME
        BY <3>3, Zenon DEF ExpandISCSI, ExpandFC, ExpandNVME, FindMultipathDevice, array, files
      <3> QED
        BY <3>1, <3>2, <3>3, Zenon
    <2>3. ASSUME NEW w \in Volume
          PROVE  /\ \A x \in Address : disk'[x] = w => disk[x] = w /\ dsize'[x] = dsize[x]
                 /\ w \in map' => w \in map /\ msize'[w] = msize[w]
      <3>0. w # None
        BY NodeAssumption, Zenon
      <3>1. CASE disk' = disk /\ dsize' = dsize /\ map' = map /\ msize' = msize
        BY <3>1, Zenon
      <3>2. CASE MultipathFlush
        <4>1. /\ disk' = disk /\ dsize' = dsize
              /\ \/ map' = map /\ msize' = msize
                 \/ map' = map \ {H.dev} /\ msize' = [msize EXCEPT ![H.dev] = 0]
          BY <3>2, Zenon DEF MultipathFlush
        <4>2. DOMAIN msize = Volume
          BY Zenon DEF EInv, SizeTypes
        <4> QED
          BY <4>1, <4>2, Zenon
      <3>3. CASE DetachMpathDevice
        <4>1. PICK S : disk' = [x \in Address |-> IF x \in S THEN None ELSE disk[x]]
          BY <3>3, Zenon DEF DetachMpathDevice, DetachDiskByDeviceName
        <4>2. /\ dsize' = [x \in Address |-> IF disk'[x] = None THEN 0 ELSE dsize[x]]
              /\ msize' = msize /\ map' \subseteq map
          BY <3>3, Zenon DEF DetachMpathDevice, RemoveMultipathDevices
        <4>3. \A x \in Address : disk'[x] = w => disk[x] = w
          BY <3>0, <4>1, Zenon
        <4>4. \A x \in Address : disk'[x] = w => dsize'[x] = dsize[x]
          BY <3>0, <4>2, Zenon
        <4> QED
          BY <4>2, <4>3, <4>4, Zenon
      <3>4. CASE LogoutAllSessions
        <4>1. /\ map' = map /\ msize' = msize
              /\ \/ disk' = disk /\ dsize' = dsize
                 \/ /\ disk' = [x \in Address |-> IF x[1] = "iscsi" THEN None ELSE disk[x]]
                    /\ dsize' = [x \in Address |-> IF x[1] = "iscsi" THEN 0 ELSE dsize[x]]
          BY <3>4, Zenon DEF LogoutAllSessions
        <4>2. \A x \in Address : disk'[x] = w => disk[x] = w /\ dsize'[x] = dsize[x]
          BY <3>0, <4>1, Zenon
        <4> QED
          BY <4>1, <4>2, Zenon
      <3>5. CASE QuietHandler
        BY <3>1, <3>5, QuietSizes, Zenon
      <3>6. CASE ExpandISCSI \/ ExpandFC \/ ExpandNVME
        BY <3>1, <3>6, Zenon DEF ExpandISCSI, ExpandFC, ExpandNVME, FindMultipathDevice, kernel
      <3> QED
        BY <3>2, <3>3, <3>4, <3>5, <3>6, Zenon
    <2>4. ASSUME NEW w \in Volume
          PROVE  Sized(w)'
      <3>1. size[w] \in Nat /\ size[w] <= size[w]
        BY DEF IInv, Types
      <3> QED
        BY <2>1, <2>2, <2>3, <3>1, <1>SizedStays, Zenon
    <2> QED
      BY <2>2, <2>4, Zenon

  \* A step that changes the sizes of one volume.
  <1>OneSized.
      ASSUME IInv, EInv, \A w \in Volume : Sized(w), NEW v \in Volume, proto' = proto, size' = size,
             \A w \in Volume : w # v =>
                 /\ fsize'[w] = fsize[w] /\ (w \in map' => w \in map /\ msize'[w] = msize[w])
                 /\ \A x \in Address : disk'[x] = w => disk[x] = w /\ dsize'[x] = dsize[x],
             Sized(v)'
      PROVE  \A w \in Volume : Sized(w)'
    <2> USE <1>OneSized
    <2> SUFFICES ASSUME NEW w \in Volume, w # v
                 PROVE  Sized(w)'
      BY Zenon
    <2>1. size[w] \in Nat /\ size[w] <= size[w]
      BY DEF IInv, Types
    <2> QED
      BY <2>1, <1>SizedStays, Zenon

  \* The volume a call works on has its own disk and its own map.
  <1>OwnPath.
      ASSUME IInv, UInv, Clean, NEW v \in Volume, stage[v] = "staged", NEW d, Serves(v, d)
      PROVE  /\ d = v
             /\ proto[v] = "nvme" => PathsOf(v) = {}
             /\ proto[v] # "nvme" => v \in map /\ Own(v) \in Address /\ PathsOf(v) = {Own(v)}
    <2> USE <1>OwnPath
    <2>1. d = v /\ Tidy(v)
      BY OwnServed, Zenon DEF Clean
    <2>2. proto[v] = "nvme" => PathsOf(v) = {}
      BY <2>1, NoPaths, Zenon
    <2>3. ASSUME proto[v] # "nvme"
          PROVE  v \in map /\ Own(v) \in Address /\ PathsOf(v) = {Own(v)}
      <3>1. v \in map /\ disk[Own(v)] = v
        BY <2>1, <2>3, Zenon DEF Serves, Found, Own
      <3>2. lun[v] \in Lun /\ proto[v] \in Protocol
        BY Zenon DEF IInv, Types, UInv, Luns, NodeTypes
      <3>3. Own(v) \in Address
        BY <2>3, <3>2, Zenon DEF Own, Address, Transport, Protocol
      <3>4. Own(v) \in PathsOf(v)
        BY <3>1, <3>3, Zenon DEF PathsOf
      <3> QED
        BY <2>1, <3>1, <3>3, <3>4, Zenon DEF Tidy
    <2> QED
      BY <2>1, <2>2, <2>3, Zenon

  \* multipathd makes a map of the disk of a volume.
  <1>AddMapSized.
      ASSUME IInv, UInv, EInv, Clean, \A w \in Volume : Sized(w), NEW v \in Volume, AddMap(v)
      PROVE  \A w \in Volume : Sized(w)' /\ fsize'[w] = fsize[w]
    <2> USE <1>AddMapSized
    <2>1. /\ PathsOf(v) # {} /\ map' = map \cup {v}
          /\ msize' = [msize EXCEPT ![v] = Least({dsize[a] : a \in PathsOf(v)})]
          /\ proto' = proto /\ size' = size /\ disk' = disk /\ dsize' = dsize /\ fsize' = fsize
      BY Zenon DEF AddMap, array, k8s, files
    <2>2. PathsOf(v) = {Own(v)} /\ Own(v) \in Address
      <3>1. PathsOf(v) \subseteq {Own(v)} /\ PathsOf(v) \subseteq Address
        BY Zenon DEF Clean, Tidy, PathsOf
      <3> QED
        BY <2>1, <3>1, Zenon
    <2>3. dsize[Own(v)] \in Nat /\ DOMAIN msize = Volume
      BY <2>2, Zenon DEF EInv, SizeTypes
    <2>4. Least({dsize[a] : a \in PathsOf(v)}) = dsize[Own(v)]
      <3>1. {dsize[a] : a \in PathsOf(v)} = {dsize[Own(v)]}
        BY <2>2, Zenon
      <3> QED
        BY <2>3, <3>1, LeastOne, Zenon
    <2>5. msize'[v] = dsize[Own(v)] /\ \A w \in Volume : w # v => msize'[w] = msize[w]
      BY <2>1, <2>3, <2>4, Zenon
    <2>6. Sized(v)'
      <3>1. PathsOf(v)' = {Own(v)}
        BY <2>1, <2>2, Zenon DEF PathsOf
      <3>2. /\ fsize[v] \in Nat /\ fsize[v] <= size[v]
            /\ fsize[v] <= dsize[Own(v)] /\ dsize[Own(v)] <= size[v]
        BY <2>2, Zenon DEF Sized
      <3>3. msize'[v] \in Nat /\ fsize'[v] <= msize'[v] /\ \A x \in PathsOf(v)' : msize'[v] <= dsize'[x]
        BY <2>1, <2>3, <2>5, <3>1, <3>2
      <3>4. \A x \in PathsOf(v)' : fsize'[v] <= dsize'[x] /\ dsize'[x] <= size'[v]
        BY <2>1, <3>1, <3>2, Zenon
      <3> QED
        BY <2>1, <3>2, <3>3, <3>4, Zenon DEF Sized
    <2>7. \A w \in Volume : w # v =>
             /\ fsize'[w] = fsize[w] /\ (w \in map' => w \in map /\ msize'[w] = msize[w])
             /\ \A x \in Address : disk'[x] = w => disk[x] = w /\ dsize'[x] = dsize[x]
      BY <2>1, <2>5, Zenon
    <2> QED
      BY <2>1, <2>6, <2>7, <1>OneSized, Zenon

  \* A scan finds the size the array has, and there is no map yet.
  <1>ScanSized.
      ASSUME IInv, UInv, EInv, Clean, \A w \in Volume : Sized(w), ScanISCSI \/ ScanFC
      PROVE  \A w \in Volume : Sized(w)' /\ fsize'[w] = fsize[w]
    <2> USE <1>ScanSized
    <2>1. /\ queue # <<>> /\ H.op = "publish" /\ RescanDeviceMap /\ size' = size /\ map' = map
          /\ msize' = msize /\ fsize' = fsize
      BY Zenon DEF ScanISCSI, ScanFC, RescanDeviceMap, Step, At, array, files
    <2>2. proto' = proto
      BY ScanStep, HandlerConfirms, Zenon
    <2>3. PICK o \in Outcome, a \in Address : a = <<proto[H.vol], H.lun>> /\ Scan(a, o)
      BY <2>1, Zenon DEF RescanDeviceMap
    <2>4. PICK v \in Volume : v = H.vol /\ H.lun = lun[v] /\ lun[v] # None
      BY <2>1, PublishFacts, NodeAssumption, Zenon
    <2>5. a = Own(v) /\ a[2] = lun[v]
      BY <2>3, <2>4, Zenon DEF Own
    <2>6. (CHOOSE x \in MappedAt(a[2]) : TRUE) = v
      <3>1. (CHOOSE x \in MappedAt(lun[v]) : TRUE) = v
        BY <2>4, Alone, Zenon
      <3> QED
        BY <2>5, <3>1, Zenon
    <2>7. \/ disk' = disk /\ dsize' = dsize
          \/ disk[a] = None /\ disk' = [disk EXCEPT ![a] = v] /\ dsize' = [dsize EXCEPT ![a] = size[v]]
      BY <2>3, <2>6, Zenon DEF Scan
    <2>8. DOMAIN disk = Address /\ DOMAIN dsize = Address /\ size[v] \in Nat
      BY Zenon DEF IInv, Types, EInv, SizeTypes
    <2>9. \A w \in Volume : w # v =>
             /\ fsize'[w] = fsize[w] /\ (w \in map' => w \in map /\ msize'[w] = msize[w])
             /\ \A x \in Address : disk'[x] = w => disk[x] = w /\ dsize'[x] = dsize[x]
      BY <2>1, <2>7, <2>8, Zenon
    <2>10. CASE disk' = disk /\ dsize' = dsize
      <3>1. Sized(v)'
        BY <2>1, <2>2, <2>8, <2>10, <1>SizedStays
      <3> QED
        BY <2>1, <2>2, <2>9, <3>1, <1>OneSized, Zenon
    <2>11. CASE disk[a] = None /\ disk' = [disk EXCEPT ![a] = v] /\ dsize' = [dsize EXCEPT ![a] = size[v]]
      <3>1. PathsOf(v) \subseteq {a} /\ (v \in map => PathsOf(v) # {})
        BY <2>5, Zenon DEF Clean, Tidy
      <3>2. PathsOf(v) = {} /\ v \notin map
        BY <2>11, <3>1, NodeAssumption, Zenon DEF PathsOf
      <3>3. PathsOf(v)' = {a}
        BY <2>8, <2>11, <3>2, Zenon DEF PathsOf
      <3>4. fsize[v] \in Nat /\ fsize[v] <= size[v] /\ dsize'[a] = size[v]
        BY <2>8, <2>11, Zenon DEF Sized
      <3>5. \A x \in PathsOf(v)' : fsize'[v] <= dsize'[x] /\ dsize'[x] <= size'[v]
        BY <2>1, <2>8, <3>3, <3>4
      <3>6. Sized(v)'
        BY <2>1, <3>2, <3>4, <3>5, Zenon DEF Sized
      <3> QED
        BY <2>1, <2>2, <2>9, <3>6, <1>OneSized, Zenon
    <2> QED
      BY <2>7, <2>10, <2>11, Zenon

  \* The device of a volume is not smaller than its file system.
  <1>DeviceSized.
      ASSUME IInv, UInv, EInv, Clean, NEW v \in Volume, stage[v] = "staged", Serves(v, v), Sized(v)
      PROVE  /\ DeviceSize(v) \in Nat /\ fsize[v] <= DeviceSize(v) /\ DeviceSize(v) <= size[v]
             /\ \A x \in PathsOf(v) : DeviceSize(v) <= dsize[x]
             /\ proto[v] # "nvme" => DeviceSize(v) = msize[v]
    <2> USE <1>DeviceSized
    <2>1. size[v] \in Nat
      BY Zenon DEF IInv, Types
    <2>2. CASE proto[v] = "nvme"
      <3>1. PathsOf(v) = {} /\ DeviceSize(v) = size[v] /\ fsize[v] <= size[v]
        BY <2>2, <1>OwnPath, Zenon DEF DeviceSize, Sized
      <3> QED
        BY <2>1, <2>2, <3>1
    <2>3. CASE proto[v] # "nvme"
      <3>1. v \in map /\ PathsOf(v) = {Own(v)} /\ Own(v) \in Address
        BY <2>3, <1>OwnPath, Zenon
      <3>2. DeviceSize(v) = msize[v] /\ dsize[Own(v)] \in Nat
        BY <2>3, <3>1, Zenon DEF DeviceSize, EInv, SizeTypes
      <3>3. /\ msize[v] \in Nat /\ fsize[v] <= msize[v] /\ msize[v] <= dsize[Own(v)] /\ dsize[Own(v)] <= size[v]
        BY <2>3, <3>1, Zenon DEF Sized
      <3> QED
        BY <2>1, <3>1, <3>2, <3>3
    <2> QED
      BY <2>2, <2>3, Zenon

  \* A file system that gets the size of its device.
  <1>FileSystemSized.
      ASSUME IInv, UInv, EInv, Clean, \A w \in Volume : Sized(w),
             NEW v \in Volume, stage[v] = "staged", NEW d, Serves(v, d),
             proto' = proto, size' = size, disk' = disk, dsize' = dsize, map' = map, msize' = msize,
             fsize' = fsize \/ fsize' = [fsize EXCEPT ![d] = DeviceSize(d)]
      PROVE  \A w \in Volume : Sized(w)' /\ fsize[w] <= fsize'[w]
    <2> USE <1>FileSystemSized
    <2>1. d = v
      BY <1>OwnPath, Zenon
    <2>2. /\ DeviceSize(v) \in Nat /\ fsize[v] <= DeviceSize(v) /\ DeviceSize(v) <= size[v]
          /\ \A x \in PathsOf(v) : DeviceSize(v) <= dsize[x]
          /\ proto[v] # "nvme" => DeviceSize(v) = msize[v]
      BY <2>1, <1>DeviceSized, Zenon
    <2>3. fsize[v] \in Nat /\ (\A x \in PathsOf(v) : fsize[v] <= dsize[x] /\ dsize[x] <= size[v])
          /\ (v \in map /\ proto[v] # "nvme" => fsize[v] <= msize[v] /\ \A x \in PathsOf(v) : msize[v] <= dsize[x])
      BY Zenon DEF Sized
    <2>4. /\ fsize'[v] \in {fsize[v], DeviceSize(v)}
          /\ \A w \in Volume : w # v => fsize'[w] = fsize[w]
      BY <2>1, Zenon DEF EInv, SizeTypes
    <2>5. PathsOf(v)' = PathsOf(v)
      BY Zenon DEF PathsOf
    <2>6. fsize'[v] \in Nat /\ fsize[v] <= fsize'[v] /\ fsize'[v] <= size[v]
          /\ \A x \in PathsOf(v) : fsize'[v] <= dsize[x]
      <3>1. fsize[v] <= fsize[v] /\ fsize[v] <= size[v]
        BY <2>3 DEF Sized
      <3> QED
        BY <2>2, <2>3, <2>4, <3>1, Zenon
    <2>7. v \in map /\ proto[v] # "nvme" =>
             msize[v] \in Nat /\ fsize'[v] <= msize[v] /\ \A x \in PathsOf(v) : msize[v] <= dsize[x]
      <3>1. msize[v] \in Nat => msize[v] <= msize[v]
        OBVIOUS
      <3> QED
        BY <2>2, <2>3, <2>4, <3>1, Zenon
    <2>8. Sized(v)'
      BY <2>3, <2>5, <2>6, <2>7, Zenon DEF Sized
    <2>9. \A w \in Volume : Sized(w)'
      BY <2>4, <2>8, <1>OneSized, Zenon
    <2>10. \A w \in Volume : fsize[w] \in Nat
      BY Zenon DEF Sized
    <2>11. \A w \in Volume : fsize[w] <= fsize'[w]
      BY <2>4, <2>6, <2>10
    <2> QED
      BY <2>9, <2>11, Zenon

  \* An empty device is formatted; an expansion gives the file system the size of
  \* the device.
  <1>FormatSized.
      ASSUME IInv, UInv, EInv, Clean, \A w \in Volume : Sized(w), FormatAndMount \/ ExpandFileSystem
      PROVE  \A w \in Volume : Sized(w)' /\ fsize[w] <= fsize'[w]
    <2> USE <1>FormatSized
    <2>1. /\ queue # <<>> /\ size' = size /\ disk' = disk /\ dsize' = dsize /\ map' = map /\ msize' = msize
          /\ fsize' = fsize \/ fsize' = [fsize EXCEPT ![H.dev] = DeviceSize(H.dev)]
          /\ \/ H.op = "publish" /\ H.at = "mount"
             \/ H.op = "expand" /\ H.at = "grow"
      BY Zenon DEF FormatAndMount, Mount, ExpandFileSystem, At, array, kernel
    <2>2. proto' = proto
      BY HandlerMoves, HandlerConfirms, Zenon DEF Handler
    <2>3. PICK v \in Volume : stage[v] = "staged" /\ Serves(v, H.dev)
      <3>1. CASE H.op = "publish" /\ H.at = "mount"
        BY <2>1, <3>1, PublishFacts, Zenon DEF Working
      <3>2. CASE H.op = "expand" /\ H.at = "grow"
        <4>1. Grows(H) /\ H.vol \in Volume
          BY <2>1, <3>2, ExpandFacts, Zenon
        <4>2. H.dev # None /\ H.dev = mounted[H.pod]
          BY <3>2, <4>1, Zenon DEF Grows
        <4> QED
          BY <2>1, <3>2, <4>1, <4>2, ExpandFacts, Zenon
      <3> QED
        BY <2>1, <3>1, <3>2, Zenon
    <2> QED
      BY <2>1, <2>2, <2>3, <1>FileSystemSized, Zenon

  \* A rescan reads the size the array has, a resize gives it to the map.
  <1>ResizeSized.
      ASSUME IInv, UInv, EInv, Clean, \A w \in Volume : Sized(w),
             RescanISCSI \/ RescanFC \/ ResizeISCSI \/ ResizeFC
      PROVE  \A w \in Volume : Sized(w)' /\ fsize'[w] = fsize[w]
    <2> USE <1>ResizeSized
    <2>1. /\ queue # <<>> /\ H.op = "expand" /\ H.at \in {"rescan", "resize"} /\ proto[H.vol] # "nvme"
          /\ RescanPaths \/ ResizeMap
          /\ size' = size /\ disk' = disk /\ map' = map /\ fsize' = fsize
      BY Zenon DEF RescanISCSI, RescanFC, RescanPaths, ResizeISCSI, ResizeFC, ResizeMap, Step, At, array, files
    <2>2. proto' = proto
      BY HandlerMoves, HandlerConfirms, Zenon DEF Handler
    <2>3. PICK v \in Volume : /\ proto[v] # "nvme" /\ stage[v] = "staged" /\ Serves(v, H.dev) /\ lun[v] # None
      <3>1. Grows(H) /\ H.vol \in Volume
        BY <2>1, ExpandFacts, Zenon
      <3>2. H.dev # None /\ H.dev = mounted[H.pod]
        BY <2>1, <3>1, Zenon DEF Grows
      <3> QED
        BY <2>1, <3>1, <3>2, ExpandFacts, Zenon
    <2>4. H.dev = v /\ v \in map /\ Own(v) \in Address /\ PathsOf(v) = {Own(v)}
      BY <2>3, <1>OwnPath, Zenon
    <2>5. /\ size[v] \in Nat /\ dsize[Own(v)] \in Nat /\ DOMAIN dsize = Address /\ DOMAIN msize = Volume
          /\ \A x \in Address : disk[x] = v <=> x = Own(v)
      BY <2>4, Zenon DEF IInv, Types, EInv, SizeTypes, PathsOf
    <2>6. /\ fsize[v] \in Nat /\ fsize[v] <= size[v] /\ msize[v] \in Nat /\ fsize[v] <= msize[v]
          /\ msize[v] <= dsize[Own(v)] /\ dsize[Own(v)] <= size[v]
      BY <2>3, <2>4, Zenon DEF Sized
    <2>7. \/ /\ dsize'[Own(v)] \in {dsize[Own(v)], size[v]} /\ msize' = msize
             /\ \A x \in Address : x # Own(v) => dsize'[x] = dsize[x]
          \/ /\ dsize' = dsize /\ msize'[v] \in {msize[v], dsize[Own(v)]}
             /\ \A w \in Volume : w # v => msize'[w] = msize[w]
      <3>1. CASE RescanPaths
        <4>1. msize' = msize /\ (dsize' = dsize \/ dsize' = [a \in Address |->
                                   IF disk[a] = H.dev /\ MappedAt(a[2]) # {}
                                   THEN size[CHOOSE u \in MappedAt(a[2]) : TRUE] ELSE dsize[a]])
          BY <3>1, Zenon DEF RescanPaths
        <4>2. Own(v)[2] = lun[v] /\ (CHOOSE u \in MappedAt(lun[v]) : TRUE) = v
          BY <2>3, Alone, Zenon DEF Own
        <4>3. dsize'[Own(v)] \in {dsize[Own(v)], size[v]}
          BY <2>4, <4>1, <4>2
        <4>4. \A x \in Address : x # Own(v) => dsize'[x] = dsize[x]
          BY <2>4, <2>5, <4>1, Zenon
        <4> QED
          BY <4>1, <4>3, <4>4, Zenon
      <3>2. CASE ResizeMap
        <4>1. /\ dsize' = dsize
              /\ msize' = msize \/ msize' = [msize EXCEPT ![H.dev] = Least({dsize[a] : a \in PathsOf(H.dev)})]
          BY <3>2, Zenon DEF ResizeMap
        <4>2. {dsize[a] : a \in PathsOf(H.dev)} = {dsize[Own(v)]}
          BY <2>4, Zenon
        <4>3. Least({dsize[a] : a \in PathsOf(H.dev)}) = dsize[Own(v)]
          BY <2>5, <4>2, LeastOne, Zenon
        <4>4. msize' = msize \/ msize' = [msize EXCEPT ![v] = dsize[Own(v)]]
          BY <2>4, <4>1, <4>3, Zenon
        <4>5. msize'[v] \in {msize[v], dsize[Own(v)]} /\ \A w \in Volume : w # v => msize'[w] = msize[w]
          BY <2>5, <4>4, Zenon
        <4> QED
          BY <4>1, <4>5, Zenon
      <3> QED
        BY <2>1, <3>1, <3>2, Zenon
    <2>8. /\ msize'[v] \in Nat /\ fsize[v] <= msize'[v] /\ msize'[v] <= dsize'[Own(v)]
          /\ dsize'[Own(v)] \in Nat /\ dsize'[Own(v)] <= size[v] /\ fsize[v] <= dsize'[Own(v)]
      BY <2>5, <2>6, <2>7
    <2>9. PathsOf(v)' = {Own(v)}
      BY <2>1, <2>4, Zenon DEF PathsOf
    <2>10. Sized(v)'
      <3>1. \A x \in PathsOf(v)' : fsize'[v] <= dsize'[x] /\ dsize'[x] <= size'[v] /\ msize'[v] <= dsize'[x]
        BY <2>1, <2>8, <2>9, Zenon
      <3> QED
        BY <2>1, <2>6, <2>8, <3>1, Zenon DEF Sized
    <2>11. \A w \in Volume : w # v =>
             /\ fsize'[w] = fsize[w] /\ (w \in map' => w \in map /\ msize'[w] = msize[w])
             /\ \A x \in Address : disk'[x] = w => disk[x] = w /\ dsize'[x] = dsize[x]
      <3>1. \A w \in Volume : w # v => msize'[w] = msize[w]
        BY <2>7, Zenon
      <3>2. \A w \in Volume : w # v => \A x \in Address : disk[x] = w => dsize'[x] = dsize[x]
        BY <2>5, <2>7, Zenon
      <3> QED
        BY <2>1, <3>1, <3>2, Zenon
    <2> QED
      BY <2>1, <2>2, <2>10, <2>11, <1>OneSized, Zenon

  <1>1. faults = 0 /\ Clean /\ \A w \in Volume : Sized(w)
    BY FaultsGrow, Zenon DEF FInv, SizedInv
  <1>2. \A w \in Volume : fsize'[w] = fsize[w] => fsize[w] <= fsize'[w]
    <2>1. \A w \in Volume : fsize[w] \in Nat
      BY <1>1, Zenon DEF Sized
    <2> QED
      BY <2>1
  <1>3. CASE Handler
    BY Zenon, <1>1, <1>2, <1>3, <1>LessSized, <1>ScanSized, <1>FormatSized, <1>ResizeSized DEF Handler, QuietHandler
  <1>4. CASE (\E i \in DOMAIN queue : GiveUp(i)) \/ Crash
    BY <1>1, <1>4, NoFault, Zenon DEF GiveUp, Crash
  <1>5. CASE \E v \in Volume : AddMap(v)
    BY <1>1, <1>2, <1>5, <1>AddMapSized, Zenon
  <1>6. CASE \/ \E v \in Volume : Attach(v) \/ Detach(v) \/ CallStage(v) \/ CallUnstage(v) \/ Grow(v)
             \/ \E p \in Pod : CallPublish(p) \/ DeletePod(p) \/ CallUnpublish(p) \/ CallExpand(p)
             \/ UNCHANGED vars
    BY <1>1, <1>2, <1>6, <1>OtherSized, Zenon
  <1> QED
    BY <1>3, <1>4, <1>5, <1>6, Zenon DEF Next

\* An expansion that is confirmed has a file system of the size.
LEMMA NextConfirms ==
    ASSUME IInv, UInv, EInv, [Next]_vars, NothingStale, NEW v \in Volume \ Block, expanded'[v] > expanded[v]
    PROVE  fsize'[v] >= expanded'[v]
  <1>1. expanded \in [Volume -> Nat] /\ ~(expanded[v] > expanded[v])
    BY DEF EInv, SizeTypes
  <1>2. Handler
    BY <1>1, Zenon DEF Next, Attach, Detach, CallStage, CallUnstage, Grow, AddMap, CallPublish, DeletePod,
       CallUnpublish, CallExpand, Send, GiveUp, Crash, vars, k8s
  <1>3. HandlerStep /\ queue # <<>>
    BY <1>2, HandlerMoves, Zenon DEF HandlerStep
  <1>4. ReturnOk /\ H.op = "expand" /\ expanded' = [expanded EXCEPT ![H.vol] = H.size]
    BY <1>1, <1>3, HandlerConfirms, Zenon
  <1>5. v = H.vol /\ expanded'[v] = H.size
    BY <1>1, <1>4, Zenon
  <1>6. H.at = "grow" /\ fsize' = [fsize EXCEPT ![H.dev] = DeviceSize(H.dev)]
    <2>1. \/ ExpandISCSI \/ ExpandFC \/ ExpandNVME \/ RescanISCSI \/ RescanFC
          \/ ResizeISCSI \/ ResizeFC \/ ExpandFileSystem
      <3>1. ~QuietHandler
        BY <1>4, QuietSizes, Zenon
      <3>2. ~(ScanISCSI \/ ScanFC \/ FormatAndMount \/ MultipathFlush \/ DetachMpathDevice \/ LogoutAllSessions)
        BY <1>4, Zenon DEF ScanISCSI, ScanFC, FormatAndMount, MultipathFlush, DetachMpathDevice,
           LogoutAllSessions, Step, At
      <3> QED
        BY <1>2, <3>1, <3>2, Zenon DEF Handler, QuietHandler
    <2>2. ~ReturnError /\ \A c : ~Continue(c)
      <3>1. expanded' # expanded
        BY <1>1, Zenon
      <3> QED
        BY <3>1, Zenon DEF ReturnError, Continue, k8s
    <2>3. ~(ExpandISCSI \/ ExpandFC \/ RescanISCSI \/ RescanFC)
      BY <2>2, Zenon DEF ExpandISCSI, ExpandFC, FindMultipathDevice, RescanISCSI, RescanFC, RescanPaths, Then, Goto
    <2>4. ~(ExpandNVME \/ ResizeISCSI \/ ResizeFC)
      BY <1>5, <2>2, Zenon DEF ExpandNVME, FindMultipathDevice, ResizeISCSI, ResizeFC, ResizeMap, Then, Goto
    <2>5. ExpandFileSystem
      BY <2>1, <2>3, <2>4, Zenon
    <2>6. \A o : Ok(o) => Done(o)
      BY Zenon DEF Ok, Done
    <2> QED
      BY <2>2, <2>5, <2>6, Zenon DEF ExpandFileSystem, At, Then
  <1>7. H.size <= size[v] /\ H.size \in Nat /\ size[v] \in Nat /\ DOMAIN fsize = Volume
    BY <1>3, <1>4, <1>5, ExpandFacts, Zenon DEF EInv, SizeTypes
  <1>8. Grows(H)
    BY <1>3, <1>4, ExpandFacts, Zenon
  <1>9. H.dev # None /\ H.dev = mounted[H.pod]
    BY <1>4, <1>6, <1>8, Zenon DEF Grows
  <1>10. /\ H.dev \in Volume /\ Serves(v, H.dev) /\ lun[v] # None
         /\ proto[v] # "nvme" => Own(v) \in Address /\ disk[Own(v)] = H.dev
    BY <1>3, <1>4, <1>5, <1>9, ExpandFacts, Zenon
  <1>11. H.dev = v /\ H.size <= DeviceSize(v)
    <2>1. CASE proto[v] = "nvme"
      BY <1>7, <1>10, <2>1, Zenon DEF Serves, DeviceSize
    <2>2. CASE proto[v] # "nvme"
      <3>1. Own(v)[2] = lun[v] /\ \A x \in Address : x[1] = proto[v] /\ x[2] = lun[v] => x = Own(v)
        BY DEF Own, Address
      <3>2. lun[H.dev] = lun[v]
        BY <1>9, <1>10, <2>2, <3>1, Zenon DEF NothingStale
      <3>3. H.dev = v
        BY <1>10, <3>2, Zenon DEF UInv, Luns
      <3>4. v # None
        BY NodeAssumption, Zenon
      <3>5. \A x \in Address : disk[x] = v => lun[v] = x[2] /\ proto[v] = x[1]
        BY <3>4, Zenon DEF NothingStale, EInv, Wired
      <3>6. \A x \in Address : disk[x] = v <=> x = Own(v)
        BY <1>10, <2>2, <3>1, <3>3, <3>5, Zenon
      <3>7. PathsOf(v) = {Own(v)}
        BY <1>10, <2>2, <3>6, Zenon DEF PathsOf
      <3>8. H.size <= msize[v]
        BY <1>4, <1>5, <1>6, <1>8, <2>2, <3>3, <3>7, Zenon DEF Grows
      <3> QED
        BY <2>2, <3>3, <3>8, Zenon DEF DeviceSize
    <2> QED
      BY <2>1, <2>2, Zenon
  <1>12. fsize'[v] = DeviceSize(v)
    BY <1>6, <1>7, <1>11, Zenon
  <1> QED
    BY <1>5, <1>11, <1>12, Zenon

\* NodeExpandVolume confirms a size only when the file system has it, unless a
\* disk was left behind at a LUN its volume no longer has; and as long as nothing
\* fails no step makes a file system smaller (Expanded).
THEOREM ExpandedKept == Spec => Expanded
  <1> DEFINE ExpandStep == \A v \in Volume \ Block :
                             /\ NothingStale /\ expanded'[v] > expanded[v] => fsize'[v] >= expanded'[v]
                             /\ faults' = 0 => fsize'[v] >= fsize[v]
  <1>1. Init => IInv /\ UInv /\ FInv /\ EInv /\ SizedInv
    <2>1. Init => SizedInv
      <3> SUFFICES ASSUME Init
                   PROVE  \A v \in Volume : Sized(v)
        BY Zenon DEF SizedInv
      <3>1. /\ map = {} /\ \A v \in Volume : fsize[v] = 0 /\ size[v] = 1
            /\ \A a \in Address : disk[a] = None
        BY Zenon DEF Init
      <3>2. \A v \in Volume : PathsOf(v) = {}
        BY <3>1, NodeAssumption, Zenon DEF PathsOf
      <3> QED
        BY <3>1, <3>2 DEF Sized
    <2> QED
      BY <2>1, InitIInv, InitUInv, InitFInv, InitEInv, Zenon
  <1>2. IInv /\ UInv /\ FInv /\ EInv /\ SizedInv /\ [Next]_vars
          => (IInv /\ UInv /\ FInv /\ EInv /\ SizedInv)' /\ [ExpandStep]_vars
    <2> SUFFICES ASSUME IInv, UInv, FInv, EInv, SizedInv, [Next]_vars
                 PROVE  (IInv /\ UInv /\ FInv /\ EInv /\ SizedInv)' /\ [ExpandStep]_vars
      BY Zenon
    <2>1. IInv' /\ UInv' /\ FInv' /\ EInv'
      BY NextIInv, NextUInv, NextFInv, NextEInv, Zenon
    <2>2. SizedInv'
      BY NextSized, Zenon DEF SizedInv
    <2>3. ASSUME NEW v \in Volume \ Block
          PROVE  /\ NothingStale /\ expanded'[v] > expanded[v] => fsize'[v] >= expanded'[v]
                 /\ faults' = 0 => fsize'[v] >= fsize[v]
      <3>1. NothingStale /\ expanded'[v] > expanded[v] => fsize'[v] >= expanded'[v]
        BY NextConfirms, Zenon
      <3>2. faults' = 0 => fsize[v] <= fsize'[v]
        BY NextSized, Zenon
      <3> QED
        BY <3>1, <3>2, Zenon
    <2> QED
      BY <2>1, <2>2, <2>3, Zenon
  <1> QED
    BY <1>1, <1>2, PTL DEF Spec, Expanded
=============================================================================
