------------------------------ MODULE HostMap ------------------------------
(***************************************************************************)
(* Attaching block volumes to nodes (ControllerPublishVolume and           *)
(* ControllerUnpublishVolume of service/controller.go, the iscsi, fc and   *)
(* nvme controllers, and storage/common).  A node has a host on the array, *)
(* created by the first publish and deleted by the unpublish that takes    *)
(* its last LUN away; an administrator may also have created it.  A volume *)
(* is attached by mapping it to the node's host.                           *)
(*                                                                         *)
(* Publish holds the global nodeVolumeMutex.  Unpublish holds nothing, so  *)
(* it may remove a host between any two calls of a publish.                *)
(***************************************************************************)
EXTENDS Naturals, FiniteSets, Calls

CONSTANTS
    Worker,         \* goroutines serving gRPC calls
    Volume,         \* volumes, named by their ID
    Node,           \* nodes, named by their host name
    AnyNode,        \* the node of an unpublish request that names none
    HostID,         \* IDs the array may hand out
    AdminHost,      \* nodes whose host an administrator created
    ReadOnly,       \* write-protected volumes, published for writing
    HostFirst,      \* fc looks for the host before the volume
    MaxVols,        \* max_vols_per_host of the storage class
    MaxAttaches,    \* bound on the number of attach requests
    NoHost, NoWorker

Target == Node \cup {AnyNode}
Attachment == Volume \X Target
NodeAttachment == Volume \X Node

ASSUME NodeAssumption == AnyNode \notin Node /\ AdminHost \subseteq Node
ASSUME HostAssumption == NoHost \notin HostID /\ NoWorker \notin Worker
ASSUME VolumeAssumption == IsFiniteSet(Volume) /\ MaxVols \in Nat \ {0}
ASSUME AttachAssumption == MaxAttaches \in Nat /\ HostFirst \in BOOLEAN

VARIABLES
    (* the array *)
    host,       \* host[n]: ID of the host named n, or NoHost
    used,       \* host IDs handed out so far
    created,    \* hosts with metadata csi_created_host
    luns,       \* <<h, v>>: volume v is mapped to host h
    (* Kubernetes *)
    phase,      \* phase[a]: life of the VolumeAttachment a
    context,    \* context[a]: hostID in the publish context of a
    attaches,   \* attach requests so far
    (* the controller process *)
    mutex,      \* holder of nodeVolumeMutex
    pc,         \* the call a worker makes next
    my          \* request and local variables of a worker

array == <<host, used, created, luns>>
k8s == <<phase, context, attaches>>
vars == <<array, k8s, mutex, pc, my, faults>>

-----------------------------------------------------------------------------
Live(h) == \E n \in Node : host[n] = h
Mapped(h) == {v \in Volume : <<h, v>> \in luns}

\* at: the attachment the request is about.  id: ID of the host, once found.
Call(a) == [at |-> a, id |-> NoHost]
NoCall == [at |-> <<NoHost, AnyNode>>, id |-> NoHost]

VolumeOf(w) == my[w].at[1]
NodeOf(w) == my[w].at[2]

\* An administrator's hosts exist, have no LUN and carry no metadata.
Init ==
    /\ host \in [Node -> HostID \cup {NoHost}]
    /\ \A n \in Node : host[n] # NoHost <=> n \in AdminHost
    /\ \A n, o \in AdminHost : n # o => host[n] # host[o]
    /\ used = {host[n] : n \in AdminHost} /\ created = {} /\ luns = {}
    /\ phase = [a \in Attachment |-> "detached"]
    /\ context = [a \in Attachment |-> NoHost]
    /\ attaches = 0
    /\ mutex = NoWorker
    /\ pc = [w \in Worker |-> "idle"]
    /\ my = [w \in Worker |-> NoCall]
    /\ faults = 0

Goto(w, label, m) ==
    /\ pc' = [pc EXCEPT ![w] = label]
    /\ my' = [my EXCEPT ![w] = m]
    /\ UNCHANGED <<k8s, mutex>>

LeaveLocked(w) ==
    /\ pc' = [pc EXCEPT ![w] = "idle"]
    /\ my' = [my EXCEPT ![w] = NoCall]
    /\ UNCHANGED mutex

\* The deferred unlock runs however the handler ends.
Leave(w) ==
    /\ pc' = [pc EXCEPT ![w] = "idle"]
    /\ my' = [my EXCEPT ![w] = NoCall]
    /\ mutex' = IF mutex = w THEN NoWorker ELSE mutex

\* After an error Kubernetes repeats the call later.
ReturnError(w) == Leave(w) /\ UNCHANGED k8s

\* The answer of ControllerPublishVolume carries the ID of the host.
ReturnPublished(w) ==
    /\ Leave(w)
    /\ phase' = [phase EXCEPT ![my[w].at] = IF @ = "attaching" THEN "attached" ELSE @]
    /\ context' = [context EXCEPT ![my[w].at] = my[w].id]
    /\ UNCHANGED attaches

ReturnUnpublished(w) ==
    /\ Leave(w)
    /\ phase' = [phase EXCEPT ![my[w].at] = "detached"]
    /\ UNCHANGED <<context, attaches>>

-----------------------------------------------------------------------------
(* Kubernetes.  The external attacher has one call for an attachment in     *)
(* flight at a time.  It gives up an attach that keeps failing by detaching. *)

Attach(a) ==
    /\ a \in NodeAttachment /\ phase[a] = "detached" /\ attaches < MaxAttaches
    /\ phase' = [phase EXCEPT ![a] = "attaching"]
    /\ attaches' = attaches + 1
    /\ UNCHANGED <<array, context, mutex, pc, my, faults>>

Detach(a) ==
    /\ \/ phase[a] \in {"attaching", "attached"}
       \/ /\ a[2] = AnyNode /\ phase[a] = "detached"
          /\ \E n \in Node : phase[<<a[1], n>>] = "attached"
    /\ phase' = [phase EXCEPT ![a] = "detaching"]
    /\ UNCHANGED <<array, context, attaches, mutex, pc, my, faults>>

Free(a) == \A w \in Worker : pc[w] # "idle" => my[w].at # a

StartPublish(w, a) ==
    /\ pc[w] = "idle" /\ phase[a] = "attaching" /\ Free(a)
    /\ Goto(w, "lock", Call(a))
    /\ UNCHANGED <<array, faults>>

StartUnpublish(w, a) ==
    /\ pc[w] = "idle" /\ phase[a] = "detaching" /\ Free(a)
    /\ Goto(w, "name", Call(a))
    /\ UNCHANGED <<array, faults>>

Crash ==
    /\ \E w \in Worker : pc[w] # "idle"
    /\ Fault("crash")
    /\ mutex' = NoWorker
    /\ pc' = [w \in Worker |-> "idle"]
    /\ my' = [w \in Worker |-> NoCall]
    /\ UNCHANGED <<array, k8s>>

-----------------------------------------------------------------------------
(* ControllerPublishVolume. *)

FirstCall == IF HostFirst THEN "host" ELSE "volume"
AfterVolume == IF HostFirst THEN "luns" ELSE "host"
AfterHost == IF HostFirst THEN "volume" ELSE "luns"

NoLock(w) ==
    /\ pc[w] = "lock"
    /\ pc' = [pc EXCEPT ![w] = FirstCall]
    /\ UNCHANGED <<array, k8s, mutex, my, faults>>

LockMutex(w) ==
    /\ pc[w] = "lock" /\ mutex = NoWorker
    /\ mutex' = w
    /\ pc' = [pc EXCEPT ![w] = FirstCall]
    /\ UNCHANGED <<array, k8s, my, faults>>

\* IsValidAccessMode.
WriteRefused(v) == v \in ReadOnly

GetVolume(w) ==
    /\ pc[w] = "volume"
    /\ \/ WriteRefused(VolumeOf(w)) /\ ReturnError(w) /\ UNCHANGED faults
       \/ ~WriteRefused(VolumeOf(w)) /\ Goto(w, AfterVolume, my[w]) /\ UNCHANGED faults
       \/ Fault("GetVolume") /\ ReturnError(w)
    /\ UNCHANGED array

\* What GetHostByName returns.  An answer with an error code and no result is
\* taken for "not found", because the length of the result is looked at first.
HostFound(n, h) == host[n] = h /\ h # NoHost
HostNotFound(n) ==
    \/ host[n] = NoHost /\ UNCHANGED faults
    \/ host[n] # NoHost /\ Fault("GetHostByName answers with an error")

ValidateHost(w) ==
    /\ pc[w] = "host"
    /\ \/ HostNotFound(NodeOf(w)) /\ Goto(w, "createHost", my[w])
       \/ \E h \in HostID :
            HostFound(NodeOf(w), h) /\ Goto(w, AfterHost, [my[w] EXCEPT !.id = h]) /\ UNCHANGED faults
       \/ Fault("GetHostByName") /\ ReturnError(w)
    /\ UNCHANGED array

\* The array refuses a name that is taken.
CreateHost(w) ==
    /\ pc[w] = "createHost"
    /\ LET n == NodeOf(w)
           refused == host[n] # NoHost \/ HostID \subseteq used
       IN  \/ refused /\ ReturnError(w) /\ UNCHANGED <<array, faults>>
           \/ Fault("CreateHost") /\ ReturnError(w) /\ UNCHANGED array
           \/ \E h \in HostID \ used :
                /\ ~refused
                /\ host' = [host EXCEPT ![n] = h]
                /\ used' = used \cup {h}
                /\ UNCHANGED <<created, luns>>
                /\ \/ Goto(w, "tagHost", [my[w] EXCEPT !.id = h]) /\ UNCHANGED faults
                   \/ ReturnError(w) /\ Fault("CreateHost")

\* Metadata csi_created_host.
TagHost(w) ==
    /\ pc[w] = "tagHost"
    /\ LET h == my[w].id
       IN  \/ ~Live(h) /\ ReturnError(w) /\ UNCHANGED <<array, faults>>
           \/ Live(h) /\ \E out \in Outcome :
                /\ Charge("PutMetadata", out)
                /\ created' = IF Done(out) THEN created \cup {h} ELSE created
                /\ UNCHANGED <<host, used, luns>>
                /\ IF Ok(out) THEN Goto(w, AfterHost, my[w]) ELSE ReturnError(w)

AtLimit(h) == Cardinality(Mapped(h)) >= MaxVols

\* The LUNs of the host: the volume may be among them already.
GetAllLunByHost(w) ==
    /\ pc[w] = "luns"
    /\ LET h == my[w].id
           there == VolumeOf(w) \in Mapped(h)
       IN  \/ (~Live(h) \/ (~there /\ AtLimit(h))) /\ ReturnError(w) /\ UNCHANGED faults
           \/ Live(h) /\ there /\ ReturnPublished(w) /\ UNCHANGED faults
           \/ Live(h) /\ ~there /\ ~AtLimit(h) /\ Goto(w, "map", my[w]) /\ UNCHANGED faults
           \/ Fault("GetAllLunByHost") /\ ReturnError(w)
    /\ UNCHANGED array

\* A mapping that exists already is as good as a new one.
MapVolumeTohost(w) ==
    /\ pc[w] = "map"
    /\ LET h == my[w].id
       IN  \/ ~Live(h) /\ ReturnError(w) /\ UNCHANGED <<array, faults>>
           \/ Live(h) /\ \E out \in Outcome :
                /\ Charge("MapVolumeToHost", out)
                /\ luns' = IF Done(out) THEN luns \cup {<<h, VolumeOf(w)>>} ELSE luns
                /\ UNCHANGED <<host, used, created>>
                /\ IF Ok(out) THEN ReturnPublished(w) ELSE ReturnError(w)

-----------------------------------------------------------------------------
(* ControllerUnpublishVolume. *)

\* getNodeProtocol lists the nodes; DetermineHostName refuses an empty node ID.
DetermineHostName(w) ==
    /\ pc[w] = "name"
    /\ \/ NodeOf(w) # AnyNode /\ Goto(w, "find", my[w]) /\ UNCHANGED faults
       \/ NodeOf(w) = AnyNode /\ ReturnError(w) /\ UNCHANGED faults
       \/ Fault("GetNodes") /\ ReturnError(w)
    /\ UNCHANGED array

UnmapIfSeveral(h) == IF Cardinality(Mapped(h)) > 1 THEN "unmap" ELSE "left"

UnmapIfAny(h) == IF Mapped(h) # {} THEN "unmap" ELSE "left"

\* Without a host there is nothing to unmap.
FindHost(w) ==
    /\ pc[w] = "find"
    /\ \/ HostNotFound(NodeOf(w)) /\ ReturnUnpublished(w)
       \/ \E h \in HostID :
            /\ HostFound(NodeOf(w), h) /\ UNCHANGED faults
            /\ Goto(w, UnmapIfAny(h), [my[w] EXCEPT !.id = h])
       \/ Fault("GetHostByName") /\ ReturnError(w)
    /\ UNCHANGED array

UnmappedEverywhere(h, v) == HostID \X {v}

Unmapped(h, v) == {<<h, v>>}

NotFoundFails(w) == ReturnError(w)

\* HOST_NOT_FOUND and LUN_NOT_FOUND are ignored.
NotFoundIgnored(w) == Goto(w, "left", my[w])

UnmapVolumeFromHost(w) ==
    /\ pc[w] = "unmap"
    /\ LET h == my[w].id
           v == VolumeOf(w)
       IN  \/ v \notin Mapped(h) /\ NotFoundIgnored(w) /\ UNCHANGED <<array, faults>>
           \/ v \in Mapped(h) /\ \E out \in Outcome :
                /\ Charge("UnMapVolumeFromHost", out)
                /\ luns' = IF Done(out) THEN luns \ Unmapped(h, v) ELSE luns
                /\ UNCHANGED <<host, used, created>>
                /\ IF Ok(out) THEN Goto(w, "left", my[w]) ELSE ReturnError(w)

NeverEmpty(h) == FALSE

NoLunLeft(h) == Mapped(h) = {}

\* An error of GetAllLunByHost is logged, and the host taken for empty.
ListLuns(w) ==
    /\ pc[w] = "left"
    /\ LET h == my[w].id
       IN  \/ Live(h) /\ ~NoLunLeft(h) /\ ReturnUnpublished(w) /\ UNCHANGED faults
           \/ (~Live(h) \/ NoLunLeft(h)) /\ Goto(w, "meta", my[w]) /\ UNCHANGED faults
           \/ Fault("GetAllLunByHost") /\ Goto(w, "meta", my[w])
    /\ UNCHANGED array

CreatedByCSI(h) == h \in created

\* The metadata of a host that is gone: an error, or nothing.
HostCleanup(w) ==
    /\ pc[w] = "meta"
    /\ LET h == my[w].id
       IN  \/ CreatedByCSI(h) /\ Goto(w, "deleteHost", my[w]) /\ UNCHANGED faults
           \/ ~CreatedByCSI(h) /\ ReturnUnpublished(w) /\ UNCHANGED faults
           \/ ~Live(h) /\ ReturnError(w) /\ UNCHANGED faults
           \/ Fault("GetMetadata") /\ ReturnError(w)
    /\ UNCHANGED array

\* The call is sent without approval, and the array refuses to delete a host
\* that has LUNs.
DeleteHost(w) ==
    /\ pc[w] = "deleteHost"
    /\ LET h == my[w].id
       IN  \/ ~Live(h) /\ ReturnUnpublished(w) /\ UNCHANGED <<array, faults>>
           \/ Live(h) /\ Mapped(h) # {} /\ ReturnError(w) /\ UNCHANGED <<array, faults>>
           \/ Live(h) /\ Mapped(h) = {} /\ \E out \in Outcome :
                /\ Charge("DeleteHost", out)
                /\ host' = IF Done(out) THEN [n \in Node |-> IF host[n] = h THEN NoHost ELSE host[n]]
                                        ELSE host
                /\ created' = IF Done(out) THEN created \ {h} ELSE created
                /\ UNCHANGED <<used, luns>>
                /\ IF Ok(out) THEN ReturnUnpublished(w) ELSE ReturnError(w)

-----------------------------------------------------------------------------
PublishStep(w) ==
    \/ LockMutex(w) \/ GetVolume(w) \/ ValidateHost(w) \/ CreateHost(w) \/ TagHost(w)
    \/ GetAllLunByHost(w) \/ MapVolumeTohost(w)

UnpublishStep(w) ==
    \/ DetermineHostName(w) \/ FindHost(w) \/ UnmapVolumeFromHost(w) \/ ListLuns(w)
    \/ HostCleanup(w) \/ DeleteHost(w)

Step(w) == PublishStep(w) \/ UnpublishStep(w)

Next ==
    \/ \E a \in Attachment : Attach(a) \/ Detach(a)
    \/ \E w \in Worker, a \in Attachment : StartPublish(w, a) \/ StartUnpublish(w, a)
    \/ \E w \in Worker : Step(w)
    \/ Crash

Spec == Init /\ [][Next]_vars

-----------------------------------------------------------------------------
(* Properties. *)

LockedLabel == {"volume", "host", "createHost", "tagHost", "luns", "map"}
UnpublishLabel == {"name", "find", "unmap", "left", "meta", "deleteHost"}
HostOrNone == HostID \cup {NoHost}

ArrayOK ==
    /\ host \in [Node -> HostOrNone]
    /\ used \subseteq HostID /\ created \subseteq HostID
    /\ luns \subseteq HostID \X Volume

KubernetesOK ==
    /\ phase \in [Attachment -> {"detached", "attaching", "attached", "detaching"}]
    /\ context \in [Attachment -> HostOrNone]
    /\ attaches \in Nat

ProcessOK ==
    /\ mutex \in Worker \cup {NoWorker}
    /\ pc \in [Worker -> {"idle", "lock"} \cup LockedLabel \cup UnpublishLabel]
    /\ my \in [Worker -> [at : Attachment \cup {NoCall.at}, id : HostOrNone]]

\* Every variable has its type.
TypeOK == ArrayOK /\ KubernetesOK /\ ProcessOK /\ faults \in Nat

\* A published volume stays mapped to its node, on the host whose ID the node
\* was told: no unpublish of another volume unmaps it, deletes the host or
\* makes room for a new host with another ID.
PublishedMapped ==
    \A a \in NodeAttachment : phase[a] = "attached" =>
        host[a[2]] = context[a] /\ <<host[a[2]], a[1]>> \in luns

\* An unpublish that succeeded has unmapped the volume, whatever part of the
\* work an earlier try had done and whatever publishes run on the same host.
DetachedUnmapped ==
    \A a \in NodeAttachment : phase[a] = "detached" => <<host[a[2]], a[1]>> \notin luns

\* The driver never maps more than max_vols_per_host volumes to a host: the
\* LUNs that publish counted do not grow before it maps its own.
LunLimit == \A h \in HostID : Cardinality(Mapped(h)) <= MaxVols

Quiet == \A w \in Worker : pc[w] = "idle"

\* Hosts created by the driver do not outlive their attachments, as long as no
\* call failed.
NoEmptyHost ==
    Quiet /\ faults = 0 =>
        \A n \in Node \ AdminHost :
            host[n] # NoHost => \E v \in Volume : phase[<<v, n>>] # "detached"

-----------------------------------------------------------------------------
(* Why these hold. *)

MappedOn(a) == <<host[a[2]], a[1]>> \in luns

\* Hosts have IDs of their own, and only hosts that exist have LUNs.
ArrayInv ==
    /\ \A n \in Node : host[n] # NoHost => host[n] \in used
    /\ \A n, o \in Node : host[n] = host[o] /\ host[n] # NoHost => n = o
    /\ \A l \in luns : Live(l[1])

HasHost == {"tagHost", "luns", "map", "unmap", "left", "meta", "deleteHost"}

\* A handler works for an attachment that nobody else works for.  The host ID
\* it holds is, or was, that of its node.  After the unmapping the volume is
\* not mapped to the node's host, even if that is another one by now.
WorkerInv(w) ==
    /\ pc[w] # "idle" => my[w].at \in Attachment
    /\ pc[w] \in {"lock"} \cup LockedLabel =>
        my[w].at \in NodeAttachment /\ phase[my[w].at] \in {"attaching", "detaching"}
    /\ pc[w] \in UnpublishLabel => phase[my[w].at] = "detaching"
    /\ pc[w] \in UnpublishLabel \ {"name"} => my[w].at \in NodeAttachment
    /\ pc[w] \in HasHost \/ (pc[w] = "volume" /\ HostFirst) => my[w].id # NoHost
    /\ my[w].id # NoHost =>
        my[w].id \in used /\ \A n \in Node : host[n] = my[w].id => n = my[w].at[2]
    /\ pc[w] = "unmap" /\ host[my[w].at[2]] # my[w].id => ~MappedOn(my[w].at)
    /\ pc[w] \in {"left", "meta", "deleteHost"} => ~MappedOn(my[w].at)
    /\ pc[w] \in LockedLabel => mutex = w

Exclusive ==
    \A u, w \in Worker : u # w /\ pc[u] # "idle" /\ pc[w] # "idle" => my[u].at # my[w].at

AnyNodeInv == \A v \in Volume : phase[<<v, AnyNode>>] \in {"detached", "detaching"}

MapInv ==
    /\ TypeOK /\ ArrayInv /\ Exclusive /\ AnyNodeInv
    /\ \A w \in Worker : WorkerInv(w)
    /\ PublishedMapped

\* The LUNs a publish counted can only have become fewer when it maps.
LimitInv ==
    LunLimit /\ \A w \in Worker : pc[w] = "map" => Cardinality(Mapped(my[w].id)) < MaxVols

-----------------------------------------------------------------------------
(* Liveness.  Every REST call returns; a mutex is granted to each that waits   *)
(* for it; the external attacher repeats a detach until it succeeds.          *)

Fairness ==
    /\ \A w \in Worker : WF_vars(UnpublishStep(w)) /\ SF_vars(PublishStep(w))
    /\ \A a \in Attachment : SF_vars(\E w \in Worker : StartUnpublish(w, a))

FairSpec == Spec /\ Fairness

\* A detach succeeds in the end, wherever an earlier try of it stopped.
DetachCompletes == \A a \in NodeAttachment : phase[a] = "detaching" ~> phase[a] = "detached"

\* A handler that waits for the mutex gets it and returns.
PublishReturns == \A w \in Worker : pc[w] = "lock" ~> pc[w] = "idle"
=============================================================================
