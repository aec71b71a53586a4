----------------------------- MODULE HostProofs -----------------------------
(***************************************************************************)
(* Proofs about attaching volumes, for every value of the constants: any   *)
(* number of volumes, nodes, handlers, attach requests and faults.         *)
(*                                                                         *)
(* The argument for Published: a step of a handler leaves the mappings of  *)
(* every attachment but its own alone (ArrayFrame), since a host with LUNs *)
(* is neither deleted nor given another ID.                                *)
(*                                                                         *)
(* The argument for NoHostLeft: as long as no call failed, every host the  *)
(* driver made has a keeper, an attachment that is not detached yet and    *)
(* whose unpublish, when it runs, works on this very host.                 *)
(***************************************************************************)
EXTENDS HostMap, FiniteSetTheorems, TLAPS

USE DEF Call, NoCall, VolumeOf, NodeOf

CallType == [at : Attachment \cup {NoCall.at}, id : HostOrNone]

\* A step of w leaves the other workers alone.
StepOf(w) == \A u \in Worker \ {w} : pc'[u] = pc[u] /\ my'[u] = my[u]

\* A step of w leaves the other attachments alone.
KubernetesFrame(w) ==
    \A a \in Attachment \ {my[w].at} : phase'[a] = phase[a] /\ context'[a] = context[a]

MutexFrame(w) ==
    \/ mutex' = mutex
    \/ mutex = w /\ mutex' = NoWorker
    \/ mutex = NoWorker /\ mutex' = w

NextMappedOn(a) == <<host'[a[2]], a[1]>> \in luns'

\* A step of w changes the mapping of no attachment but its own; hosts do not
\* change their name, and hosts with LUNs stay.
ArrayFrame(w) ==
    /\ used \subseteq used'
    /\ \A h \in used, n \in Node : host'[n] = h => host[n] = h
    /\ \A a \in NodeAttachment \ {my[w].at} : NextMappedOn(a) <=> MappedOn(a)
    /\ \A a \in NodeAttachment : MappedOn(a) /\ NextMappedOn(a) => host'[a[2]] = host[a[2]]

NextWorkerInv(w) ==
    /\ pc'[w] # "idle" => my'[w].at \in Attachment
    /\ pc'[w] \in {"lock"} \cup LockedLabel =>
        my'[w].at \in NodeAttachment /\ phase'[my'[w].at] \in {"attaching", "detaching"}
    /\ pc'[w] \in UnpublishLabel => phase'[my'[w].at] = "detaching"
    /\ pc'[w] \in UnpublishLabel \ {"name"} => my'[w].at \in NodeAttachment
    /\ pc'[w] \in HasHost \/ (pc'[w] = "volume" /\ HostFirst) => my'[w].id # NoHost
    /\ my'[w].id # NoHost =>
        my'[w].id \in used' /\ \A n \in Node : host'[n] = my'[w].id => n = my'[w].at[2]
    /\ pc'[w] = "unmap" /\ host'[my'[w].at[2]] # my'[w].id => ~NextMappedOn(my'[w].at)
    /\ pc'[w] \in {"left", "meta", "deleteHost"} => ~NextMappedOn(my'[w].at)
    /\ pc'[w] \in LockedLabel => mutex' = w

\* What a step of w does to its own attachment.
NextOwn(w) ==
    /\ pc'[w] = "idle" \/ my'[w].at = my[w].at
    /\ LET a == my[w].at
       IN  /\ a \in NodeAttachment /\ phase'[a] = "attached" =>
                host'[a[2]] = context'[a] /\ NextMappedOn(a)
           /\ a \notin NodeAttachment => phase'[a] \in {"detached", "detaching"}

\* Such a step keeps the invariant of the other workers.
LEMMA OthersKept ==
    ASSUME MapInv, NEW w \in Worker, pc[w] # "idle", StepOf(w), KubernetesFrame(w),
           MutexFrame(w), ArrayFrame(w), NEW u \in Worker \ {w}
    PROVE  NextWorkerInv(u)
  <1>1. WorkerInv(u) /\ pc'[u] = pc[u] /\ my'[u] = my[u] /\ mutex \in Worker \cup {NoWorker}
    BY Zenon DEF MapInv, StepOf, TypeOK, ProcessOK
  <1>2. pc[u] # "idle" => my[u].at # my[w].at /\ my[u].at \in Attachment
    BY <1>1, Zenon DEF MapInv, Exclusive, WorkerInv
  <1>3. pc[u] # "idle" => phase'[my[u].at] = phase[my[u].at]
    BY <1>2, Zenon DEF KubernetesFrame
  <1>4. my[u].id # NoHost =>
            my[u].id \in used' /\ \A n \in Node : host'[n] = my[u].id => n = my[u].at[2]
    BY <1>1, Zenon DEF WorkerInv, ArrayFrame
  <1>5. ASSUME pc[u] \in {"unmap", "left", "meta", "deleteHost"}
        PROVE  /\ my[u].at \in NodeAttachment
               /\ NextMappedOn(my[u].at) <=> MappedOn(my[u].at)
               /\ NextMappedOn(my[u].at) => host'[my[u].at[2]] = host[my[u].at[2]]
    BY <1>1, <1>2, <1>5, Zenon DEF WorkerInv, UnpublishLabel, ArrayFrame
  <1>6. pc[u] \in LockedLabel => mutex' = u
    BY <1>1, HostAssumption, Zenon DEF WorkerInv, MutexFrame
  <1>7. pc[u] = "unmap" /\ host'[my[u].at[2]] # my[u].id => ~NextMappedOn(my[u].at)
    BY <1>1, <1>5, Zenon DEF WorkerInv
  <1>8. pc[u] \in {"left", "meta", "deleteHost"} => ~NextMappedOn(my[u].at)
    BY <1>1, <1>5, Zenon DEF WorkerInv
  <1> QED
    BY <1>1, <1>2, <1>3, <1>4, <1>6, <1>7, <1>8, Zenon
    DEF NextWorkerInv, WorkerInv, LockedLabel, UnpublishLabel

\* Such a step keeps the whole invariant.
LEMMA StepKeeps ==
    ASSUME MapInv, NEW w \in Worker, pc[w] # "idle", TypeOK', ArrayInv', StepOf(w),
           KubernetesFrame(w), MutexFrame(w), ArrayFrame(w), NextWorkerInv(w), NextOwn(w)
    PROVE  MapInv'
  <1>1. \A u \in Worker : NextWorkerInv(u)
    BY OthersKept, Zenon
  <1>2. (\A u \in Worker : WorkerInv(u))'
    BY <1>1, Zenon DEF NextWorkerInv, WorkerInv, NextMappedOn, MappedOn
  <1>3. Exclusive'
    BY DEF MapInv, Exclusive, StepOf, NextOwn
  <1>4. AnyNodeInv'
    <2> SUFFICES ASSUME NEW v \in Volume
                 PROVE  phase'[<<v, AnyNode>>] \in {"detached", "detaching"}
      BY Zenon DEF AnyNodeInv
    <2>1. <<v, AnyNode>> \in Attachment /\ <<v, AnyNode>> \notin NodeAttachment
      BY NodeAssumption, Zenon DEF Attachment, NodeAttachment, Target
    <2> QED
      BY <2>1, Zenon DEF NextOwn, KubernetesFrame, MapInv, AnyNodeInv
  <1>5. PublishedMapped'
    <2> SUFFICES ASSUME NEW a \in NodeAttachment, phase'[a] = "attached"
                 PROVE  host'[a[2]] = context'[a] /\ NextMappedOn(a)
      BY Zenon DEF PublishedMapped, NextMappedOn
    <2>1. CASE a = my[w].at
      BY <2>1, Zenon DEF NextOwn
    <2>2. CASE a # my[w].at
      <3>1. phase[a] = "attached" /\ context'[a] = context[a]
        BY <2>2, Zenon DEF KubernetesFrame, Attachment, NodeAttachment, Target
      <3>2. host[a[2]] = context[a] /\ MappedOn(a)
        BY <3>1, Zenon DEF MapInv, PublishedMapped, MappedOn
      <3> QED
        BY <2>2, <3>1, <3>2, Zenon DEF ArrayFrame
    <2> QED
      BY <2>1, <2>2, Zenon
  <1> QED
    BY <1>2, <1>3, <1>4, <1>5, Zenon DEF MapInv

-----------------------------------------------------------------------------
(* How a handler goes on. *)

\* The part of a step of w that is not about the array.
Proceeds(w) ==
    /\ KubernetesOK' /\ ProcessOK' /\ StepOf(w) /\ KubernetesFrame(w) /\ MutexFrame(w)
    /\ NextWorkerInv(w) /\ NextOwn(w)

\* Such a step with an allowed effect on the array keeps the invariant.
LEMMA ProceedsKeeps ==
    ASSUME MapInv, NEW w \in Worker, pc[w] # "idle", Proceeds(w),
           ArrayOK', ArrayInv', ArrayFrame(w), faults' \in Nat
    PROVE  MapInv'
  BY StepKeeps, Zenon DEF Proceeds, TypeOK

\* The fault budget stays a natural number.
LEMMA FaultType ==
    ASSUME faults \in Nat, NEW c, NEW o, UNCHANGED faults \/ Fault(c) \/ Charge(c, o)
    PROVE  faults' \in Nat
  BY DEF Fault, Charge

\* A step that leaves the array alone.
LEMMA ArraySame ==
    ASSUME MapInv, UNCHANGED array, NEW w \in Worker
    PROVE  ArrayOK' /\ ArrayInv' /\ ArrayFrame(w) /\ used' = used /\ host' = host /\ luns' = luns
  BY Zenon DEF MapInv, TypeOK, ArrayOK, ArrayInv, ArrayFrame, array, MappedOn, NextMappedOn, Live

\* An attachment that a handler works for is not attached.
LEMMA NotAttached ==
    ASSUME MapInv, NEW w \in Worker, pc[w] # "idle"
    PROVE  /\ my[w].at \in Attachment /\ phase[my[w].at] \in {"attaching", "detaching"}
           /\ my[w].at \notin NodeAttachment => phase[my[w].at] \in {"detached", "detaching"}
  <1>1. WorkerInv(w) /\ pc[w] \in {"lock"} \cup LockedLabel \cup UnpublishLabel
    BY Zenon DEF MapInv, TypeOK, ProcessOK
  <1>2. my[w].at \in Attachment /\ phase[my[w].at] \in {"attaching", "detaching"}
    BY <1>1, Zenon DEF WorkerInv
  <1>3. ASSUME my[w].at \notin NodeAttachment
        PROVE  phase[my[w].at] \in {"detached", "detaching"}
    <2>1. my[w].at = <<my[w].at[1], AnyNode>> /\ my[w].at[1] \in Volume
      BY <1>2, <1>3 DEF Attachment, NodeAttachment, Target
    <2> QED
      BY <2>1, Zenon DEF MapInv, AnyNodeInv
  <1> QED
    BY <1>2, <1>3, Zenon

\* The handler returns.
LEMMA LeaveStep ==
    ASSUME MapInv, NEW w \in Worker, Leave(w)
    PROVE  ProcessOK' /\ StepOf(w) /\ MutexFrame(w) /\ NextWorkerInv(w) /\ pc'[w] = "idle"
  <1>1. ProcessOK' /\ StepOf(w) /\ pc'[w] = "idle" /\ my'[w] = NoCall
    BY Zenon DEF MapInv, Leave, TypeOK, ProcessOK, StepOf, HostOrNone
  <1>2. MutexFrame(w)
    BY Zenon DEF Leave, MutexFrame
  <1>3. NextWorkerInv(w)
    BY <1>1 DEF NextWorkerInv, LockedLabel, UnpublishLabel, HasHost
  <1> QED
    BY <1>1, <1>2, <1>3, Zenon

\* The handler returns an error.
LEMMA ReturnErrorStep ==
    ASSUME MapInv, NEW w \in Worker, pc[w] # "idle", ReturnError(w)
    PROVE  Proceeds(w)
  <1>1. KubernetesOK' /\ KubernetesFrame(w) /\ phase' = phase
    BY Zenon DEF ReturnError, k8s, MapInv, TypeOK, KubernetesOK, KubernetesFrame
  <1>2. ProcessOK' /\ StepOf(w) /\ MutexFrame(w) /\ NextWorkerInv(w) /\ pc'[w] = "idle"
    BY LeaveStep, Zenon DEF ReturnError
  <1>3. NextOwn(w)
    BY <1>1, <1>2, NotAttached, Zenon DEF NextOwn
  <1> QED
    BY <1>1, <1>2, <1>3, Zenon DEF Proceeds

\* ControllerUnpublishVolume succeeds.
LEMMA ReturnUnpublishedStep ==
    ASSUME MapInv, NEW w \in Worker, pc[w] # "idle", ReturnUnpublished(w)
    PROVE  Proceeds(w)
  <1>1. /\ KubernetesOK' /\ KubernetesFrame(w)
        /\ my[w].at \in Attachment => phase'[my[w].at] = "detached"
    BY Zenon DEF ReturnUnpublished, MapInv, TypeOK, KubernetesOK, KubernetesFrame
  <1>2. ProcessOK' /\ StepOf(w) /\ MutexFrame(w) /\ NextWorkerInv(w) /\ pc'[w] = "idle"
    BY LeaveStep, Zenon DEF ReturnUnpublished
  <1>3. NextOwn(w)
    BY <1>1, <1>2, NotAttached, Zenon DEF NextOwn
  <1> QED
    BY <1>1, <1>2, <1>3, Zenon DEF Proceeds

\* ControllerPublishVolume succeeds: the volume is mapped to the node's host.
LEMMA ReturnPublishedStep ==
    ASSUME MapInv, NEW w \in Worker, pc[w] # "idle", ReturnPublished(w),
           my[w].at \in NodeAttachment, host'[my[w].at[2]] = my[w].id, NextMappedOn(my[w].at)
    PROVE  Proceeds(w)
  <1>1. my[w].id \in HostOrNone /\ my[w].at \in Attachment
    BY NotAttached, Zenon DEF MapInv, TypeOK, ProcessOK
  <1>2. KubernetesOK' /\ KubernetesFrame(w) /\ context'[my[w].at] = my[w].id
    BY <1>1, Zenon DEF ReturnPublished, MapInv, TypeOK, KubernetesOK, KubernetesFrame
  <1>3. ProcessOK' /\ StepOf(w) /\ MutexFrame(w) /\ NextWorkerInv(w) /\ pc'[w] = "idle"
    BY LeaveStep, Zenon DEF ReturnPublished
  <1>4. NextOwn(w)
    BY <1>2, <1>3, Zenon DEF NextOwn
  <1> QED
    BY <1>2, <1>3, <1>4, Zenon DEF Proceeds

\* The host ID that a handler goes on with is that of its node.
Known(a, i) == i # NoHost => i \in used' /\ \A n \in Node : host'[n] = i => n = a[2]

\* The handler goes on to the next call.
LEMMA GotoStep ==
    ASSUME MapInv, NEW w \in Worker, pc[w] # "idle",
           NEW l \in LockedLabel \cup (UnpublishLabel \ {"name"}),
           NEW m \in CallType, Goto(w, l, m), m.at = my[w].at, Known(m.at, m.id),
           my[w].at \in NodeAttachment,
           l \in LockedLabel => pc[w] \in LockedLabel,
           l \in UnpublishLabel => pc[w] \in UnpublishLabel,
           l \in HasHost \/ (l = "volume" /\ HostFirst) => m.id # NoHost,
           l = "unmap" /\ host'[m.at[2]] # m.id => ~NextMappedOn(m.at),
           l \in {"left", "meta", "deleteHost"} => ~NextMappedOn(m.at)
    PROVE  Proceeds(w)
  <1>1. KubernetesOK' /\ KubernetesFrame(w) /\ phase' = phase /\ mutex' = mutex
    BY Zenon DEF Goto, k8s, MapInv, TypeOK, KubernetesOK, KubernetesFrame
  <1>2. ProcessOK' /\ StepOf(w) /\ pc'[w] = l /\ my'[w] = m
    BY Zenon DEF Goto, MapInv, TypeOK, ProcessOK, StepOf, CallType
  <1>3. my[w].at \in Attachment /\ phase[my[w].at] \in {"attaching", "detaching"}
    BY NotAttached, Zenon
  <1>4. /\ pc[w] \in LockedLabel => mutex = w
        /\ pc[w] \in UnpublishLabel => phase[my[w].at] = "detaching"
    BY Zenon DEF MapInv, WorkerInv
  <1>5. NextWorkerInv(w)
    BY <1>1, <1>2, <1>3, <1>4, Zenon DEF NextWorkerInv, Known, LockedLabel, UnpublishLabel
  <1>6. NextOwn(w)
    BY <1>1, <1>2, <1>3, Zenon DEF NextOwn
  <1> QED
    BY <1>1, <1>2, <1>5, <1>6, Zenon DEF Proceeds, MutexFrame

-----------------------------------------------------------------------------
(* What a call does to the array. *)

ArrayAllowed(w) == ArrayOK' /\ ArrayInv' /\ ArrayFrame(w)

\* A host exists if it has LUNs.
LEMMA MappedLive ==
    ASSUME MapInv, NEW h, NEW v, <<h, v>> \in luns
    PROVE  h \in HostID /\ v \in Volume /\ h \in used /\ h # NoHost /\ Live(h)
  <1>1. h \in HostID /\ v \in Volume /\ Live(h)
    BY Zenon DEF MapInv, TypeOK, ArrayOK, ArrayInv
  <1> QED
    BY <1>1, HostAssumption, Zenon DEF MapInv, ArrayInv, Live

\* PutMetadata.
LEMMA TagEffect ==
    ASSUME MapInv, NEW w \in Worker, NEW h \in HostID,
           created' \in {created, created \cup {h}}, UNCHANGED <<host, used, luns>>
    PROVE  ArrayAllowed(w)
  BY Zenon DEF MapInv, TypeOK, ArrayOK, ArrayInv, ArrayFrame, ArrayAllowed, MappedOn, NextMappedOn,
         Live

\* CreateHost: the new host has a new ID and no LUNs.
LEMMA CreateHostEffect ==
    ASSUME MapInv, NEW w \in Worker, NEW n \in Node, NEW h \in HostID \ used,
           host[n] = NoHost, host' = [host EXCEPT ![n] = h], used' = used \cup {h},
           UNCHANGED <<created, luns>>
    PROVE  ArrayAllowed(w) /\ h \in used' /\ \A o \in Node : host'[o] = h => o = n
  <1>1. /\ host \in [Node -> HostOrNone] /\ used \subseteq HostID /\ created \subseteq HostID
        /\ luns \subseteq HostID \X Volume
    BY Zenon DEF MapInv, TypeOK, ArrayOK
  <1>2. host'[n] = h /\ \A o \in Node \ {n} : host'[o] = host[o]
    BY <1>1, Zenon
  <1>3. \A o \in Node : host[o] # NoHost => host[o] \in used
    BY Zenon DEF MapInv, ArrayInv
  <1>4. h # NoHost /\ h \notin used
    BY HostAssumption, Zenon
  <1>5. ArrayOK'
    BY <1>1, Zenon DEF ArrayOK, HostOrNone
  <1>6. ArrayInv'
    <2>1. \A o \in Node : host'[o] # NoHost => host'[o] \in used'
      BY <1>2, <1>3
    <2>2. \A o, q \in Node : host'[o] = host'[q] /\ host'[o] # NoHost => o = q
      BY <1>2, <1>3, <1>4 DEF MapInv, ArrayInv
    <2>3. ASSUME NEW l \in luns PROVE \E o \in Node : host'[o] = l[1]
      <3>1. l[1] # NoHost
        BY <1>1, HostAssumption, Zenon
      <3>2. PICK o \in Node : host[o] = l[1]
        BY Zenon DEF MapInv, ArrayInv, Live
      <3> QED
        BY <1>2, <3>1, <3>2, Zenon
    <2> QED
      BY <2>1, <2>2, <2>3, Zenon DEF ArrayInv, Live
  <1>7. \A a \in NodeAttachment : (NextMappedOn(a) <=> MappedOn(a))
                                  /\ (MappedOn(a) => host'[a[2]] = host[a[2]])
    <2> SUFFICES ASSUME NEW a \in NodeAttachment
                 PROVE  /\ NextMappedOn(a) <=> MappedOn(a)
                        /\ MappedOn(a) => host'[a[2]] = host[a[2]]
      BY Zenon
    <2>1. CASE a[2] = n
      <3>1. ~MappedOn(a)
        BY <2>1, MappedLive, Zenon DEF MappedOn
      <3>2. ~NextMappedOn(a)
        BY <1>2, <1>4, <2>1, MappedLive DEF NextMappedOn
      <3> QED
        BY <3>1, <3>2, Zenon
    <2>2. CASE a[2] # n
      BY <1>2, <2>2 DEF MappedOn, NextMappedOn, NodeAttachment
    <2> QED
      BY <2>1, <2>2, Zenon
  <1>8. ArrayFrame(w)
    BY <1>2, <1>7, Zenon DEF ArrayFrame
  <1> QED
    BY <1>2, <1>3, <1>4, <1>5, <1>6, <1>8, Zenon DEF ArrayAllowed

\* MapVolumeToHost and UnMapVolumeFromHost change one mapping of the host of
\* the node that the handler works for.
LEMMA LunEffect ==
    ASSUME MapInv, NEW w \in Worker, my[w].at \in NodeAttachment, my[w].id \in HostID,
           \A n \in Node : host[n] = my[w].id => n = my[w].at[2],
           \/ luns' = luns
           \/ luns' = luns \cup {<<my[w].id, my[w].at[1]>>} /\ host[my[w].at[2]] = my[w].id
           \/ luns' = luns \ {<<my[w].id, my[w].at[1]>>},
           UNCHANGED <<host, used, created>>
    PROVE  ArrayAllowed(w)
  <1> DEFINE l == <<my[w].id, my[w].at[1]>>
  <1>1. my[w].at[1] \in Volume /\ my[w].at[2] \in Node
    BY Zenon DEF NodeAttachment
  <1>2. ArrayOK'
    BY <1>1 DEF MapInv, TypeOK, ArrayOK
  <1>3. ArrayInv'
    BY <1>1 DEF MapInv, ArrayInv, Live
  <1>4. \A a \in NodeAttachment \ {my[w].at} : NextMappedOn(a) <=> MappedOn(a)
    <2> SUFFICES ASSUME NEW a \in NodeAttachment, a # my[w].at
                 PROVE  NextMappedOn(a) <=> MappedOn(a)
      BY Zenon
    <2>1. a = <<a[1], a[2]>> /\ a[2] \in Node /\ my[w].at = <<my[w].at[1], my[w].at[2]>>
      BY DEF NodeAttachment
    <2>2. <<host[a[2]], a[1]>> # l
      BY <2>1, Zenon
    <2> QED
      BY <2>2, Zenon DEF NextMappedOn, MappedOn
  <1> QED
    BY <1>2, <1>3, <1>4, Zenon DEF ArrayFrame, ArrayAllowed

\* DeleteHost: the host has no LUNs.
LEMMA DeleteHostEffect ==
    ASSUME MapInv, NEW w \in Worker, NEW h \in HostID, Mapped(h) = {},
           \/ host' = [n \in Node |-> IF host[n] = h THEN NoHost ELSE host[n]]
           \/ host' = host,
           created' \subseteq created, UNCHANGED <<used, luns>>
    PROVE  ArrayAllowed(w)
  <1>1. /\ host \in [Node -> HostOrNone] /\ used \subseteq HostID /\ created \subseteq HostID
        /\ luns \subseteq HostID \X Volume
    BY Zenon DEF MapInv, TypeOK, ArrayOK
  <1>2. \A n \in Node : host'[n] = host[n] \/ (host[n] = h /\ host'[n] = NoHost)
    BY <1>1, Zenon
  <1>3. ArrayOK'
    BY <1>1, Zenon DEF ArrayOK, HostOrNone
  <1>4. \A v : <<h, v>> \notin luns /\ <<NoHost, v>> \notin luns
    BY <1>1, HostAssumption, Zenon DEF Mapped
  <1>5. ArrayInv'
    <2>1. \A n \in Node : host'[n] # NoHost => host'[n] \in used'
      BY <1>2, Zenon DEF MapInv, ArrayInv
    <2>2. \A n, o \in Node : host'[n] = host'[o] /\ host'[n] # NoHost => n = o
      BY <1>2, Zenon DEF MapInv, ArrayInv
    <2>3. ASSUME NEW l \in luns PROVE \E n \in Node : host'[n] = l[1]
      <3>1. l = <<l[1], l[2]>>
        BY <1>1
      <3>2. l[1] # h
        BY <1>4, <3>1, Zenon
      <3>3. PICK n \in Node : host[n] = l[1]
        BY Zenon DEF MapInv, ArrayInv, Live
      <3> QED
        BY <1>2, <3>2, <3>3, Zenon
    <2> QED
      BY <2>1, <2>2, <2>3, Zenon DEF ArrayInv, Live
  <1>6. \A a \in NodeAttachment : (NextMappedOn(a) <=> MappedOn(a))
                                  /\ (MappedOn(a) => host'[a[2]] = host[a[2]])
    <2> SUFFICES ASSUME NEW a \in NodeAttachment
                 PROVE  /\ NextMappedOn(a) <=> MappedOn(a)
                        /\ MappedOn(a) => host'[a[2]] = host[a[2]]
      BY Zenon
    <2>1. a[2] \in Node
      BY Zenon DEF NodeAttachment
    <2> QED
      BY <1>2, <1>4, <2>1, Zenon DEF MappedOn, NextMappedOn
  <1>7. \A g \in used, n \in Node : host'[n] = g => host[n] = g
    BY <1>1, <1>2, HostAssumption, Zenon
  <1> QED
    BY <1>3, <1>5, <1>6, <1>7, Zenon DEF ArrayFrame, ArrayAllowed

\* The local variables a handler may go on with.
LEMMA CallTypes ==
    ASSUME NEW m \in CallType, NEW h \in HostOrNone
    PROVE  /\ [m EXCEPT !.id = h] \in CallType
           /\ [m EXCEPT !.id = h].at = m.at /\ [m EXCEPT !.id = h].id = h
  BY Zenon DEF CallType

-----------------------------------------------------------------------------
(* One lemma per group of actions. *)

\* Every step of ControllerPublishVolume keeps the invariant.
LEMMA PublishStepKeeps ==
    ASSUME MapInv, NEW w \in Worker, PublishStep(w)
    PROVE  MapInv'
  <1> DEFINE m == my[w]
             h == my[w].id
             a == my[w].at
  <1>a. m \in CallType /\ h \in HostOrNone /\ faults \in Nat /\ WorkerInv(w)
    BY Zenon DEF MapInv, TypeOK, ProcessOK, CallType
  <1>b. pc[w] \in {"lock"} \cup LockedLabel /\ pc[w] # "idle"
    BY Zenon DEF PublishStep, LockedLabel, LockMutex, GetVolume, ValidateHost, CreateHost, TagHost,
           GetAllLunByHost, MapVolumeTohost
  <1>c. /\ a \in NodeAttachment /\ a[1] \in Volume /\ a[2] \in Node
        /\ h # NoHost => h \in used /\ \A n \in Node : host[n] = h => n = a[2]
    BY <1>a, <1>b, Zenon DEF WorkerInv, NodeAttachment
  <1>d. ReturnError(w) => Proceeds(w)
    BY <1>b, ReturnErrorStep, Zenon
  <1>e. ASSUME UNCHANGED array, Proceeds(w), faults' \in Nat PROVE MapInv'
    BY <1>b, <1>e, ArraySame, ProceedsKeeps, Zenon
  <1>f. ASSUME used' = used, host' = host, pc[w] \in LockedLabel,
               NEW l \in LockedLabel, Goto(w, l, m),
               l \in HasHost \/ (l = "volume" /\ HostFirst) => h # NoHost
        PROVE  Proceeds(w)
    <2>1. l \notin {"unmap", "left", "meta", "deleteHost"} \cup UnpublishLabel
      BY Zenon DEF LockedLabel, UnpublishLabel
    <2> QED
      BY <1>a, <1>b, <1>c, <1>f, <2>1, GotoStep, Zenon DEF Known
  <1>1. CASE LockMutex(w)
    <2>1. UNCHANGED array /\ faults' = faults /\ phase' = phase /\ my' = my
          /\ KubernetesOK' /\ KubernetesFrame(w) /\ pc[w] = "lock"
      BY <1>1, Zenon DEF LockMutex, k8s, MapInv, TypeOK, KubernetesOK, KubernetesFrame
    <2>2. FirstCall \in LockedLabel /\ ~(FirstCall = "volume" /\ HostFirst)
          /\ FirstCall \notin HasHost /\ FirstCall \notin UnpublishLabel
          /\ FirstCall \notin {"unmap", "left", "meta", "deleteHost"}
      BY Zenon DEF FirstCall, LockedLabel, HasHost, UnpublishLabel
    <2>3. ProcessOK' /\ StepOf(w) /\ MutexFrame(w) /\ pc'[w] = FirstCall /\ mutex' = w
      BY <1>1, <2>2, Zenon DEF LockMutex, MapInv, TypeOK, ProcessOK, StepOf, MutexFrame
    <2>4. NextWorkerInv(w)
      BY <1>a, <1>b, <1>c, <2>1, <2>2, <2>3, Zenon DEF NextWorkerInv, WorkerInv, array, Attachment,
          NodeAttachment, Target
    <2>5. NextOwn(w)
      BY <1>b, <2>1, NotAttached, Zenon DEF NextOwn
    <2> QED
      BY <1>a, <1>e, <2>1, <2>3, <2>4, <2>5, Zenon DEF Proceeds
  <1>2. CASE GetVolume(w)
    <2>1. pc[w] = "volume" /\ UNCHANGED array /\ pc[w] \in LockedLabel
      BY <1>2, Zenon DEF GetVolume, LockedLabel
    <2>2. faults' \in Nat
      BY <1>2, <1>a, FaultType, Zenon DEF GetVolume
    <2>3. ASSUME Goto(w, AfterVolume, m) PROVE Proceeds(w)
      <3>1. AfterVolume \in LockedLabel /\ (AfterVolume = "luns" => HostFirst)
            /\ AfterVolume \in {"luns", "host"}
        BY Zenon DEF AfterVolume, LockedLabel
      <3>2. AfterVolume \in HasHost => h # NoHost
        BY <1>a, <2>1, <3>1, Zenon DEF WorkerInv, HasHost
      <3> QED
        BY <1>f, <2>1, <2>3, <3>1, <3>2, Zenon DEF array
    <2> QED
      BY <1>2, <1>d, <1>e, <2>1, <2>2, <2>3, Zenon DEF GetVolume
  <1>3. CASE ValidateHost(w)
    <2>1. pc[w] = "host" /\ UNCHANGED array /\ pc[w] \in LockedLabel /\ host' = host /\ used' = used
      BY <1>3, Zenon DEF ValidateHost, LockedLabel, array
    <2>2. faults' \in Nat
      BY <1>3, <1>a, FaultType, Zenon DEF ValidateHost, HostNotFound
    <2>3. Goto(w, "createHost", m) => Proceeds(w)
      BY <1>f, <2>1, Zenon DEF LockedLabel, HasHost
    <2>4. ASSUME NEW i \in HostID, HostFound(a[2], i), Goto(w, AfterHost, [m EXCEPT !.id = i])
          PROVE  Proceeds(w)
      <3>1. /\ [m EXCEPT !.id = i] \in CallType
            /\ [m EXCEPT !.id = i].at = a /\ [m EXCEPT !.id = i].id = i
        BY <1>a, CallTypes, Zenon DEF HostOrNone
      <3>2. Known(a, i) /\ i # NoHost
        BY <1>c, <2>1, <2>4, Zenon DEF Known, HostFound, MapInv, ArrayInv
      <3>3. AfterHost \in LockedLabel /\ AfterHost \notin UnpublishLabel
            /\ AfterHost \notin {"unmap", "left", "meta", "deleteHost"}
        BY Zenon DEF AfterHost, LockedLabel, UnpublishLabel
      <3> QED
        BY <1>b, <1>c, <2>1, <2>4, <3>1, <3>2, <3>3, GotoStep, Zenon
    <2> QED
      BY <1>3, <1>d, <1>e, <2>1, <2>2, <2>3, <2>4, Zenon DEF ValidateHost
  <1>4. CASE CreateHost(w)
    <2>1. pc[w] = "createHost" /\ pc[w] \in LockedLabel
      BY <1>4, Zenon DEF CreateHost, LockedLabel
    <2>2. CASE ReturnError(w) /\ UNCHANGED array
      <3>1. faults' \in Nat
        BY <1>4, <1>a, FaultType, Zenon DEF CreateHost
      <3> QED
        BY <1>d, <1>e, <2>2, <3>1, Zenon
    <2>3. ASSUME NEW i \in HostID \ used, host[a[2]] = NoHost,
                 host' = [host EXCEPT ![a[2]] = i], used' = used \cup {i},
                 UNCHANGED <<created, luns>>,
                 \/ Goto(w, "tagHost", [m EXCEPT !.id = i]) /\ UNCHANGED faults
                 \/ ReturnError(w) /\ Fault("CreateHost")
          PROVE  MapInv'
      <3>1. ArrayAllowed(w) /\ i \in used' /\ \A n \in Node : host'[n] = i => n = a[2]
        <4>1. \A n \in Node, j \in HostID \ used :
                 host[n] = NoHost /\ host' = [host EXCEPT ![n] = j] /\ used' = used \cup {j}
                 /\ created' = created /\ luns' = luns
                 => ArrayAllowed(w) /\ j \in used' /\ \A o \in Node : host'[o] = j => o = n
          BY CreateHostEffect, Zenon
        <4> HIDE DEF a
        <4> QED
          BY <1>c, <2>3, <4>1, Zenon
      <3>2. faults' \in Nat
        BY <1>a, <2>3, FaultType, Zenon
      <3>3. /\ [m EXCEPT !.id = i] \in CallType
            /\ [m EXCEPT !.id = i].at = a /\ [m EXCEPT !.id = i].id = i
        BY <1>a, CallTypes, Zenon DEF HostOrNone
      <3>4. Known(a, i) /\ i # NoHost
        BY <3>1, HostAssumption, Zenon DEF Known
      <3>5. ASSUME Goto(w, "tagHost", [m EXCEPT !.id = i]) PROVE Proceeds(w)
        BY <1>b, <1>c, <2>1, <3>3, <3>4, <3>5, GotoStep, Zenon DEF LockedLabel, UnpublishLabel
      <3> QED
        BY <1>b, <1>d, <2>3, <3>1, <3>2, <3>5, ProceedsKeeps, Zenon DEF ArrayAllowed
    <2> QED
      BY <1>4, <2>2, <2>3, Zenon DEF CreateHost
  <1>5. CASE TagHost(w)
    <2>1. pc[w] = "tagHost" /\ pc[w] \in LockedLabel /\ h # NoHost
      BY <1>5, <1>a, Zenon DEF TagHost, LockedLabel, WorkerInv, HasHost
    <2>2. faults' \in Nat
      BY <1>5, <1>a, FaultType, Zenon DEF TagHost
    <2>3. CASE ReturnError(w) /\ UNCHANGED array
      BY <1>d, <1>e, <2>2, <2>3, Zenon
    <2>4. ASSUME created' \in {created, created \cup {h}}, UNCHANGED <<host, used, luns>>,
                 Goto(w, AfterHost, m) \/ ReturnError(w)
          PROVE  MapInv'
      <3>1. ArrayAllowed(w)
        BY <1>a, <2>1, <2>4, TagEffect, Zenon DEF HostOrNone
      <3>2. AfterHost \in LockedLabel
        BY Zenon DEF AfterHost, LockedLabel
      <3>3. Proceeds(w)
        BY <1>d, <1>f, <2>1, <2>4, <3>2, Zenon
      <3> QED
        BY <1>b, <2>2, <3>1, <3>3, ProceedsKeeps, Zenon DEF ArrayAllowed
    <2> QED
      BY <1>5, <2>3, <2>4, Zenon DEF TagHost
  <1>6. CASE GetAllLunByHost(w)
    <2>1. pc[w] = "luns" /\ pc[w] \in LockedLabel /\ h # NoHost /\ UNCHANGED array
          /\ host' = host /\ luns' = luns /\ used' = used
      BY <1>6, <1>a, Zenon DEF GetAllLunByHost, LockedLabel, WorkerInv, HasHost, array
    <2>2. faults' \in Nat
      BY <1>6, <1>a, FaultType, Zenon DEF GetAllLunByHost
    <2>3. ASSUME Live(h), a[1] \in Mapped(h), ReturnPublished(w) PROVE Proceeds(w)
      <3>1. host[a[2]] = h
        BY <1>c, <2>1, <2>3, Zenon DEF Live
      <3>2. NextMappedOn(a)
        BY <2>1, <2>3, <3>1, Zenon DEF NextMappedOn, Mapped
      <3> QED
        BY <1>b, <1>c, <2>1, <2>3, <3>1, <3>2, ReturnPublishedStep, Zenon
    <2>4. Goto(w, "map", m) => Proceeds(w)
      BY <1>f, <2>1, Zenon DEF LockedLabel
    <2> QED
      BY <1>6, <1>d, <1>e, <2>1, <2>2, <2>3, <2>4, Zenon DEF GetAllLunByHost
  <1>7. CASE MapVolumeTohost(w)
    <2>1. pc[w] = "map" /\ h # NoHost
      BY <1>7, <1>a, Zenon DEF MapVolumeTohost, WorkerInv, HasHost
    <2>2. faults' \in Nat
      BY <1>7, <1>a, FaultType, Zenon DEF MapVolumeTohost
    <2>3. CASE ReturnError(w) /\ UNCHANGED array
      BY <1>d, <1>e, <2>2, <2>3, Zenon
    <2>4. ASSUME Live(h), NEW out \in Outcome,
                 luns' = IF Done(out) THEN luns \cup {<<h, a[1]>>} ELSE luns,
                 UNCHANGED <<host, used, created>>,
                 IF Ok(out) THEN ReturnPublished(w) ELSE ReturnError(w)
          PROVE  MapInv'
      <3>1. host[a[2]] = h /\ h \in HostID
        BY <1>a, <1>c, <2>1, <2>4, Zenon DEF Live, HostOrNone
      <3>2. ArrayAllowed(w)
        BY <1>c, <2>1, <2>4, <3>1, LunEffect, Zenon
      <3>3. ASSUME Ok(out) PROVE Proceeds(w)
        <4>1. NextMappedOn(a)
          BY <2>4, <3>1, <3>3, Zenon DEF NextMappedOn, Ok, Done
        <4> QED
          BY <1>b, <1>c, <2>4, <3>1, <3>3, <4>1, ReturnPublishedStep, Zenon
      <3>4. Proceeds(w)
        BY <1>d, <2>4, <3>3, Zenon
      <3> QED
        BY <1>b, <2>2, <3>2, <3>4, ProceedsKeeps, Zenon DEF ArrayAllowed
    <2> QED
      BY <1>7, <2>3, <2>4, Zenon DEF MapVolumeTohost
  <1> QED
    BY <1>1, <1>2, <1>3, <1>4, <1>5, <1>6, <1>7, Zenon DEF PublishStep

\* Every step of ControllerUnpublishVolume keeps the invariant.
LEMMA UnpublishStepKeeps ==
    ASSUME MapInv, NEW w \in Worker, UnpublishStep(w)
    PROVE  MapInv'
  <1> DEFINE m == my[w]
             h == my[w].id
             a == my[w].at
  <1>a. m \in CallType /\ h \in HostOrNone /\ faults \in Nat /\ WorkerInv(w)
    BY Zenon DEF MapInv, TypeOK, ProcessOK, CallType
  <1>b. pc[w] \in UnpublishLabel /\ pc[w] # "idle"
    BY Zenon DEF UnpublishStep, UnpublishLabel, DetermineHostName, FindHost, UnmapVolumeFromHost,
           ListLuns, HostCleanup, DeleteHost
  <1>c. /\ a \in Attachment
        /\ pc[w] # "name" => a \in NodeAttachment /\ a[1] \in Volume /\ a[2] \in Node
        /\ h # NoHost => h \in used /\ \A n \in Node : host[n] = h => n = a[2]
    BY <1>a, <1>b, Zenon DEF WorkerInv, NodeAttachment
  <1>d. ReturnError(w) \/ ReturnUnpublished(w) => Proceeds(w)
    BY <1>b, ReturnErrorStep, ReturnUnpublishedStep, Zenon
  <1>e. ASSUME UNCHANGED array, Proceeds(w), faults' \in Nat PROVE MapInv'
    BY <1>b, <1>e, ArraySame, ProceedsKeeps, Zenon
  <1>f. ASSUME used' = used, host' = host, a \in NodeAttachment, h # NoHost, ~NextMappedOn(a),
               NEW l \in {"left", "meta", "deleteHost"}, Goto(w, l, m)
        PROVE  Proceeds(w)
    <2>1. l \in UnpublishLabel \ {"name"} /\ l \notin LockedLabel /\ l # "volume" /\ l # "unmap"
      BY Zenon DEF LockedLabel, UnpublishLabel
    <2> QED
      BY <1>a, <1>b, <1>c, <1>f, <2>1, GotoStep, Zenon DEF Known
  <1>1. CASE DetermineHostName(w)
    <2>1. UNCHANGED array /\ pc[w] = "name" /\ host' = host /\ used' = used
      BY <1>1, Zenon DEF DetermineHostName, array
    <2>2. faults' \in Nat
      BY <1>1, <1>a, FaultType, Zenon DEF DetermineHostName
    <2>3. ASSUME a[2] # AnyNode, Goto(w, "find", m) PROVE Proceeds(w)
      <3>1. a \in NodeAttachment
        BY <1>c, <2>3, Zenon DEF Attachment, NodeAttachment, Target
      <3> QED
        BY <1>a, <1>b, <1>c, <2>1, <2>3, <3>1, GotoStep, Zenon
        DEF Known, UnpublishLabel, LockedLabel, HasHost
    <2> QED
      BY <1>1, <1>d, <1>e, <2>1, <2>2, <2>3, Zenon DEF DetermineHostName
  <1>2. CASE FindHost(w)
    <2>1. UNCHANGED array /\ pc[w] = "find" /\ host' = host /\ used' = used /\ luns' = luns
      BY <1>2, Zenon DEF FindHost, array
    <2>2. faults' \in Nat
      BY <1>2, <1>a, FaultType, Zenon DEF FindHost, HostNotFound
    <2>3. ASSUME NEW i \in HostID, HostFound(a[2], i),
                 Goto(w, UnmapIfAny(i), [m EXCEPT !.id = i])
          PROVE  Proceeds(w)
      <3>1. /\ [m EXCEPT !.id = i] \in CallType
            /\ [m EXCEPT !.id = i].at = a /\ [m EXCEPT !.id = i].id = i
        BY <1>a, CallTypes, Zenon DEF HostOrNone
      <3>2. Known(a, i) /\ i # NoHost /\ host'[a[2]] = i
        BY <1>c, <2>1, <2>3, Zenon DEF Known, HostFound, MapInv, ArrayInv
      <3>3. UnmapIfAny(i) = "left" => ~NextMappedOn(a)
        BY <1>c, <2>1, <3>2, Zenon DEF UnmapIfAny, Mapped, NextMappedOn
      <3>4. UnmapIfAny(i) \in {"unmap", "left"}
        BY Zenon DEF UnmapIfAny
      <3>5. UnmapIfAny(i) \in UnpublishLabel \ {"name"} /\ UnmapIfAny(i) \notin LockedLabel
        BY <3>4, Zenon DEF UnpublishLabel, LockedLabel
      <3> QED
        BY <1>b, <1>c, <2>1, <2>3, <3>1, <3>2, <3>3, <3>4, <3>5, GotoStep, Zenon
    <2> QED
      BY <1>2, <1>d, <1>e, <2>1, <2>2, <2>3, Zenon DEF FindHost
  <1>3. CASE UnmapVolumeFromHost(w)
    <2>1. pc[w] = "unmap" /\ h # NoHost /\ h \in HostID /\ a \in NodeAttachment
      BY <1>3, <1>a, <1>c, Zenon DEF UnmapVolumeFromHost, WorkerInv, HasHost, HostOrNone
    <2>2. faults' \in Nat
      BY <1>3, <1>a, FaultType, Zenon DEF UnmapVolumeFromHost
    <2>3. host[a[2]] # h => ~MappedOn(a)
      BY <1>a, <2>1, Zenon DEF WorkerInv
    <2>4. ASSUME a[1] \notin Mapped(h), Goto(w, "left", m), UNCHANGED array PROVE MapInv'
      <3>1. ~NextMappedOn(a) /\ host' = host /\ used' = used
        BY <1>c, <2>1, <2>3, <2>4, Zenon DEF MappedOn, NextMappedOn, Mapped, array
      <3> QED
        BY <1>e, <1>f, <2>1, <2>2, <2>4, <3>1, Zenon
    <2>5. ASSUME NEW out \in Outcome,
                 luns' = IF Done(out) THEN luns \ Unmapped(h, a[1]) ELSE luns,
                 UNCHANGED <<host, used, created>>,
                 IF Ok(out) THEN Goto(w, "left", m) ELSE ReturnError(w)
          PROVE  MapInv'
      <3>1. luns' = luns \/ luns' = luns \ {<<h, a[1]>>}
        BY <2>5, Zenon DEF Unmapped
      <3>2. ArrayAllowed(w)
        BY <1>c, <2>1, <2>5, <3>1, LunEffect, Zenon
      <3>3. Ok(out) => ~NextMappedOn(a)
        BY <2>3, <2>5, Zenon DEF Ok, Done, Unmapped, MappedOn, NextMappedOn
      <3>4. Proceeds(w)
        BY <1>d, <1>f, <2>1, <2>5, <3>3, Zenon
      <3> QED
        BY <1>b, <2>2, <3>2, <3>4, ProceedsKeeps, Zenon DEF ArrayAllowed
    <2> QED
      BY <1>3, <2>4, <2>5, Zenon DEF UnmapVolumeFromHost, NotFoundIgnored
  <1>4. CASE ListLuns(w) \/ HostCleanup(w)
    <2>1. /\ pc[w] \in {"left", "meta"} /\ h # NoHost /\ a \in NodeAttachment /\ UNCHANGED array
          /\ host' = host /\ luns' = luns /\ used' = used
      BY <1>4, <1>a, <1>c, Zenon DEF ListLuns, HostCleanup, WorkerInv, HasHost, array
    <2>2. faults' \in Nat
      BY <1>4, <1>a, FaultType, Zenon DEF ListLuns, HostCleanup
    <2>3. ~NextMappedOn(a)
      BY <1>a, <2>1, Zenon DEF WorkerInv, MappedOn, NextMappedOn
    <2>4. Goto(w, "meta", m) \/ Goto(w, "deleteHost", m) => Proceeds(w)
      BY <1>f, <2>1, <2>3, Zenon
    <2> QED
      BY <1>4, <1>d, <1>e, <2>1, <2>2, <2>4, Zenon DEF ListLuns, HostCleanup
  <1>5. CASE DeleteHost(w)
    <2>1. pc[w] = "deleteHost" /\ h \in HostID
      BY <1>5, <1>a, Zenon DEF DeleteHost, WorkerInv, HasHost, HostOrNone
    <2>2. faults' \in Nat
      BY <1>5, <1>a, FaultType, Zenon DEF DeleteHost
    <2>3. Proceeds(w)
      BY <1>5, <1>d, Zenon DEF DeleteHost
    <2>4. CASE UNCHANGED array
      BY <1>e, <2>2, <2>3, <2>4, Zenon
    <2>5. ASSUME Mapped(h) = {},
                 \/ host' = [n \in Node |-> IF host[n] = h THEN NoHost ELSE host[n]]
                 \/ host' = host,
                 created' \subseteq created, UNCHANGED <<used, luns>>
          PROVE  MapInv'
      BY <1>b, <2>1, <2>2, <2>3, <2>5, DeleteHostEffect, ProceedsKeeps, Zenon DEF ArrayAllowed
    <2> QED
      BY <1>5, <2>4, <2>5, Zenon DEF DeleteHost
  <1> QED
    BY <1>1, <1>2, <1>3, <1>4, <1>5, Zenon DEF UnpublishStep

\* What Kubernetes does, a crash and a stuttering step keep the invariant.
LEMMA OtherStepKeeps ==
    ASSUME MapInv, [Next]_vars, ~ \E w \in Worker : Step(w)
    PROVE  MapInv'
  <1>1. ASSUME NEW a \in Attachment, Attach(a) \/ Detach(a)
        PROVE  MapInv'
    <2>1. UNCHANGED <<array, context, mutex, pc, my, faults>>
      BY <1>1, Zenon DEF Attach, Detach
    <2>2. \A b \in Attachment \ {a} : phase'[b] = phase[b]
      BY <1>1, Zenon DEF Attach, Detach, MapInv, TypeOK, KubernetesOK
    <2>3. phase'[a] \in {"attaching", "detaching"}
      BY <1>1, Zenon DEF Attach, Detach, MapInv, TypeOK, KubernetesOK
    <2>4. TypeOK'
      BY <1>1 DEF Attach, Detach, MapInv, TypeOK, KubernetesOK, ArrayOK, ProcessOK, array
    <2>5. a \notin NodeAttachment => phase'[a] = "detaching"
      BY <1>1, Zenon DEF Attach, Detach, MapInv, TypeOK, KubernetesOK
    <2>6. phase[a] = "detaching" => phase'[a] = "detaching"
      BY <1>1, NodeAssumption, Zenon DEF Attach, Detach
    <2>7. ASSUME NEW w \in Worker PROVE WorkerInv(w)'
      <3>1. WorkerInv(w)
        BY Zenon DEF MapInv
      <3>2. my[w].at \in Attachment => phase'[my[w].at] = phase[my[w].at] \/ my[w].at = a
        BY <2>2, Zenon
      <3> QED
        BY <2>1, <2>3, <2>6, <3>1, <3>2, Zenon
        DEF WorkerInv, array, MappedOn, UnpublishLabel, LockedLabel
    <2>8. AnyNodeInv'
      <3> SUFFICES ASSUME NEW v \in Volume
                   PROVE  phase'[<<v, AnyNode>>] \in {"detached", "detaching"}
        BY Zenon DEF AnyNodeInv
      <3>1. <<v, AnyNode>> \in Attachment /\ <<v, AnyNode>> \notin NodeAttachment
        BY NodeAssumption, Zenon DEF Attachment, NodeAttachment, Target
      <3> QED
        BY <2>2, <2>5, <3>1, Zenon DEF MapInv, AnyNodeInv
    <2>9. ArrayInv' /\ Exclusive'
      BY <2>1, Zenon DEF MapInv, ArrayInv, Exclusive, array, Live
    <2>10. PublishedMapped'
      BY <2>1, <2>2, <2>3, Zenon
      DEF MapInv, PublishedMapped, NodeAttachment, Attachment, Target, array
    <2> QED
      BY <2>4, <2>7, <2>8, <2>9, <2>10, Zenon DEF MapInv
  <1>2. ASSUME NEW w \in Worker, NEW a \in Attachment, StartPublish(w, a) \/ StartUnpublish(w, a)
        PROVE  MapInv'
    <2>1. UNCHANGED <<array, k8s, mutex, faults>> /\ Free(a)
      BY <1>2, Zenon DEF StartPublish, StartUnpublish, Goto
    <2>2. /\ ProcessOK' /\ StepOf(w) /\ pc'[w] \in {"lock", "name"} /\ my'[w] = Call(a)
          /\ pc'[w] = "lock" => phase[a] = "attaching"
          /\ pc'[w] = "name" => phase[a] = "detaching"
      <3>1. \/ phase[a] = "attaching" /\ Goto(w, "lock", Call(a))
            \/ phase[a] = "detaching" /\ Goto(w, "name", Call(a))
        BY <1>2, Zenon DEF StartPublish, StartUnpublish
      <3>2. ASSUME NEW l \in {"lock", "name"}, Goto(w, l, Call(a))
            PROVE  ProcessOK' /\ StepOf(w) /\ pc'[w] = l /\ my'[w] = Call(a)
        <4>1. l \in {"idle", "lock"} \cup LockedLabel \cup UnpublishLabel
          BY Zenon DEF UnpublishLabel
        <4>2. Call(a) \in [at : Attachment \cup {NoCall.at}, id : HostOrNone]
          BY Zenon DEF HostOrNone
        <4>3. ProcessOK
          BY Zenon DEF MapInv, TypeOK
        <4> HIDE DEF Call
        <4> QED
          BY <3>2, <4>1, <4>2, <4>3, Zenon DEF Goto, ProcessOK, StepOf
      <3> QED
        BY <3>1, <3>2, Zenon
    <2>3. TypeOK' /\ ArrayInv' /\ AnyNodeInv' /\ PublishedMapped'
      BY <2>1, <2>2, Zenon DEF MapInv, TypeOK, ArrayOK, KubernetesOK, ArrayInv, AnyNodeInv,
                        PublishedMapped, array, k8s, Live
    <2>4. Exclusive'
      <3>1. my'[w].at = a
        BY <2>2, SMTT(30)
      <3>2. ASSUME NEW u \in Worker, u # w, pc'[u] # "idle" PROVE my'[u].at # a
        BY <2>1, <2>2, <3>2, Zenon DEF StepOf, Free
      <3>3. ASSUME NEW u \in Worker, NEW x \in Worker, u # w, x # w, u # x,
                   pc'[u] # "idle", pc'[x] # "idle"
            PROVE  my'[u].at # my'[x].at
        <4>1. pc'[u] = pc[u] /\ my'[u] = my[u] /\ pc'[x] = pc[x] /\ my'[x] = my[x]
          BY <2>2, <3>3, Zenon DEF StepOf
        <4> QED
          BY <3>3, <4>1, Zenon DEF MapInv, Exclusive
      <3> QED
        BY <3>1, <3>2, <3>3, Zenon DEF Exclusive
    <2>5. a \notin NodeAttachment => phase[a] # "attaching"
      <3> SUFFICES ASSUME a \notin NodeAttachment PROVE phase[a] # "attaching"
        BY Zenon
      <3>1. a = <<a[1], AnyNode>> /\ a[1] \in Volume
        BY DEF Attachment, NodeAttachment, Target
      <3> QED
        BY <3>1, Zenon DEF MapInv, AnyNodeInv
    <2>6. WorkerInv(w)'
      <3>1. my'[w].at = a /\ my'[w].id = NoHost
        BY <2>2, SMTT(30)
      <3>2. phase'[a] = phase[a]
        BY <2>1, Zenon DEF k8s
      <3>3. CASE pc'[w] = "lock"
        <4>1. a \in NodeAttachment /\ phase'[a] = "attaching"
          BY <2>2, <2>5, <3>2, <3>3, Zenon
        <4> QED
          BY <3>1, <3>3, <4>1, Zenon DEF WorkerInv, LockedLabel, UnpublishLabel, HasHost
      <3>4. CASE pc'[w] = "name"
        <4>1. phase'[a] = "detaching"
          BY <2>2, <3>2, <3>4, Zenon
        <4> QED
          BY <3>1, <3>4, <4>1, Zenon DEF WorkerInv, LockedLabel, UnpublishLabel, HasHost
      <3> QED
        BY <2>2, <3>3, <3>4, Zenon
    <2>7. ASSUME NEW u \in Worker, u # w PROVE WorkerInv(u)'
      <3>1. WorkerInv(u) /\ pc'[u] = pc[u] /\ my'[u] = my[u]
        BY <2>2, <2>7, Zenon DEF MapInv, StepOf
      <3> QED
        BY <2>1, <3>1, Zenon DEF WorkerInv, array, k8s, MappedOn
    <2> QED
      BY <2>3, <2>4, <2>6, <2>7, Zenon DEF MapInv
  <1>3. CASE Crash
    <2>1. /\ UNCHANGED <<array, k8s>> /\ mutex' = NoWorker
          /\ pc' = [w \in Worker |-> "idle"] /\ my' = [w \in Worker |-> NoCall]
      BY <1>3, Zenon DEF Crash
    <2>2. faults' \in Nat
      BY <1>3, FaultType, Zenon DEF Crash, MapInv, TypeOK
    <2>3. ProcessOK'
      BY <2>1, Zenon DEF ProcessOK, HostOrNone
    <2>4. \A w \in Worker : pc'[w] = "idle" /\ my'[w].id = NoHost
      BY <2>1, Zenon
    <2>5. (\A w \in Worker : WorkerInv(w))'
      BY <2>4, Zenon DEF WorkerInv, LockedLabel, UnpublishLabel, HasHost
    <2>6. Exclusive'
      BY <2>4, Zenon DEF Exclusive
    <2> QED
      BY <2>1, <2>2, <2>3, <2>5, <2>6
      DEF MapInv, TypeOK, ArrayOK, KubernetesOK, ArrayInv, AnyNodeInv, PublishedMapped, array,
          k8s, Live
  <1>4. CASE UNCHANGED vars
    <2>1. UNCHANGED <<host, used, created, luns, phase, context, attaches, mutex, pc, my, faults>>
      BY <1>4, Zenon DEF vars, array, k8s
    <2>2. TypeOK' /\ ArrayInv' /\ AnyNodeInv' /\ PublishedMapped' /\ Exclusive'
      BY <2>1, Zenon DEF MapInv, TypeOK, ArrayOK, KubernetesOK, ProcessOK, ArrayInv, AnyNodeInv,
                  PublishedMapped, Exclusive, Live
    <2>3. (\A w \in Worker : WorkerInv(w))'
      BY <2>1, Zenon DEF MapInv, WorkerInv, MappedOn
    <2> QED
      BY <2>2, <2>3, Zenon DEF MapInv
  <1> QED
    BY <1>1, <1>2, <1>3, <1>4, Zenon DEF Next

\* MapInv holds at the start.
LEMMA InitMapInv == Init => MapInv
  <1> SUFFICES ASSUME Init PROVE MapInv
    BY Zenon
  <1>1. ArrayOK /\ KubernetesOK
    BY NodeAssumption, Zenon DEF Init, ArrayOK, KubernetesOK, HostOrNone
  <1>2. ProcessOK /\ faults \in Nat
    BY Zenon DEF Init, ProcessOK, HostOrNone
  <1>3. ArrayInv
    BY Zenon DEF Init, ArrayInv
  <1>4. Exclusive /\ AnyNodeInv /\ PublishedMapped
    BY Zenon DEF Init, Exclusive, AnyNodeInv, PublishedMapped, NodeAttachment, Attachment, Target
  <1>5. \A w \in Worker : WorkerInv(w)
    BY Zenon DEF Init, WorkerInv, LockedLabel, UnpublishLabel, HasHost
  <1> QED
    BY <1>1, <1>2, <1>3, <1>4, <1>5, Zenon DEF MapInv, TypeOK

\* MapInv is an invariant.
LEMMA MapInvariant == Spec => []MapInv
  <1>1. MapInv /\ [Next]_vars => MapInv'
    BY PublishStepKeeps, UnpublishStepKeeps, OtherStepKeeps, Zenon DEF Step
  <1> QED
    BY <1>1, InitMapInv, PTL DEF Spec

\* Every variable keeps its type.
THEOREM HostTypeCorrect == Spec => []TypeOK
  <1>1. MapInv => TypeOK
    BY Zenon DEF MapInv
  <1> QED
    BY <1>1, MapInvariant, PTL

\* A published volume stays mapped, on the host whose ID its node was given,
\* whatever is published and unpublished on the same host at the same time.
THEOREM Published == Spec => []PublishedMapped
  <1>1. MapInv => PublishedMapped
    BY Zenon DEF MapInv
  <1> QED
    BY <1>1, MapInvariant, PTL

-----------------------------------------------------------------------------
(* Unpublished and Limit.  For Unpublished: only a publish adds a mapping,  *)
(* and no host gets the ID of a deleted one.  For Limit: nodeVolumeMutex    *)
(* keeps a second publish away while one counts and maps.                   *)

\* No volume is mapped, and no host gets an ID that was used before.
ShrinkStep ==
    /\ luns' \subseteq luns
    /\ \A n \in Node : host'[n] \in {host[n], NoHost} \/ host'[n] \notin used

\* MapVolumeTohost maps the volume to the host of its node.
GrowStep(w) ==
    /\ pc[w] = "map" /\ Live(my[w].id) /\ host' = host /\ pc'[w] = "idle"
    /\ luns' = luns \cup {<<my[w].id, VolumeOf(w)>>}
    /\ \A a \in Attachment : phase'[a] = "detached" => phase[a] = "detached"

\* What a step of a handler does to the mappings.
LEMMA LunsStep ==
    ASSUME MapInv, NEW w \in Worker, Step(w)
    PROVE  ShrinkStep \/ GrowStep(w)
  <1>1. ASSUME UNCHANGED array \/ UNCHANGED <<host, luns>> PROVE ShrinkStep
    BY <1>1, Zenon DEF ShrinkStep, array
  <1>2. CASE LockMutex(w) \/ GetVolume(w) \/ ValidateHost(w) \/ GetAllLunByHost(w)
    BY <1>1, <1>2, Zenon DEF LockMutex, GetVolume, ValidateHost, GetAllLunByHost
  <1>3. CASE DetermineHostName(w) \/ FindHost(w) \/ ListLuns(w) \/ HostCleanup(w)
    BY <1>1, <1>3, Zenon DEF DetermineHostName, FindHost, ListLuns, HostCleanup
  <1>4. CASE TagHost(w)
    BY <1>1, <1>4, Zenon DEF TagHost
  <1>5. CASE CreateHost(w)
    <2>1. host \in [Node -> HostOrNone]
      BY Zenon DEF MapInv, TypeOK, ArrayOK
    <2>2. ASSUME NEW n, NEW h \in HostID \ used, host' = [host EXCEPT ![n] = h], luns' = luns
          PROVE  ShrinkStep
      BY <2>1, <2>2, Zenon DEF ShrinkStep
    <2> QED
      BY <1>1, <1>5, <2>2, Zenon DEF CreateHost
  <1>6. CASE UnmapVolumeFromHost(w)
    BY <1>1, <1>6, Zenon DEF UnmapVolumeFromHost, ShrinkStep
  <1>7. CASE DeleteHost(w)
    <2>1. ASSUME NEW h, luns' = luns,
                 \/ host' = [n \in Node |-> IF host[n] = h THEN NoHost ELSE host[n]]
                 \/ host' = host
          PROVE  ShrinkStep
      BY <2>1, Zenon DEF ShrinkStep
    <2> QED
      BY <1>1, <1>7, <2>1, Zenon DEF DeleteHost
  <1>8. CASE MapVolumeTohost(w)
    <2>1. CASE luns' = luns /\ host' = host
      BY <1>1, <2>1, Zenon
    <2>2. CASE /\ Live(my[w].id) /\ host' = host /\ luns' # luns
               /\ luns' = luns \cup {<<my[w].id, VolumeOf(w)>>}
               /\ ReturnPublished(w) \/ ReturnError(w)
      <3>1. pc'[w] = "idle" /\ pc[w] = "map"
        BY <1>8, <2>2, Zenon
        DEF MapVolumeTohost, ReturnPublished, ReturnError, Leave, MapInv, TypeOK, ProcessOK
      <3>2. \A a \in Attachment : phase'[a] = "detached" => phase[a] = "detached"
        BY <2>2, Zenon DEF ReturnPublished, ReturnError, k8s, MapInv, TypeOK, KubernetesOK
      <3> QED
        BY <2>2, <3>1, <3>2, Zenon DEF GrowStep
    <2> QED
      BY <1>8, <2>1, <2>2, Zenon DEF MapVolumeTohost, array
  <1> QED
    BY <1>2, <1>3, <1>4, <1>5, <1>6, <1>7, <1>8, Zenon DEF Step, PublishStep, UnpublishStep

\* The lookup that takes an error for "not found".
ErrorAnswers == "GetHostByName answers with an error" \in Failing

\* A detach succeeds only after the volume was unmapped, if no error is taken
\* for "not found".
LEMMA DetachStep ==
    ASSUME MapInv, ~ErrorAnswers \/ faults' = 0, NEW w \in Worker, Step(w), NEW a \in NodeAttachment,
           phase[a] # "detached", phase'[a] = "detached"
    PROVE  ~MappedOn(a)
  <1>1. a \in Attachment /\ phase \in [Attachment -> {"detached", "attaching", "attached",
                                                      "detaching"}]
    BY Zenon DEF NodeAttachment, Attachment, Target, MapInv, TypeOK, KubernetesOK
  <1>2. ASSUME NEW l, NEW m PROVE ~Goto(w, l, m)
    BY Zenon DEF Goto, k8s
  <1>4. ~ReturnError(w) /\ ~ReturnPublished(w)
    BY <1>1, Zenon DEF ReturnError, ReturnPublished, k8s
  <1>5. ASSUME ReturnUnpublished(w) PROVE a = my[w].at
    BY <1>1, <1>5, Zenon DEF ReturnUnpublished
  <1>6. ~PublishStep(w)
    BY <1>2, <1>4, Zenon DEF PublishStep, LockMutex, GetVolume, ValidateHost, CreateHost, TagHost,
                      GetAllLunByHost, MapVolumeTohost, k8s
  <1>7. CASE FindHost(w)
    <2>1. host[NodeOf(w)] = NoHost /\ a = my[w].at
      <3>1. faults \in Nat
        BY Zenon DEF MapInv, TypeOK
      <3>2. \A c : Fault(c) => faults' # 0 /\ c \in Failing
        BY <3>1 DEF Fault
      <3>3. HostNotFound(NodeOf(w)) => host[NodeOf(w)] = NoHost
        BY <3>2, Zenon DEF HostNotFound, ErrorAnswers
      <3> QED
        BY <1>2, <1>4, <1>5, <1>7, <3>3, Zenon DEF FindHost
    <2> QED
      BY <2>1, HostAssumption, Zenon DEF MappedOn, MapInv, TypeOK, ArrayOK
  <1>8. CASE ListLuns(w) \/ HostCleanup(w) \/ DeleteHost(w)
    <2>1. pc[w] \in {"left", "meta", "deleteHost"} /\ a = my[w].at
      BY <1>2, <1>4, <1>5, <1>8, Zenon DEF ListLuns, HostCleanup, DeleteHost
    <2> QED
      BY <2>1, Zenon DEF MapInv, WorkerInv
  <1>9. ~DetermineHostName(w) /\ ~UnmapVolumeFromHost(w)
    BY <1>2, <1>4, Zenon DEF DetermineHostName, UnmapVolumeFromHost, NotFoundIgnored
  <1> QED
    BY <1>6, <1>7, <1>8, <1>9, Zenon DEF Step, UnpublishStep

\* An attachment is the pair of its volume and its node.
LEMMA Pair == \A a \in NodeAttachment : a = <<a[1], a[2]>>
  BY DEF NodeAttachment

\* Every step keeps detached volumes unmapped.
LEMMA DetachedKept ==
    ASSUME MapInv, ~ErrorAnswers \/ faults' = 0, DetachedUnmapped, [Next]_vars
    PROVE  DetachedUnmapped'
  <1> SUFFICES ASSUME NEW a \in NodeAttachment, phase'[a] = "detached"
               PROVE  ~NextMappedOn(a)
    BY Zenon DEF DetachedUnmapped, NextMappedOn
  <1>1. a \in Attachment /\ a[2] \in Node /\ a[1] \in Volume /\ a = <<a[1], a[2]>>
    BY DEF NodeAttachment, Attachment, Target
  <1>2. phase[a] = "detached" => ~MappedOn(a)
    BY Zenon DEF DetachedUnmapped, MappedOn
  <1>3. ASSUME NEW w \in Worker, Step(w) PROVE ~NextMappedOn(a)
    <2>1. ~MappedOn(a) \/ GrowStep(w)
      BY <1>2, <1>3, DetachStep, Zenon
    <2>2. CASE ShrinkStep /\ ~MappedOn(a)
      <3> SUFFICES ASSUME NextMappedOn(a) PROVE FALSE
        BY Zenon
      <3>1. <<host'[a[2]], a[1]>> \in luns
        BY <2>2, Zenon DEF ShrinkStep, NextMappedOn
      <3>2. host'[a[2]] \in used /\ host'[a[2]] # NoHost
        BY <3>1, MappedLive, Zenon
      <3> QED
        BY <1>1, <2>2, <3>1, <3>2, Zenon DEF ShrinkStep, MappedOn
    <2>3. CASE GrowStep(w)
      <3>1. ~MappedOn(a) /\ phase[a] = "detached"
        BY <1>1, <1>2, <2>3, Zenon DEF GrowStep
      <3>2. /\ my[w].at \in NodeAttachment /\ phase[my[w].at] # "detached"
            /\ my[w].id # NoHost => \A n \in Node : host[n] = my[w].id => n = my[w].at[2]
            /\ my[w].id # NoHost
        BY <2>3, Zenon DEF GrowStep, MapInv, WorkerInv, LockedLabel, HasHost
      <3>3. my[w].at = <<my[w].at[1], my[w].at[2]>>
        BY <3>2, Pair, Zenon
      <3> QED
        BY <1>1, <2>3, <3>1, <3>2, <3>3, Zenon DEF GrowStep, NextMappedOn, MappedOn
    <2> QED
      BY <1>3, <2>1, <2>2, <2>3, LunsStep, Zenon
  <1>4. ASSUME UNCHANGED array, phase'[a] = "detached" => phase[a] = "detached"
        PROVE  ~NextMappedOn(a)
    BY <1>2, <1>4, Zenon DEF array, NextMappedOn, MappedOn
  <1>5. ASSUME NEW b \in Attachment, Attach(b) \/ Detach(b) PROVE ~NextMappedOn(a)
    BY <1>1, <1>4, <1>5, Zenon DEF Attach, Detach, MapInv, TypeOK, KubernetesOK
  <1>6. ASSUME NEW w \in Worker, NEW b \in Attachment,
               StartPublish(w, b) \/ StartUnpublish(w, b)
        PROVE  ~NextMappedOn(a)
    BY <1>4, <1>6, Zenon DEF StartPublish, StartUnpublish, Goto, k8s
  <1>7. CASE Crash \/ UNCHANGED vars
    BY <1>4, <1>7, Zenon DEF Crash, vars, k8s
  <1> QED
    BY <1>3, <1>5, <1>6, <1>7, Zenon DEF Next

\* After an unpublish that succeeded the volume is not mapped to the node,
\* provided that no lookup of the host answers with an error that
\* GetHostByName takes for "not found".
THEOREM Unpublished ==
    ASSUME ~ErrorAnswers
    PROVE  Spec => []DetachedUnmapped
  <1>1. Init => DetachedUnmapped
    BY Zenon DEF Init, DetachedUnmapped
  <1>2. MapInv /\ DetachedUnmapped /\ [Next]_vars => DetachedUnmapped'
    BY DetachedKept, Zenon
  <1> QED
    BY <1>1, <1>2, MapInvariant, PTL DEF Spec

NextMapped(h) == {v \in Volume : <<h, v>> \in luns'}

\* The LUNs of a host are finitely many; fewer LUNs are not more.
LEMMA LunCount ==
    ASSUME NEW h
    PROVE  /\ IsFiniteSet(Mapped(h)) /\ IsFiniteSet(NextMapped(h))
           /\ Cardinality(Mapped(h)) \in Nat /\ Cardinality(NextMapped(h)) \in Nat
           /\ luns' \subseteq luns => Cardinality(NextMapped(h)) <= Cardinality(Mapped(h))
  <1>1. IsFiniteSet(Mapped(h)) /\ IsFiniteSet(NextMapped(h))
    <2>1. Mapped(h) \in SUBSET Volume /\ NextMapped(h) \in SUBSET Volume
      BY Zenon DEF Mapped, NextMapped
    <2> QED
      BY <2>1, VolumeAssumption, FS_Subset, Zenon
  <1>2. Cardinality(Mapped(h)) \in Nat /\ Cardinality(NextMapped(h)) \in Nat
    BY <1>1, FS_CardinalityType, Zenon
  <1>3. ASSUME luns' \subseteq luns PROVE Cardinality(NextMapped(h)) <= Cardinality(Mapped(h))
    <2>1. NextMapped(h) \in SUBSET Mapped(h)
      BY <1>3, Zenon DEF Mapped, NextMapped
    <2> QED
      BY <1>1, <2>1, FS_Subset, Zenon
  <1> QED
    BY <1>1, <1>2, <1>3, Zenon

\* A handler about to map has just counted, or is one that counted earlier.
LEMMA CountedStep ==
    ASSUME MapInv, NEW w \in Worker, Step(w), NEW u \in Worker, pc'[u] = "map"
    PROVE  \/ u # w /\ pc[u] = "map" /\ my'[u] = my[u]
           \/ /\ u = w /\ pc[w] = "luns" /\ my'[w] = my[w] /\ luns' = luns
              /\ ~AtLimit(my[w].id)
  <1>1. pc \in [Worker -> {"idle", "lock"} \cup LockedLabel \cup UnpublishLabel]
        /\ my \in [Worker -> CallType]
    BY Zenon DEF MapInv, TypeOK, ProcessOK, CallType
  <1>2. ASSUME NEW l, NEW m, Goto(w, l, m)
        PROVE  /\ pc'[w] = l /\ my'[w] = m
               /\ u # w => pc'[u] = pc[u] /\ my'[u] = my[u]
    BY <1>1, <1>2, Zenon DEF Goto
  <1>3. ASSUME ReturnError(w) \/ ReturnPublished(w) \/ ReturnUnpublished(w)
        PROVE  pc'[w] = "idle" /\ (u # w => pc'[u] = pc[u] /\ my'[u] = my[u])
    BY <1>1, <1>3, Zenon DEF ReturnError, ReturnPublished, ReturnUnpublished, Leave
  <1>4. CASE GetAllLunByHost(w)
    BY <1>2, <1>3, <1>4, Zenon DEF GetAllLunByHost, array
  <1>5. CASE LockMutex(w)
    BY <1>1, <1>5, Zenon DEF LockMutex, FirstCall
  <1>a. \A l, m : l # "map" => ~Goto(w, l, m) \/ (u # w /\ pc[u] = "map" /\ my'[u] = my[u])
    BY <1>2, Zenon
  <1>b. AfterVolume # "map" /\ AfterHost # "map"
    BY Zenon DEF AfterVolume, AfterHost
  <1>6. CASE GetVolume(w) \/ ValidateHost(w) \/ TagHost(w)
    <2>1. CASE GetVolume(w)
      BY <1>a, <1>b, <1>3, <2>1, Zenon DEF GetVolume
    <2>2. CASE ValidateHost(w)
      BY <1>a, <1>b, <1>3, <2>2, Zenon DEF ValidateHost
    <2>3. CASE TagHost(w)
      BY <1>a, <1>b, <1>3, <2>3, Zenon DEF TagHost
    <2> QED
      BY <1>6, <2>1, <2>2, <2>3, Zenon
  <1>7. CASE CreateHost(w)
    BY <1>2, <1>3, <1>7, Zenon DEF CreateHost
  <1>8. CASE MapVolumeTohost(w)
    BY <1>2, <1>3, <1>8, Zenon DEF MapVolumeTohost
  <1>9. CASE UnpublishStep(w)
    <2>1. \A h : UnmapIfAny(h) # "map"
      BY Zenon DEF UnmapIfAny
    <2>2. CASE FindHost(w)
      BY <1>a, <1>3, <2>1, <2>2, Zenon DEF FindHost
    <2>3. CASE DetermineHostName(w) \/ ListLuns(w) \/ HostCleanup(w)
      BY <1>a, <1>3, <2>3, Zenon DEF DetermineHostName, ListLuns, HostCleanup
    <2>4. CASE UnmapVolumeFromHost(w) \/ DeleteHost(w)
      BY <1>a, <1>3, <2>4, Zenon DEF UnmapVolumeFromHost, NotFoundIgnored, DeleteHost
    <2> QED
      BY <1>9, <2>2, <2>3, <2>4, Zenon DEF UnpublishStep
  <1> QED
    BY <1>4, <1>5, <1>6, <1>7, <1>8, <1>9, Zenon DEF Step, PublishStep

\* Every step keeps the limit.
LEMMA LimitKept ==
    ASSUME MapInv, LimitInv, [Next]_vars
    PROVE  LimitInv'
  <1>1. MaxVols \in Nat
    BY VolumeAssumption, Zenon
  <1>2. \A h \in HostID : Cardinality(Mapped(h)) <= MaxVols
    BY Zenon DEF LimitInv, LunLimit
  <1>3. \A u \in Worker : pc[u] = "map" => Cardinality(Mapped(my[u].id)) < MaxVols
    BY Zenon DEF LimitInv
  <1> SUFFICES /\ \A h \in HostID : Cardinality(NextMapped(h)) <= MaxVols
               /\ \A u \in Worker : pc'[u] = "map" => Cardinality(NextMapped(my'[u].id)) < MaxVols
    BY Zenon DEF LimitInv, LunLimit, Mapped, NextMapped
  <1>4. ASSUME luns' \subseteq luns,
               \A u \in Worker : pc'[u] = "map" =>
                    (pc[u] = "map" /\ my'[u] = my[u]) \/ ~AtLimit(my'[u].id)
        PROVE  /\ \A h \in HostID : Cardinality(NextMapped(h)) <= MaxVols
               /\ \A u \in Worker : pc'[u] = "map" =>
                    Cardinality(NextMapped(my'[u].id)) < MaxVols
    <2>1. \A h : /\ Cardinality(Mapped(h)) \in Nat /\ Cardinality(NextMapped(h)) \in Nat
                 /\ Cardinality(NextMapped(h)) <= Cardinality(Mapped(h))
      BY <1>4, LunCount, Zenon
    <2> QED
      BY <1>1, <1>2, <1>3, <1>4, <2>1, SMTT(30) DEF AtLimit
  <1>5. ASSUME NEW w \in Worker, Step(w), ShrinkStep
        PROVE  /\ \A h \in HostID : Cardinality(NextMapped(h)) <= MaxVols
               /\ \A u \in Worker : pc'[u] = "map" =>
                    Cardinality(NextMapped(my'[u].id)) < MaxVols
    <2>1. luns' \subseteq luns
      BY <1>5, Zenon DEF ShrinkStep
    <2>2. \A u \in Worker : pc'[u] = "map" =>
                    (pc[u] = "map" /\ my'[u] = my[u]) \/ ~AtLimit(my'[u].id)
      BY <1>5, CountedStep, Zenon
    <2> QED
      BY <1>4, <2>1, <2>2, Zenon
  <1>6. ASSUME NEW w \in Worker, Step(w), GrowStep(w)
        PROVE  /\ \A h \in HostID : Cardinality(NextMapped(h)) <= MaxVols
               /\ \A u \in Worker : pc'[u] = "map" =>
                    Cardinality(NextMapped(my'[u].id)) < MaxVols
    <2> DEFINE g == my[w].id
               v == VolumeOf(w)
    <2>1. pc[w] = "map" /\ luns' = luns \cup {<<g, v>>} /\ pc'[w] = "idle"
      BY <1>6, Zenon DEF GrowStep
    <2>2. v \in Volume
      BY <2>1, Zenon DEF MapInv, WorkerInv, LockedLabel, NodeAttachment
    <2>3. Cardinality(Mapped(g)) < MaxVols /\ Cardinality(Mapped(g)) \in Nat
      BY <1>3, <2>1, LunCount, Zenon
    <2>4. Cardinality(NextMapped(g)) <= MaxVols
      <3>1. NextMapped(g) = Mapped(g) \cup {v}
        BY <2>1, <2>2, Zenon DEF NextMapped, Mapped
      <3>2. IsFiniteSet(Mapped(g))
        BY LunCount, Zenon
      <3>3. Cardinality(NextMapped(g)) \in {Cardinality(Mapped(g)), Cardinality(Mapped(g)) + 1}
        BY <3>1, <3>2, FS_AddElement, Zenon
      <3> QED
        BY <1>1, <2>3, <3>3
    <2>5. ASSUME NEW h, h # g PROVE NextMapped(h) = Mapped(h)
      BY <2>1, <2>5, Zenon DEF NextMapped, Mapped
    <2>6. ASSUME NEW u \in Worker PROVE pc'[u] # "map"
      <3>1. pc'[u] = "map" => u # w /\ pc[u] = "map"
        BY <1>6, <2>1, CountedStep, Zenon
      <3>2. pc[u] = "map" => mutex = u
        BY Zenon DEF MapInv, WorkerInv, LockedLabel
      <3>3. mutex = w
        BY <2>1, Zenon DEF MapInv, WorkerInv, LockedLabel
      <3> QED
        BY <3>1, <3>2, <3>3, Zenon
    <2> QED
      BY <1>2, <2>4, <2>5, <2>6, Zenon
  <1>7. ASSUME UNCHANGED array,
               \A u \in Worker : pc'[u] = "map" => pc[u] = "map" /\ my'[u] = my[u]
        PROVE  /\ \A h \in HostID : Cardinality(NextMapped(h)) <= MaxVols
               /\ \A u \in Worker : pc'[u] = "map" =>
                    Cardinality(NextMapped(my'[u].id)) < MaxVols
    BY <1>4, <1>7, Zenon DEF array
  <1>8. ASSUME NEW b \in Attachment, Attach(b) \/ Detach(b)
        PROVE  UNCHANGED array /\ UNCHANGED <<pc, my>>
    BY <1>8, Zenon DEF Attach, Detach
  <1>9. ASSUME NEW w \in Worker, NEW b \in Attachment,
               StartPublish(w, b) \/ StartUnpublish(w, b)
        PROVE  /\ UNCHANGED array
               /\ \A u \in Worker : pc'[u] = "map" => pc[u] = "map" /\ my'[u] = my[u]
    BY <1>9, Zenon DEF StartPublish, StartUnpublish, Goto, MapInv, TypeOK, ProcessOK
  <1>10. ASSUME Crash \/ UNCHANGED vars
         PROVE  /\ UNCHANGED array
                /\ \A u \in Worker : pc'[u] = "map" => pc[u] = "map" /\ my'[u] = my[u]
    BY <1>10, Zenon DEF Crash, vars
  <1> QED
    BY <1>5, <1>6, <1>7, <1>8, <1>9, <1>10, LunsStep, Zenon DEF Next

\* No host ever has more than max_vols_per_host LUNs: what publish counted
\* under nodeVolumeMutex still bounds the LUNs when it maps.
THEOREM Limit == Spec => []LunLimit
  <1>1. Init => LimitInv
    <2> SUFFICES ASSUME Init PROVE LimitInv
      BY Zenon
    <2>1. \A h : Mapped(h) = {}
      BY Zenon DEF Init, Mapped
    <2>2. \A h : Cardinality(Mapped(h)) <= MaxVols
      BY <2>1, FS_EmptySet, VolumeAssumption
    <2>3. \A w \in Worker : pc[w] # "map"
      BY Zenon DEF Init
    <2> QED
      BY <2>2, <2>3, Zenon DEF LimitInv, LunLimit
  <1>2. MapInv /\ LimitInv /\ [Next]_vars => LimitInv'
    BY LimitKept, Zenon
  <1>3. LimitInv => LunLimit
    BY Zenon DEF LimitInv
  <1> QED
    BY <1>1, <1>2, <1>3, MapInvariant, PTL DEF Spec

-----------------------------------------------------------------------------
(* NoHostLeft.  As long as nothing failed, each host the driver created has *)
(* a keeper: an attachment that is not detached and whose unpublish, if it   *)
(* runs, works on this very host and not on an earlier one of the node.      *)

Removing == {"unmap", "left", "meta", "deleteHost"}

\* Attachment a keeps the host of its node.
Keeps(a) ==
    /\ phase[a] # "detached"
    /\ \A w \in Worker : my[w].at = a /\ pc[w] \in Removing => my[w].id = host[a[2]]

\* A host carries its metadata from the call after its creation on.
Tagged(n) == host[n] \in created \/ \E w \in Worker : pc[w] = "tagHost" /\ my[w].id = host[n]

CleanInv ==
    faults = 0 =>
        /\ DetachedUnmapped
        /\ \A n \in Node \ AdminHost : host[n] # NoHost =>
              Tagged(n) /\ \E v \in Volume : Keeps(<<v, n>>)

\* No host appears or disappears.
HostsStay(w) ==
    /\ host' = host /\ created \subseteq created'
    /\ pc[w] = "tagHost" => my[w].id \in created' \/ ~Live(my[w].id)

HostAppears(w) ==
    /\ pc[w] = "createHost" /\ pc'[w] = "tagHost" /\ my'[w].at = my[w].at
    /\ host' = [host EXCEPT ![NodeOf(w)] = my'[w].id]
    /\ created' = created /\ phase' = phase

HostGoes(w) ==
    /\ pc[w] = "deleteHost"
    /\ host' = [n \in Node |-> IF host[n] = my[w].id THEN NoHost ELSE host[n]]
    /\ created' = created \ {my[w].id}

\* Why an unpublish may end: the host is gone, it is not the one the handler
\* worked on, it has other LUNs, or its metadata is still to come.
MayEnd(w) ==
    /\ my[w].at \in NodeAttachment
    /\ \/ host'[NodeOf(w)] = NoHost
       \/ pc[w] \in Removing /\ host[NodeOf(w)] # my[w].id
       \/ pc[w] = "left" /\ Live(my[w].id) /\ Mapped(my[w].id) # {}
       \/ pc[w] = "meta" /\ my[w].id \notin created

\* What a step of w that meets no fault does.
CleanStep(w) ==
    /\ StepOf(w)
    /\ \A b \in Attachment \ {my[w].at} : phase'[b] = phase[b]
    /\ HostsStay(w) \/ HostAppears(w) \/ HostGoes(w)
    /\ pc'[w] \in Removing =>
          /\ my'[w].at = my[w].at
          /\ my'[w].id = host'[NodeOf(w)] \/ (pc[w] \in Removing /\ my'[w].id = my[w].id)
    /\ phase'[my[w].at] = "detached" => MayEnd(w)

\* Such a step leaves every host a keeper.
LEMMA CleanKept ==
    ASSUME MapInv, CleanInv, faults = 0, DetachedUnmapped', NEW w \in Worker, pc[w] # "idle", CleanStep(w)
    PROVE  CleanInv'
<1>0. /\ host \in [Node -> HostOrNone] /\ \A x \in Worker : WorkerInv(x)
      /\ \A u, x \in Worker : u # x /\ pc[u] # "idle" /\ pc[x] # "idle" => my[u].at # my[x].at
  BY Zenon DEF MapInv, TypeOK, ArrayOK, Exclusive
<1>1. \A x \in Worker \ {w} : pc'[x] = pc[x] /\ my'[x] = my[x]
  BY Zenon DEF CleanStep, StepOf
<1>2. \A n \in Node \ AdminHost : host[n] # NoHost => Tagged(n) /\ \E v \in Volume : Keeps(<<v, n>>)
  BY Zenon DEF CleanInv
<1>3. DetachedUnmapped
  BY Zenon DEF CleanInv
<1> SUFFICES ASSUME NEW n \in Node \ AdminHost, host'[n] # NoHost
             PROVE  Tagged(n)' /\ \E v \in Volume : Keeps(<<v, n>>)'
  BY Zenon DEF CleanInv
<1>4. CASE HostAppears(w) /\ n = NodeOf(w)
  <2>1. pc'[w] = "tagHost" /\ my'[w].id = host'[n] /\ my'[w].at = my[w].at /\ phase' = phase /\ pc[w] = "createHost"
    BY <1>0, <1>4, Zenon DEF HostAppears
  <2>2. Tagged(n)'
    BY <2>1, Zenon DEF Tagged
  <2>3. my[w].at \in NodeAttachment /\ phase[my[w].at] # "detached"
    BY <1>0, <2>1, Zenon DEF WorkerInv, LockedLabel
  <2>4. PICK v \in Volume : my[w].at = <<v, n>>
    BY <1>4, <2>3, SMTT(30) DEF NodeAttachment
  <2>5. \A x \in Worker : my'[x].at = <<v, n>> /\ pc'[x] \in Removing => FALSE
    BY <1>0, <1>1, <2>1, <2>4, Zenon DEF Removing
  <2>6. Keeps(<<v, n>>)'
    BY <2>1, <2>3, <2>4, <2>5, Zenon DEF Keeps
  <2> QED
    BY <2>2, <2>6, Zenon
<1>5. CASE ~(HostAppears(w) /\ n = NodeOf(w))
  <2>1. host'[n] = host[n]
    BY <1>0, <1>5, Zenon DEF CleanStep, HostsStay, HostAppears, HostGoes
  <2>2. Tagged(n) /\ \E v \in Volume : Keeps(<<v, n>>)
    BY <1>2, <2>1, Zenon
  <2>3. Tagged(n)'
    <3>1. CASE HostsStay(w)
      <4>1. CASE host[n] \in created
        BY <2>1, <3>1, <4>1, Zenon DEF HostsStay, Tagged
      <4>2. ASSUME NEW x \in Worker, pc[x] = "tagHost", my[x].id = host[n]
            PROVE  Tagged(n)'
        BY <1>1, <2>1, <3>1, <4>2, Zenon DEF HostsStay, Tagged, Live
      <4> QED
        BY <2>2, <4>1, <4>2, Zenon DEF Tagged
    <3>2. CASE HostAppears(w) \/ HostGoes(w)
      <4>1. pc[w] # "tagHost" /\ (host[n] \in created => host[n] \in created')
        BY <1>0, <2>1, <3>2, Zenon DEF HostAppears, HostGoes
      <4> QED
        BY <1>1, <2>1, <2>2, <4>1, Zenon DEF Tagged
    <3> QED
      BY <3>1, <3>2, Zenon DEF CleanStep
  <2>4. PICK v \in Volume : Keeps(<<v, n>>)
    BY <2>2, Zenon
  <2>5. <<v, n>> \in NodeAttachment /\ <<v, n>> \in Attachment /\ <<v, n>>[2] = n /\ <<v, n>>[1] = v
    BY Zenon DEF NodeAttachment, Attachment, Target
  <2>6. CASE phase'[<<v, n>>] # "detached"
    <3>1. ASSUME NEW x \in Worker, my'[x].at = <<v, n>>, pc'[x] \in Removing
          PROVE  my'[x].id = host'[n]
      <4>1. CASE x # w
        BY <1>1, <2>1, <2>4, <2>5, <3>1, <4>1, Zenon DEF Keeps
      <4>2. CASE x = w
        BY <2>1, <2>4, <2>5, <3>1, <4>2, Zenon DEF Keeps, CleanStep
      <4> QED
        BY <4>1, <4>2, Zenon
    <3>2. Keeps(<<v, n>>)'
      BY <2>5, <2>6, <3>1, Zenon DEF Keeps
    <3> QED
      BY <2>3, <3>2, Zenon
  <2>7. CASE phase'[<<v, n>>] = "detached"
    <3>1. my[w].at = <<v, n>> /\ MayEnd(w)
      BY <2>4, <2>5, <2>7, Zenon DEF Keeps, CleanStep
    <3>2. pc[w] \in Removing => my[w].id = host[n]
      BY <2>4, <2>5, <3>1, Zenon DEF Keeps
    <3>3. ASSUME NEW u \in Volume, u # v, phase[<<u, n>>] # "detached",
                 \A x \in Worker : my[x].at = <<u, n>> /\ pc[x] \in Removing => my[x].id = host[n]
          PROVE  Keeps(<<u, n>>)'
      <4>1. <<u, n>> \in Attachment /\ <<u, n>> # my[w].at /\ <<u, n>>[2] = n
        BY <3>1, <3>3, SMTT(30) DEF Attachment, Target
      <4>2. phase'[<<u, n>>] # "detached"
        BY <3>3, <4>1, Zenon DEF CleanStep
      <4>3. ASSUME NEW x \in Worker, my'[x].at = <<u, n>>, pc'[x] \in Removing
            PROVE  my'[x].id = host'[n]
        BY <1>1, <2>1, <3>3, <4>1, <4>3, Zenon DEF CleanStep
      <4> QED
        BY <4>1, <4>2, <4>3, Zenon DEF Keeps
    <3>4. CASE pc[w] = "left" /\ Live(my[w].id) /\ Mapped(my[w].id) # {}
      <4>1. my[w].id = host[n]
        BY <3>2, <3>4, Zenon DEF Removing
      <4>2. PICK u \in Volume : <<host[n], u>> \in luns
        BY <3>4, <4>1, Zenon DEF Mapped
      <4>3. MappedOn(<<u, n>>) /\ ~MappedOn(<<v, n>>) /\ <<u, n>> \in NodeAttachment
        BY <1>0, <3>1, <3>4, <4>2, Zenon DEF MappedOn, WorkerInv, NodeAttachment
      <4>4. phase[<<u, n>>] # "detached" /\ u # v
        BY <1>3, <4>3, Zenon DEF DetachedUnmapped, MappedOn
      <4>5. ASSUME NEW x \in Worker, my[x].at = <<u, n>>, pc[x] \in Removing
            PROVE  my[x].id = host[n]
        <5>1. my[x].at[2] = n
          BY <4>5
        <5> QED
          BY <1>0, <4>3, <4>5, <5>1, Zenon DEF WorkerInv, Removing
      <4> QED
        BY <2>3, <3>3, <4>4, <4>5, Zenon
    <3>5. CASE pc[w] = "meta" /\ my[w].id \notin created
      <4>1. host[n] \notin created
        BY <3>2, <3>5, Zenon DEF Removing
      <4>2. PICK x \in Worker : pc[x] = "tagHost" /\ my[x].id = host[n]
        BY <2>2, <4>1, Zenon DEF Tagged
      <4>3. /\ my[x].at \in NodeAttachment /\ phase[my[x].at] \in {"attaching", "detaching"} /\ my[x].at[2] = n
            /\ my[x].at # my[w].at
        BY <1>0, <2>1, <3>5, <4>2, Zenon DEF WorkerInv, LockedLabel
      <4>4. PICK u \in Volume : my[x].at = <<u, n>>
        BY <4>3, SMTT(30) DEF NodeAttachment
      <4>5. \A y \in Worker : my[y].at = <<u, n>> /\ pc[y] \in Removing => FALSE
        BY <1>0, <4>2, <4>4, Zenon DEF Removing
      <4>6. u # v /\ phase[<<u, n>>] # "detached"
        BY <3>1, <4>3, <4>4, Zenon
      <4> QED
        BY <2>3, <3>3, <4>5, <4>6, Zenon
    <3> QED
      BY <2>1, <2>5, <3>1, <3>2, <3>4, <3>5, Zenon DEF MayEnd
  <2> QED
    BY <2>6, <2>7, Zenon
<1> QED
  BY <1>4, <1>5, Zenon

\* Without a fault no call fails.
LEMMA NoFault ==
    ASSUME MapInv, faults' = 0
    PROVE  /\ \A c : ~Fault(c)
           /\ \A c, o : Charge(c, o) => Ok(o) /\ faults' = faults
           /\ UNCHANGED faults => faults = 0
<1>1. faults \in Nat
  BY Zenon DEF MapInv, TypeOK
<1>2. \A c : ~Fault(c)
  BY <1>1 DEF Fault
<1> QED
  BY <1>2, Zenon DEF Charge

\* The handler goes on.
LEMMA CleanGoto ==
    ASSUME MapInv, NEW w \in Worker, pc[w] # "idle", NEW l, NEW m, Goto(w, l, m), m.at = my[w].at,
           HostsStay(w) \/ (pc[w] = "createHost" /\ l = "tagHost" /\ created' = created
                            /\ host' = [host EXCEPT ![NodeOf(w)] = m.id]),
           l \in Removing => m.id = host'[NodeOf(w)] \/ (pc[w] \in Removing /\ m.id = my[w].id)
    PROVE  CleanStep(w)
<1>1. pc \in [Worker -> {"idle", "lock"} \cup LockedLabel \cup UnpublishLabel] /\ my \in [Worker -> CallType]
  BY Zenon DEF MapInv, TypeOK, ProcessOK, CallType
<1>2. StepOf(w) /\ pc'[w] = l /\ my'[w] = m /\ phase' = phase
  BY <1>1, Zenon DEF Goto, StepOf, k8s
<1>3. phase'[my[w].at] # "detached"
  BY <1>2, NotAttached, Zenon
<1>4. HostsStay(w) \/ HostAppears(w)
  BY <1>2, Zenon DEF HostAppears
<1> QED
  BY <1>2, <1>3, <1>4, Zenon DEF CleanStep

\* The handler returns; the attachment is detached only if it may be.
LEMMA CleanReturn ==
    ASSUME MapInv, NEW w \in Worker, pc[w] # "idle",
           \/ ReturnError(w) \/ ReturnPublished(w)
           \/ ReturnUnpublished(w) /\ MayEnd(w),
           HostsStay(w) \/ HostGoes(w)
    PROVE  CleanStep(w)
<1>1. pc \in [Worker -> {"idle", "lock"} \cup LockedLabel \cup UnpublishLabel] /\ my \in [Worker -> CallType]
  BY Zenon DEF MapInv, TypeOK, ProcessOK, CallType
<1>2. StepOf(w) /\ pc'[w] = "idle"
  BY <1>1, Zenon DEF ReturnError, ReturnPublished, ReturnUnpublished, Leave, StepOf
<1>3. my[w].at \in Attachment /\ phase[my[w].at] \in {"attaching", "detaching"}
  BY NotAttached, Zenon
<1>4. phase \in [Attachment -> {"detached", "attaching", "attached", "detaching"}]
  BY Zenon DEF MapInv, TypeOK, KubernetesOK
<1>5. \A b \in Attachment \ {my[w].at} : phase'[b] = phase[b]
  BY <1>4, Zenon DEF ReturnError, ReturnPublished, ReturnUnpublished, k8s
<1>6. phase'[my[w].at] = "detached" => MayEnd(w)
  BY <1>3, <1>4, Zenon DEF ReturnError, ReturnPublished, k8s
<1> QED
  BY <1>2, <1>5, <1>6, Zenon DEF CleanStep, Removing

\* The calls of ControllerPublishVolume.
LEMMA PublishClean ==
    ASSUME MapInv, NEW w \in Worker, PublishStep(w), faults' = 0
    PROVE  CleanStep(w) /\ faults = 0 /\ pc[w] # "idle"
<1>0. /\ my[w].at \in Attachment \cup {NoCall.at} /\ my[w] \in CallType
      /\ pc \in [Worker -> {"idle", "lock"} \cup LockedLabel \cup UnpublishLabel]
  BY Zenon DEF MapInv, TypeOK, ProcessOK, CallType
<1>1. pc[w] # "tagHost" /\ UNCHANGED array => HostsStay(w)
  BY Zenon DEF HostsStay, array
<1>2. \A l, m : pc[w] # "idle" /\ Goto(w, l, m) /\ m.at = my[w].at /\ l \notin Removing /\ HostsStay(w) => CleanStep(w)
  BY CleanGoto, Zenon
<1>3. pc[w] # "idle" /\ (ReturnError(w) \/ ReturnPublished(w)) /\ HostsStay(w) => CleanStep(w)
  BY CleanReturn, Zenon
<1>4. AfterVolume \notin Removing /\ AfterHost \notin Removing /\ FirstCall \notin Removing
  BY Zenon DEF AfterVolume, AfterHost, FirstCall, Removing
<1>5. CASE LockMutex(w)
  <2>1. pc[w] = "lock" /\ pc' = [pc EXCEPT ![w] = FirstCall] /\ UNCHANGED <<array, k8s, my, faults>>
    BY <1>5, Zenon DEF LockMutex
  <2>2. StepOf(w) /\ phase' = phase /\ pc'[w] = FirstCall
    BY <1>0, <2>1, Zenon DEF StepOf, k8s
  <2>3. phase'[my[w].at] # "detached"
    BY <2>1, <2>2, NotAttached, Zenon
  <2> QED
    BY <1>1, <1>4, <2>1, <2>2, <2>3, Zenon DEF CleanStep
<1>6. CASE GetVolume(w)
  <2>1. pc[w] = "volume" /\ UNCHANGED array
    BY <1>6, Zenon DEF GetVolume
  <2>2. (ReturnError(w) \/ Goto(w, AfterVolume, my[w])) /\ UNCHANGED faults
    BY <1>6, NoFault, Zenon DEF GetVolume
  <2> QED
    BY <1>1, <1>2, <1>3, <1>4, <2>1, <2>2, NoFault, Zenon
<1>7. CASE ValidateHost(w)
  <2>1. pc[w] = "host" /\ UNCHANGED array
    BY <1>7, Zenon DEF ValidateHost
  <2>2. UNCHANGED faults /\ \/ Goto(w, "createHost", my[w])
                            \/ \E h \in HostID : Goto(w, AfterHost, [my[w] EXCEPT !.id = h])
    BY <1>7, NoFault, Zenon DEF ValidateHost, HostNotFound
  <2>3. \A h \in HostID : [my[w] EXCEPT !.id = h].at = my[w].at
    BY <1>0, Zenon DEF CallType
  <2>4. "createHost" \notin Removing
    BY Zenon DEF Removing
  <2> QED
    BY <1>1, <1>2, <1>4, <2>1, <2>2, <2>3, <2>4, NoFault, Zenon
<1>8. CASE CreateHost(w)
  <2>1. pc[w] = "createHost"
    BY <1>8, Zenon DEF CreateHost
  <2>2. UNCHANGED faults /\ \/ ReturnError(w) /\ UNCHANGED array
                            \/ \E h \in HostID : /\ host' = [host EXCEPT ![NodeOf(w)] = h] /\ created' = created
                                                 /\ Goto(w, "tagHost", [my[w] EXCEPT !.id = h])
    BY <1>8, NoFault, Zenon DEF CreateHost
  <2>3. CASE ReturnError(w) /\ UNCHANGED array
    BY <1>1, <1>3, <2>1, <2>2, <2>3, NoFault, Zenon
  <2>4. ASSUME NEW h \in HostID, host' = [host EXCEPT ![NodeOf(w)] = h], created' = created,
               Goto(w, "tagHost", [my[w] EXCEPT !.id = h])
        PROVE  CleanStep(w)
    <3>1. [my[w] EXCEPT !.id = h].at = my[w].at /\ [my[w] EXCEPT !.id = h].id = h /\ "tagHost" \notin Removing
      BY <1>0, Zenon DEF CallType, Removing
    <3> QED
      BY <2>1, <2>4, <3>1, CleanGoto, Zenon
  <2> QED
    BY <2>1, <2>2, <2>3, <2>4, NoFault, Zenon
<1>9. CASE TagHost(w)
  <2>1. pc[w] = "tagHost"
    BY <1>9, Zenon DEF TagHost
  <2>2. UNCHANGED faults /\ \/ ReturnError(w) /\ UNCHANGED array /\ ~Live(my[w].id)
                            \/ created' = created \cup {my[w].id} /\ host' = host /\ Goto(w, AfterHost, my[w])
    <3>1. \A o : Ok(o) => Done(o)
      BY Zenon DEF Ok, Done
    <3> QED
      BY <1>9, <3>1, NoFault, Zenon DEF TagHost
  <2>3. HostsStay(w)
    BY <2>2, Zenon DEF HostsStay, array
  <2> QED
    BY <1>2, <1>3, <1>4, <2>1, <2>2, <2>3, NoFault, Zenon
<1>10. CASE GetAllLunByHost(w)
  <2>1. pc[w] = "luns" /\ UNCHANGED array
    BY <1>10, Zenon DEF GetAllLunByHost
  <2>2. UNCHANGED faults /\ (ReturnError(w) \/ ReturnPublished(w) \/ Goto(w, "map", my[w]))
    BY <1>10, NoFault, Zenon DEF GetAllLunByHost
  <2>3. "map" \notin Removing
    BY Zenon DEF Removing
  <2> QED
    BY <1>1, <1>2, <1>3, <2>1, <2>2, <2>3, NoFault, Zenon
<1>11. CASE MapVolumeTohost(w)
  <2>1. pc[w] = "map" /\ host' = host /\ created' = created
    BY <1>11, Zenon DEF MapVolumeTohost, array
  <2>2. UNCHANGED faults /\ (ReturnError(w) \/ ReturnPublished(w))
    BY <1>11, NoFault, Zenon DEF MapVolumeTohost
  <2>3. HostsStay(w)
    BY <2>1, Zenon DEF HostsStay
  <2> QED
    BY <1>3, <2>1, <2>2, <2>3, NoFault, Zenon
<1> QED
  BY <1>5, <1>6, <1>7, <1>8, <1>9, <1>10, <1>11, Zenon DEF PublishStep

\* The calls of ControllerUnpublishVolume.
LEMMA UnpublishClean ==
    ASSUME MapInv, NEW w \in Worker, UnpublishStep(w), faults' = 0
    PROVE  CleanStep(w) /\ faults = 0 /\ pc[w] # "idle"
<1>0. /\ my[w] \in CallType
      /\ pc[w] \in Removing \cup {"find"} => my[w].at \in NodeAttachment /\ NodeOf(w) \in Node
      /\ pc[w] \in Removing => my[w].id # NoHost
      /\ my[w].id # NoHost => \A n \in Node : host[n] = my[w].id => n = NodeOf(w)
  BY Zenon DEF MapInv, TypeOK, ProcessOK, CallType, WorkerInv, UnpublishLabel, Removing, HasHost, NodeAttachment
<1>1. pc[w] # "tagHost" /\ UNCHANGED array => HostsStay(w)
  BY Zenon DEF HostsStay, array
<1>2. \A l : pc[w] \in Removing /\ Goto(w, l, my[w]) /\ HostsStay(w) => CleanStep(w)
  <2>1. "idle" \notin Removing
    BY Zenon DEF Removing
  <2> QED
    BY <2>1, CleanGoto, Zenon
<1>3. pc[w] # "idle" /\ ReturnError(w) /\ HostsStay(w) => CleanStep(w)
  BY CleanReturn, Zenon
<1>4. pc[w] # "idle" /\ ReturnUnpublished(w) /\ MayEnd(w) /\ HostsStay(w) => CleanStep(w)
  BY CleanReturn, Zenon
<1>5. CASE DetermineHostName(w)
  <2>1. pc[w] = "name" /\ UNCHANGED array
    BY <1>5, Zenon DEF DetermineHostName
  <2>2. UNCHANGED faults /\ (ReturnError(w) \/ Goto(w, "find", my[w]))
    BY <1>5, NoFault, Zenon DEF DetermineHostName
  <2>3. Goto(w, "find", my[w]) => CleanStep(w)
    <3>1. "find" \notin Removing
      BY Zenon DEF Removing
    <3> QED
      BY <1>1, <2>1, <3>1, CleanGoto, Zenon
  <2> QED
    BY <1>1, <1>3, <2>1, <2>2, <2>3, NoFault, Zenon
<1>6. CASE FindHost(w)
  <2>1. pc[w] = "find" /\ UNCHANGED array /\ host' = host
    BY <1>6, Zenon DEF FindHost, array
  <2>2. UNCHANGED faults /\ \/ host[NodeOf(w)] = NoHost /\ ReturnUnpublished(w)
                            \/ \E h \in HostID : /\ host[NodeOf(w)] = h
                                                 /\ Goto(w, UnmapIfAny(h), [my[w] EXCEPT !.id = h])
    BY <1>6, NoFault, Zenon DEF FindHost, HostNotFound, HostFound
  <2>3. CASE host[NodeOf(w)] = NoHost /\ ReturnUnpublished(w)
    <3>1. MayEnd(w)
      BY <1>0, <2>1, <2>3, Zenon DEF MayEnd
    <3> QED
      BY <1>1, <1>4, <2>1, <2>2, <2>3, <3>1, NoFault, Zenon
  <2>4. ASSUME NEW h \in HostID, host[NodeOf(w)] = h, Goto(w, UnmapIfAny(h), [my[w] EXCEPT !.id = h])
        PROVE  CleanStep(w)
    <3>1. [my[w] EXCEPT !.id = h].at = my[w].at /\ [my[w] EXCEPT !.id = h].id = h
      BY <1>0, Zenon DEF CallType
    <3> QED
      BY <1>1, <2>1, <2>4, <3>1, CleanGoto, Zenon
  <2> QED
    BY <2>1, <2>2, <2>3, <2>4, NoFault, Zenon
<1>7. CASE UnmapVolumeFromHost(w)
  <2>1. pc[w] = "unmap" /\ host' = host /\ created' = created /\ pc[w] \in Removing
    BY <1>7, Zenon DEF UnmapVolumeFromHost, array, Removing
  <2>2. UNCHANGED faults /\ Goto(w, "left", my[w])
    BY <1>7, NoFault, Zenon DEF UnmapVolumeFromHost, NotFoundIgnored
  <2>3. HostsStay(w)
    BY <2>1, Zenon DEF HostsStay
  <2> QED
    BY <1>2, <2>1, <2>2, <2>3, NoFault, Zenon
<1>8. CASE ListLuns(w)
  <2>1. pc[w] = "left" /\ UNCHANGED array /\ pc[w] \in Removing
    BY <1>8, Zenon DEF ListLuns, Removing
  <2>2. UNCHANGED faults /\ \/ Live(my[w].id) /\ Mapped(my[w].id) # {} /\ ReturnUnpublished(w)
                            \/ Goto(w, "meta", my[w])
    BY <1>8, NoFault, Zenon DEF ListLuns, NoLunLeft
  <2>3. Live(my[w].id) /\ Mapped(my[w].id) # {} => MayEnd(w)
    BY <1>0, <2>1, Zenon DEF MayEnd
  <2> QED
    BY <1>1, <1>2, <1>4, <2>1, <2>2, <2>3, NoFault, Zenon
<1>9. CASE HostCleanup(w)
  <2>1. pc[w] = "meta" /\ UNCHANGED array /\ pc[w] \in Removing
    BY <1>9, Zenon DEF HostCleanup, Removing
  <2>2. UNCHANGED faults /\ \/ my[w].id \notin created /\ ReturnUnpublished(w)
                            \/ Goto(w, "deleteHost", my[w])
                            \/ ReturnError(w)
    BY <1>9, NoFault, Zenon DEF HostCleanup, CreatedByCSI
  <2>3. my[w].id \notin created => MayEnd(w)
    BY <1>0, <2>1, Zenon DEF MayEnd
  <2> QED
    BY <1>1, <1>2, <1>3, <1>4, <2>1, <2>2, <2>3, NoFault, Zenon
<1>10. CASE DeleteHost(w)
  <2>1. pc[w] = "deleteHost" /\ pc[w] \in Removing
    BY <1>10, Zenon DEF DeleteHost, Removing
  <2>2. UNCHANGED faults /\ \/ ~Live(my[w].id) /\ ReturnUnpublished(w) /\ UNCHANGED array
                            \/ ReturnError(w) /\ UNCHANGED array
                            \/ Live(my[w].id) /\ HostGoes(w) /\ ReturnUnpublished(w)
    <3>1. \A o : Ok(o) => Done(o)
      BY Zenon DEF Ok, Done
    <3> QED
      BY <1>10, <2>1, <3>1, NoFault, Zenon DEF DeleteHost, HostGoes
  <2>3. CASE ~Live(my[w].id) /\ ReturnUnpublished(w) /\ UNCHANGED array
    <3>1. MayEnd(w)
      BY <1>0, <2>1, <2>3, Zenon DEF MayEnd, Live
    <3> QED
      BY <1>1, <1>4, <2>1, <2>2, <2>3, <3>1, NoFault, Zenon
  <2>4. CASE Live(my[w].id) /\ HostGoes(w) /\ ReturnUnpublished(w)
    <3>1. host'[NodeOf(w)] = NoHost
      BY <1>0, <2>1, <2>4, Zenon DEF HostGoes, Live
    <3>2. MayEnd(w)
      BY <1>0, <2>1, <3>1, Zenon DEF MayEnd
    <3> QED
      BY <2>1, <2>2, <2>4, <3>2, CleanReturn, NoFault, Zenon
  <2> QED
    BY <1>1, <1>3, <2>1, <2>2, <2>3, <2>4, NoFault, Zenon
<1> QED
  BY <1>5, <1>6, <1>7, <1>8, <1>9, <1>10, Zenon DEF UnpublishStep

\* Every step keeps the invariant.
LEMMA NextClean ==
    ASSUME MapInv, CleanInv, [Next]_vars
    PROVE  CleanInv'
<1> SUFFICES ASSUME faults' = 0
             PROVE  CleanInv'
  BY Zenon DEF CleanInv
<1>0. /\ phase \in [Attachment -> {"detached", "attaching", "attached", "detaching"}]
      /\ pc \in [Worker -> {"idle", "lock"} \cup LockedLabel \cup UnpublishLabel]
      /\ my \in [Worker -> CallType]
  BY Zenon DEF MapInv, TypeOK, KubernetesOK, ProcessOK, CallType
<1>1. faults = 0 => DetachedUnmapped'
  BY DetachedKept, Zenon DEF CleanInv
<1>2. ASSUME NEW w \in Worker, Step(w) PROVE CleanInv'
  BY <1>1, <1>2, PublishClean, UnpublishClean, CleanKept, Zenon DEF Step
<1>3. ASSUME UNCHANGED <<array, faults>>,
             \A a \in Attachment : phase'[a] = "detached" => phase[a] = "detached",
             \A w \in Worker : \/ pc'[w] = pc[w] /\ my'[w] = my[w]
                               \/ pc[w] = "idle" /\ pc'[w] \notin Removing
      PROVE  CleanInv'
  <2>1. host' = host /\ created' = created /\ faults = 0
    BY <1>3, Zenon DEF array
  <2>2. ASSUME NEW n \in Node \ AdminHost, host[n] # NoHost
        PROVE  Tagged(n)' /\ \E v \in Volume : Keeps(<<v, n>>)'
    <3>1. Tagged(n) /\ \E v \in Volume : Keeps(<<v, n>>)
      BY <2>1, <2>2, Zenon DEF CleanInv
    <3>2. Tagged(n)'
      BY <1>3, <2>1, <3>1, Zenon DEF Tagged
    <3>3. PICK v \in Volume : Keeps(<<v, n>>)
      BY <3>1, Zenon
    <3>4. <<v, n>> \in Attachment
      BY Zenon DEF Attachment, Target
    <3>5. Keeps(<<v, n>>)'
      BY <1>3, <2>1, <3>3, <3>4, Zenon DEF Keeps
    <3> QED
      BY <3>2, <3>5, Zenon
  <2> QED
    BY <1>1, <2>1, <2>2, Zenon DEF CleanInv
<1>4. ASSUME NEW a \in Attachment, Attach(a) \/ Detach(a) PROVE CleanInv'
  <2>1. UNCHANGED <<array, faults, pc, my>> /\ \A b \in Attachment : phase'[b] = "detached" => phase[b] = "detached"
    BY <1>0, <1>4, Zenon DEF Attach, Detach
  <2> QED
    BY <1>3, <2>1, Zenon
<1>5. ASSUME NEW w \in Worker, NEW a \in Attachment, StartPublish(w, a) \/ StartUnpublish(w, a)
      PROVE  CleanInv'
  <2>1. UNCHANGED <<array, faults, phase>>
    BY <1>5, Zenon DEF StartPublish, StartUnpublish, Goto, k8s
  <2>2. /\ \A x \in Worker \ {w} : pc'[x] = pc[x] /\ my'[x] = my[x]
        /\ pc[w] = "idle" /\ pc'[w] \notin Removing
    BY <1>0, <1>5, Zenon DEF StartPublish, StartUnpublish, Goto, Removing
  <2> QED
    BY <1>3, <2>1, <2>2, Zenon
<1>6. ~Crash
  BY NoFault, Zenon DEF Crash
<1>7. CASE UNCHANGED vars
  <2>1. UNCHANGED <<array, faults, pc, my, phase>>
    BY <1>7, Zenon DEF vars, k8s
  <2> QED
    BY <1>3, <2>1, Zenon
<1> QED
  BY <1>2, <1>4, <1>5, <1>6, <1>7, Zenon DEF Next

\* As long as no call failed, no host that the driver created outlives its
\* attachments, whatever publishes and unpublishes ran at the same time on the
\* node, and whichever of them created or deleted the host.
THEOREM NoHostLeft == Spec => []NoEmptyHost
  <1>1. Init => CleanInv
    <2> SUFFICES ASSUME Init PROVE CleanInv
      BY Zenon
    <2>1. \A n \in Node \ AdminHost : host[n] = NoHost
      BY Zenon DEF Init
    <2>2. DetachedUnmapped
      BY Zenon DEF Init, DetachedUnmapped
    <2> QED
      BY <2>1, <2>2, Zenon DEF CleanInv
  <1>2. MapInv /\ CleanInv /\ [Next]_vars => CleanInv'
    BY NextClean, Zenon
  <1>3. CleanInv => NoEmptyHost
    BY Zenon DEF CleanInv, NoEmptyHost, Keeps
  <1> QED
    BY <1>1, <1>2, <1>3, MapInvariant, PTL DEF Spec
=============================================================================
