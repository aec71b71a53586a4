---------------------------- MODULE IboxPromote ----------------------------
(***************************************************************************)
(* The iboxpromote controller: an Iboxpromote resource promotes a snapshot *)
(* to a volume of its own, once.                                           *)
(***************************************************************************)
EXTENDS CustomResource

PromoteSpec == CRSpec[job["promote"].c]

\* The branches of Reconcile.
PromoteBranch(obj) ==
    IF obj.phase = "deleting" THEN "idle" ELSE IF obj.id = 0 THEN "create" ELSE "update"

PromoteReconcile(c, o) == Reconcile("promote", c, o, PromoteBranch(cache[c]))

\* A snapshot is named by itself, or by a VolumeSnapshot whose content has a
\* handle: the handle of an unbound one is not there yet.
lookupEntityByVolumeSnapshotName(s) == s.entity \in Snapshot /\ s.bound
Lookup(s) ==
    \/ s.entityType = "KUBE_SNAPSHOT" /\ lookupEntityByVolumeSnapshotName(s)
    \/ s.entityType = "SNAPSHOT" /\ s.entity \in Snapshot

ValidPromote(s) == s.action \in {"", "NEW"} /\ getClientService(s) /\ Lookup(s)

\* A volume that is a master already is left alone, and so is the status.
PreparePromote(o) ==
    /\ At("promote", "create")
    /\ IF ValidPromote(PromoteSpec) THEN Charge("GetVolume", o) ELSE o = "fail" /\ UNCHANGED faults
    /\ IF ~Ok(o) THEN Goto("promote", "abort")
       ELSE IF PromoteSpec.entity \in masters THEN Return("promote")
       ELSE Goto("promote", "post")
    /\ UNCHANGED <<api, cache, array, claims>>

PromoteSnapshot(o) ==
    /\ At("promote", "post")
    /\ Charge("PromoteSnapshot", o)
    /\ masters' = IF Done(o) THEN masters \cup {PromoteSpec.entity} ELSE masters
    /\ Goto("promote", IF Ok(o) THEN "record" ELSE "abort")
    /\ UNCHANGED <<api, cache, replicas, lastId, members, linkUp, claims>>

\* The status gets the ID of the promoted volume (1 stands for it).
RecordPromote(o) == Record("promote", 1, o, Return("promote"))
CompletePromote(o) == RecordState("promote", "update", "completed", o)

PromoteStep ==
    \/ \E o \in Outcome : \E c \in Of("promote") : PromoteReconcile(c, o)
    \/ \E o \in ReadOutcome : PreparePromote(o)
    \/ \E o \in Outcome : PromoteSnapshot(o) \/ RecordPromote(o)
    \/ \E o \in Outcome : CompletePromote(o) \/ Abort("promote", o)
=============================================================================
