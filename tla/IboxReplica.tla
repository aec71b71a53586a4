---------------------------- MODULE IboxReplica ----------------------------
(***************************************************************************)
(* The iboxreplica controller: it creates a replica on the array for an    *)
(* Iboxreplica resource, shows its state in the resource's status, deletes *)
(* it with the resource, and creates the PersistentVolume and claim of the *)
(* remote copy when the resource asks for it.                              *)
(***************************************************************************)
EXTENDS CustomResource

\* The spec of the resource the worker is on.
ReplicaSpec == CRSpec[job["replica"].c]

\* The branches of Reconcile.
ReplicaBranchKept(obj) ==
    IF obj.phase = "deleting" THEN "idle" ELSE IF obj.id = 0 THEN "create" ELSE "update"
ReplicaBranch(obj) ==
    IF obj.phase = "deleting" THEN "delete" ELSE IF obj.id = 0 THEN "create" ELSE "update"

ReplicaReconcile(c, o) == Reconcile("replica", c, o, ReplicaBranch(cache[c]))

----------------------------------------------------------------------------
(* createReplica *)

\* The replication types and the base action the controller accepts.
SupportedType(s) == s.type \in {"ACTIVE_ACTIVE", "ASYNC", "SYNC"}
SupportedAction(s) == s.action \in {"", "NEW"}

\* An entity of a known type is looked up by its name.
getLocalEntityID(s) ==
    \/ s.entityType = "CONSISTENCY_GROUP" /\ s.entity = Group
    \/ s.entityType = "VOLUME" /\ s.entity \in Volume
    \/ s.entityType = "FILESYSTEM" /\ s.entity \in Volume

\* The last link to the remote system must have an ID, be up and have a
\* witness.
validateLink(s) ==
    LET found == {i \in DOMAIN Link : Link[i].system = s.system}
        last == CHOOSE i \in found : \A j \in found : j <= i
    IN  /\ found # {}
        /\ Link[last].id # 0
        /\ linkUp
        /\ Link[last].witness

ValidReplica(s) ==
    SupportedType(s) /\ SupportedAction(s) /\ getClientService(s) /\ getLocalEntityID(s) /\ validateLink(s)

\* The checks before the replica is asked for.  They read the resource, the
\* secret, the entity and the links; each of them that fails ends the same way.
PrepareReplica(o) ==
    /\ At("replica", "create")
    /\ \/ ValidReplica(ReplicaSpec) /\ Charge("GetLinks", o) /\ Goto("replica", IF Ok(o) THEN "pool" ELSE "abort")
       \/ ~ValidReplica(ReplicaSpec) /\ o = "ok" /\ UNCHANGED faults /\ Goto("replica", "abort")
    /\ UNCHANGED <<api, cache, array, claims>>

\* lookupTargetPoolID: a failed lookup is written to the status, and the
\* replica is asked for all the same, with a pool ID of 0.
LookupPool(o) ==
    LET c == job["replica"].c
        write == ~Ok(o) /\ Current(c, job["replica"].obj)
        new == WithStatus(c, 0, "error")
    IN  /\ At("replica", "pool")
        /\ Charge("GetPool", o)
        /\ IF write THEN Store(c, new) ELSE UNCHANGED api
        /\ job' = [job EXCEPT !["replica"].at = "list", !["replica"].pool = Ok(o),
                              !["replica"].obj = IF write THEN Stored(c, new) ELSE @]
        /\ UNCHANGED <<cache, queue, array, claims>>

\* An entity that has a replica already is left alone, and so is the status.
NeverReplicated == FALSE
AlreadyReplicated == ReplicaOf(ReplicaSpec.entity) # {}

GetReplicas(o) ==
    /\ At("replica", "list")
    /\ Charge("GetReplicas", o)
    /\ IF ~Ok(o) THEN Goto("replica", "abort")
       ELSE IF ~AlreadyReplicated THEN Goto("replica", "post")
       ELSE IF ReplicaSpec.pvc THEN Goto("replica", "pvc") ELSE Return("replica")
    /\ UNCHANGED <<api, cache, array, claims>>

\* The array creates an active replica; it refuses one without a target pool.
Accepts(o) == Done(o) /\ job["replica"].pool

CreateReplica(o) ==
    /\ At("replica", "post")
    /\ IF job["replica"].pool THEN Charge("CreateReplica", o) ELSE o = "ok" /\ UNCHANGED faults
    /\ IF Accepts(o) THEN PostReplica(ReplicaSpec.entity, job["replica"].c)
       ELSE UNCHANGED <<lastId, replicas>>
    /\ IF Accepts(o) /\ Ok(o)
       THEN job' = [job EXCEPT !["replica"].at = "record", !["replica"].id = lastId + 1] /\ UNCHANGED queue
       ELSE Goto("replica", "abort")
    /\ UNCHANGED <<api, cache, members, masters, linkUp, claims>>

\* The replica's ID goes into the status; then createPVC, when asked for.
Recorded ==
    LET c == job["replica"].c
        obj == Stored(c, WithStatus(c, job["replica"].id, "created"))
    IN  IF ReplicaSpec.pvc
        THEN job' = [job EXCEPT !["replica"].at = "pvc", !["replica"].obj = obj] /\ UNCHANGED queue
        ELSE Return("replica")

RecordReplica(o) == Record("replica", job["replica"].id, o, Recorded)

----------------------------------------------------------------------------
(* createPVC *)

\* The volumes GetRemoteEntities pairs with a remote one: the members of a
\* group, as they are now, or the entity itself.
GetRemoteEntities(s) == IF s.entityType = "CONSISTENCY_GROUP" THEN members ELSE {s.entity}

\* Without the client or the entity the error is written over the status, ID
\* included; the other errors are only logged.  Nothing is retried.
ReplicaClaims(o) ==
    LET c == job["replica"].c
        rest == GetRemoteEntities(ReplicaSpec)
    IN  /\ At("replica", "pvc")
        /\ \/ /\ o = "ok" /\ UNCHANGED <<api, faults>>
              /\ IF rest = {} THEN Return("replica")
                 ELSE job' = [job EXCEPT !["replica"].at = "pv", !["replica"].rest = rest] /\ UNCHANGED queue
           \/ /\ o = "fail" /\ Fault("GetRemoteEntities") /\ Return("replica") /\ UNCHANGED api
           \/ /\ o = "lost" /\ Fault("getClientService") /\ Return("replica")
              /\ IF Current(c, job["replica"].obj) THEN Store(c, WithStatus(c, 0, "error")) ELSE UNCHANGED api
        /\ UNCHANGED <<cache, array, claims>>

ReplicaPV(o) == CreateRemotePV("replica", o, Return("replica"))
ReplicaPVC(o) == CreateRemotePVC("replica", o, Return("replica"))

----------------------------------------------------------------------------
(* deleteReplica and updateIboxreplicaState *)

\* The replica with the recorded ID is deleted; an ID the array does not know
\* (0, for one) is an error.  The finalizer is gone by now, so the retry finds
\* no resource and ends.
DeleteReplica(o) ==
    LET found == FindReplica(job["replica"].obj.id)
    IN  /\ At("replica", "delete")
        /\ IF found = {} THEN o = "ok" /\ UNCHANGED faults ELSE Charge("DeleteReplica", o)
        /\ IF Done(o) THEN DropReplica(job["replica"].obj.id) ELSE UNCHANGED replicas
        /\ IF found # {} /\ Ok(o) THEN Return("replica") ELSE Retry("replica")
        /\ UNCHANGED <<api, cache, lastId, members, masters, linkUp, claims>>

\* The state of the replica is read from the array, kept in the local copy,
\* and shown in the status.
GetReplica(o) ==
    LET found == FindReplica(job["replica"].obj.id)
    IN  /\ At("replica", "update")
        /\ IF found = {} THEN o = "ok" /\ UNCHANGED faults ELSE Charge("GetReplica", o)
        /\ IF found = {} \/ ~Ok(o) THEN Retry("replica")
           ELSE \E r \in found :
                  /\ job' = [job EXCEPT !["replica"].at = "show", !["replica"].obj.state = r.state]
                  /\ UNCHANGED queue
        /\ UNCHANGED <<api, cache, array, claims>>

ShowState(o) == RecordState("replica", "show", job["replica"].obj.state, o)

ReplicaStep ==
    \/ \E o \in Outcome : \E c \in Of("replica") : ReplicaReconcile(c, o)
    \/ \E o \in ReadOutcome : PrepareReplica(o) \/ LookupPool(o) \/ GetReplicas(o) \/ GetReplica(o)
    \/ \E o \in Outcome : CreateReplica(o) \/ RecordReplica(o) \/ Abort("replica", o)
    \/ \E o \in Outcome : ReplicaClaims(o) \/ ReplicaPV(o) \/ ReplicaPVC(o)
    \/ \E o \in Outcome : DeleteReplica(o) \/ ShowState(o)
=============================================================================
