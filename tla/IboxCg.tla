------------------------------ MODULE IboxCg -------------------------------
(***************************************************************************)
(* The iboxcg controller: an Iboxcg resource adds a volume to the          *)
(* consistency group or removes it, once.  The replica of a group with     *)
(* members is suspended while its membership changes.  Deleting the        *)
(* resource changes nothing on the array.                                  *)
(***************************************************************************)
EXTENDS CustomResource

CgSpec == CRSpec[job["cg"].c]

\* The branches of Reconcile.
CgBranch(obj) ==
    IF obj.phase = "deleting" THEN "idle" ELSE IF obj.id = 0 THEN "create" ELSE "update"

CgReconcile(c, o) == Reconcile("cg", c, o, CgBranch(cache[c]))

----------------------------------------------------------------------------
(* handleNewCR *)

\* A resource that was completed is left alone.
Handled(obj) == obj.state # ""
Completed(obj) == obj.state = "completed"

\* The resource is read once more; then the secret, the volume and the group.
PrepareCg(o) ==
    LET obj == cache[job["cg"].c]
    IN  /\ At("cg", "create")
        /\ \/ /\ Completed(obj) /\ o = "ok"
              /\ Return("cg") /\ UNCHANGED faults
           \/ /\ ~Completed(obj)
              /\ IF getClientService(CgSpec) /\ CgSpec.entity \in Volume
                 THEN Charge("GetVolumeByName", o) ELSE o = "fail" /\ UNCHANGED faults
              /\ job' = [job EXCEPT !["cg"].at = IF Ok(o) THEN "members" ELSE "abort", !["cg"].obj = obj]
              /\ UNCHANGED queue
        /\ UNCHANGED <<api, cache, array, claims>>

\* The membership as it is now; an unknown action is an error.  A volume that
\* is where the resource wants it needs no change.
GetMembers(o) ==
    LET v == CgSpec.entity
    IN  /\ At("cg", "members")
        /\ Charge("GetMembersByCGID", o)
        /\ IF ~Ok(o) THEN Retry("cg")
           ELSE /\ job' = [job EXCEPT !["cg"].seen = members, !["cg"].at =
                        IF CgSpec.action \in {"", "ADD"}
                        THEN IF v \in members THEN "record" ELSE "find"
                        ELSE IF CgSpec.action = "REMOVE"
                        THEN IF v \in members THEN "find" ELSE "record"
                        ELSE "abort"]
                /\ UNCHANGED queue
        /\ UNCHANGED <<api, cache, array, claims>>

\* The group's replica is suspended only when the group has members.
Unsuspended == "change"
Suspending == IF job["cg"].seen # {} THEN "suspend" ELSE "change"

GetReplicaForCG(o) ==
    LET found == GroupReplica
    IN  /\ At("cg", "find")
        /\ Charge("GetReplicaForCG", o)
        /\ IF ~Ok(o) THEN Goto("cg", "abort")
           ELSE IF found = {} THEN Goto("cg", "change")
           ELSE \E r \in found :
                  /\ job' = [job EXCEPT !["cg"].id = r.id, !["cg"].at = Suspending]
                  /\ UNCHANGED queue
        /\ UNCHANGED <<api, cache, array, claims>>

\* The replica starts to be suspended; one that is gone is an error.
SuspendReplica(o) ==
    LET known == FindReplica(job["cg"].id) # {}
    IN  /\ At("cg", "suspend")
        /\ IF known THEN Charge("SuspendReplica", o) ELSE o = "ok" /\ UNCHANGED faults
        /\ IF Done(o) THEN PostSuspend(job["cg"].id) ELSE UNCHANGED replicas
        /\ Goto("cg", IF known /\ Ok(o) THEN "poll" ELSE "abort")
        /\ UNCHANGED <<api, cache, lastId, members, masters, linkUp, claims>>

\* Up to twenty looks at the group's replica for the state SUSPENDED, then the
\* change is made anyway; the handler of a failed look uses the missing
\* answer, and the panic ends the reconcile.
PollSuspended(o) ==
    LET found == GroupReplica
    IN  /\ At("cg", "poll")
        /\ \/ /\ \E r \in found : r.state = "suspended"
              /\ o = "ok" /\ UNCHANGED faults /\ Goto("cg", "change")
           \/ /\ found # {} /\ \A r \in found : r.state # "suspended"
              /\ o = "lost" /\ Fault("poll") /\ Goto("cg", "change")
           \/ o = "fail" /\ (IF found = {} THEN UNCHANGED faults ELSE Fault("poll")) /\ Retry("cg")
        /\ UNCHANGED <<api, cache, array, claims>>

\* The end of a reconcile's change: createPVC when asked for, then the status.
Changed == IF CgSpec.action # "REMOVE" /\ CgSpec.pvc THEN "pvc" ELSE "record"

AfterAddLogged(o) == IF job["cg"].id # 0 /\ job["cg"].seen # {} THEN "resume" ELSE Changed
AfterAdd(o) ==
    IF ~Ok(o) THEN "abort" ELSE IF job["cg"].id # 0 /\ job["cg"].seen # {} THEN "resume" ELSE Changed

AddMemberToCG(o) ==
    /\ At("cg", "change") /\ CgSpec.action # "REMOVE"
    /\ Charge("AddMemberToCG", o)
    /\ IF Done(o) THEN PostMember(CgSpec.entity) ELSE UNCHANGED members
    /\ Goto("cg", AfterAdd(o))
    /\ UNCHANGED <<api, cache, replicas, lastId, masters, linkUp, claims>>

\* A failed removal is only logged; the replica is resumed in any case.
AfterRemoveSuspended == "record"
AfterRemove == IF job["cg"].id # 0 THEN "resume" ELSE "record"

RemoveMemberFromCG(o) ==
    /\ At("cg", "change") /\ CgSpec.action = "REMOVE"
    /\ Charge("RemoveMemberFromCG", o)
    /\ IF Done(o) THEN DropMember(CgSpec.entity) ELSE UNCHANGED members
    /\ Goto("cg", AfterRemove)
    /\ UNCHANGED <<api, cache, replicas, lastId, masters, linkUp, claims>>

\* A failed resume is only logged.
ResumeReplica(o) ==
    LET known == FindReplica(job["cg"].id) # {}
    IN  /\ At("cg", "resume")
        /\ IF known THEN Charge("ResumeReplica", o) ELSE o = "ok" /\ UNCHANGED faults
        /\ IF Done(o) THEN PostResume(job["cg"].id) ELSE UNCHANGED replicas
        /\ Goto("cg", Changed)
        /\ UNCHANGED <<api, cache, lastId, members, masters, linkUp, claims>>

\* createPVC: the remote volume is there when the group is replicated still.
\* Its errors are only logged, but for the status of the first ones.
getRemoteEntities == job["cg"].id # 0 /\ GroupReplica # {}

CgClaims(o) ==
    LET c == job["cg"].c
    IN  /\ At("cg", "pvc")
        /\ \/ /\ o = "ok" /\ getRemoteEntities /\ UNCHANGED <<api, faults>>
              /\ job' = [job EXCEPT !["cg"].at = "pv", !["cg"].rest = {CgSpec.entity}]
           \/ /\ o = "fail" /\ UNCHANGED api
              /\ IF getRemoteEntities THEN Fault("GetRemoteEntities") ELSE UNCHANGED faults
              /\ job' = [job EXCEPT !["cg"].at = "record"]
           \/ /\ o = "lost" /\ Fault("getClientService")
              /\ IF Current(c, job["cg"].obj) THEN Store(c, WithStatus(c, 0, "error")) ELSE UNCHANGED api
              /\ job' = [job EXCEPT !["cg"].at = "record"]
        /\ UNCHANGED <<cache, queue, array, claims>>

CgPV(o) == CreateRemotePV("cg", o, Goto("cg", "record"))
CgPVC(o) == CreateRemotePVC("cg", o, Goto("cg", "record"))

\* The status gets the fixed ID 13; the next reconcile shows it as completed.
RecordCg(o) == Record("cg", 13, o, Return("cg"))
CompleteCg(o) == RecordState("cg", "update", "completed", o)

CgStep ==
    \/ \E o \in Outcome : \E c \in Of("cg") : CgReconcile(c, o)
    \/ \E o \in ReadOutcome : PrepareCg(o) \/ GetMembers(o) \/ GetReplicaForCG(o)
    \/ \E o \in Outcome : SuspendReplica(o) \/ PollSuspended(o) \/ ResumeReplica(o)
    \/ \E o \in Outcome : AddMemberToCG(o) \/ RemoveMemberFromCG(o) \/ Abort("cg", o)
    \/ \E o \in Outcome : CgClaims(o) \/ CgPV(o) \/ CgPVC(o) \/ RecordCg(o) \/ CompleteCg(o)
=============================================================================
