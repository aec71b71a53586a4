---------------------------- MODULE Replication ----------------------------
(***************************************************************************)
(* The replication service of csi-addons: EnableVolumeReplication,         *)
(* DisableVolumeReplication, PromoteVolume, DemoteVolume, ResyncVolume and *)
(* GetVolumeReplicationInfo, for one volume that is kept on several arrays. *)
(*                                                                         *)
(* Every array has a cluster with a driver of its own.  A cluster has one  *)
(* call for the volume under way at a time; the clusters know nothing of   *)
(* each other, and both a promotion and a demotion act on the two arrays   *)
(* of a replica.                                                           *)
(***************************************************************************)
EXTENDS Handler

----------------------------------------------------------------------------
(* The calls of the REST client *)

\* The replicas of the volume that array x knows, and the role of x in one.
Known(x) == {r \in replicas : x \in {r.src, r.dst}}
Role(x, r) == IF r.src = x THEN "SOURCE" ELSE "TARGET"

\* A replica from x to y is made with a volume on y for it.
PostReplica(x, y) ==
    /\ lastId' = lastId + 1
    /\ replicas' = replicas \cup {[id |-> lastId + 1, src |-> x, dst |-> y]}
    /\ there' = there \cup {y}

\* Deleting a replica ends it on both arrays and keeps the volumes; one that
\* is gone already is REPLICA_NOT_FOUND, an error.
Gone(id) == \A r \in replicas : r.id # id
DropReplica(id) ==
    /\ replicas' = {r \in replicas : r.id # id}
    /\ UNCHANGED <<lastId, there>>

----------------------------------------------------------------------------
(* EnableVolumeReplication *)

\* The link to the remote system must be there and up.
validateLink == scenario.linkUp

\* The volume, the pool and the link are looked up.
EnableVolume(x, o) ==
    /\ At(x, "enable", "start")
    /\ Read("GetVolume", x, o, IF x \in there /\ validateLink THEN Goto(x, "list") ELSE Error(x))

\* A volume that has a replica is refused.
Replicated(x) == Known(x) # {}

EnableList(x, o) ==
    /\ At(x, "enable", "list")
    /\ Read("GetReplicas", x, o, IF Replicated(x) THEN Error(x) ELSE Goto(x, "create"))

EnableCreate(x, o) ==
    /\ At(x, "enable", "create")
    /\ Charge("CreateReplica", o)
    /\ IF Done(o) THEN PostReplica(x, Peer[x]) ELSE UNCHANGED array
    /\ IF Ok(o) THEN Answer(x) ELSE Error(x)
    /\ UNCHANGED <<cgs, rest>>

----------------------------------------------------------------------------
(* DisableVolumeReplication *)

\* A volume without a replica is an error.
DisableVolume(x, o) ==
    /\ At(x, "disable", "start")
    /\ \/ Known(x) # {} /\ \E r \in Known(x) : Read("GetReplica", x, o, Found(x, "delete", r.id))
       \/ Known(x) = {} /\ o = "ok" /\ Error(x) /\ UNCHANGED <<array, cgs, rest, faults>>

\* DeleteReplica with the ID that was read; next says how to go on.
DeleteTolerant(x, o, next) ==
    /\ IF Gone(job[x].id) THEN o = "ok" /\ UNCHANGED faults ELSE Charge("DeleteReplica", o)
    /\ IF Done(o) THEN DropReplica(job[x].id) ELSE UNCHANGED array
    /\ IF Ok(o) THEN next ELSE Error(x)
    /\ UNCHANGED <<cgs, rest>>

Delete(x, o, next) ==
    /\ IF Gone(job[x].id) THEN o = "ok" /\ UNCHANGED faults ELSE Charge("DeleteReplica", o)
    /\ IF Done(o) THEN DropReplica(job[x].id) ELSE UNCHANGED array
    /\ IF Ok(o) /\ ~Gone(job[x].id) THEN next ELSE Error(x)
    /\ UNCHANGED <<cgs, rest>>

DisableDeleteTolerant(x, o) == At(x, "disable", "delete") /\ DeleteTolerant(x, o, Answer(x))
DisableDelete(x, o) == At(x, "disable", "delete") /\ Delete(x, o, Answer(x))

----------------------------------------------------------------------------
(* PromoteVolume *)

\* Without a replica, or with one whose source is here, nothing is to be done.
PromotedAlways(x, r) == TRUE
AlreadyPrimary(x, r) == Role(x, r) = "SOURCE"
NotReplicatedError(x) == Error(x)
NotReplicated(x) == Answer(x)

PromoteVolume(x, o) ==
    /\ At(x, "promote", "start")
    /\ IF x \notin there THEN Read("GetVolume", x, o, Error(x))
       ELSE IF Known(x) = {} THEN Read("GetReplica", x, o, NotReplicated(x))
       ELSE \E r \in Known(x) :
              Read("GetReplica", x, o, IF AlreadyPrimary(x, r) THEN Answer(x) ELSE Goto(x, "link"))

\* The secret of the remote array is found by the name of the link's remote
\* system.
getSecretForLink == scenario.secret

PromoteLink(x, o) ==
    /\ At(x, "promote", "link")
    /\ Read("GetSecret", x, o, IF getSecretForLink THEN Goto(x, "source") ELSE Error(x))

\* The replica is looked up again, on the remote array this time, and deleted
\* there, whatever its role.
PromoteSource(x, o) ==
    LET known == Known(Peer[x])
    IN  /\ At(x, "promote", "source")
        /\ IF known = {} THEN Read("GetReplica", x, o, Error(x))
           ELSE \E r \in known : Read("GetReplica", x, o, Found(x, "delete", r.id))

PromoteDeleteTolerant(x, o) == At(x, "promote", "delete") /\ DeleteTolerant(x, o, Goto(x, "create"))
PromoteDelete(x, o) == At(x, "promote", "delete") /\ Delete(x, o, Goto(x, "create"))

\* Only now is the link to the remote array looked for, by its name; then the
\* replica is created the other way round.
PromoteCreate(x, o) ==
    /\ At(x, "promote", "create")
    /\ IF scenario.linkNamed
       THEN /\ Charge("CreateReplica", o)
            /\ IF Done(o) THEN PostReplica(x, Peer[x]) ELSE UNCHANGED array
            /\ IF Ok(o) THEN Answer(x) ELSE Error(x)
       ELSE o = "ok" /\ Error(x) /\ UNCHANGED <<array, faults>>
    /\ UNCHANGED <<cgs, rest>>

----------------------------------------------------------------------------
(* DemoteVolume *)

AlreadySecondary(x, r) == Role(x, r) = "TARGET"

DemoteVolume(x, o) ==
    /\ At(x, "demote", "start")
    /\ IF x \notin there THEN Read("GetVolume", x, o, Error(x))
       ELSE IF Known(x) = {} THEN Read("GetReplica", x, o, Answer(x))
       ELSE \E r \in Known(x) :
              Read("GetReplica", x, o, IF AlreadySecondary(x, r) THEN Answer(x) ELSE Found(x, "link", r.id))

DemoteLink(x, o) ==
    /\ At(x, "demote", "link")
    /\ Read("GetSecret", x, o, IF getSecretForLink THEN Goto(x, "delete") ELSE Error(x))

DemoteDeleteOnly(x, o) == At(x, "demote", "delete") /\ Delete(x, o, Answer(x))
DemoteDelete(x, o) == At(x, "demote", "delete") /\ Delete(x, o, Goto(x, "remote"))

\* The remote volume is looked up, and the replica is created on the remote
\* array back to this one.
DemoteRemote(x, o) ==
    /\ At(x, "demote", "remote")
    /\ Read("GetVolume", x, o, IF Peer[x] \in there THEN Goto(x, "create") ELSE Error(x))

DemoteCreate(x, o) ==
    /\ At(x, "demote", "create")
    /\ Charge("CreateReplica", o)
    /\ IF Done(o) THEN PostReplica(Peer[x], x) ELSE UNCHANGED array
    /\ IF Ok(o) THEN Answer(x) ELSE Error(x)
    /\ UNCHANGED <<cgs, rest>>

----------------------------------------------------------------------------
(* ResyncVolume is always ready; GetVolumeReplicationInfo reads the replica *)

ResyncVolume(x) ==
    /\ At(x, "resync", "start")
    /\ Answer(x)
    /\ UNCHANGED <<array, cgs, rest, faults>>

GetVolumeReplicationInfo(x, o) ==
    /\ At(x, "info", "start")
    /\ Read("GetReplica", x, o, IF x \in there /\ Known(x) # {} THEN Answer(x) ELSE Error(x))

----------------------------------------------------------------------------
ReplicationStep(x) ==
    \/ \E o \in ReadOutcome :
         \/ EnableVolume(x, o) \/ EnableList(x, o) \/ DisableVolume(x, o)
         \/ PromoteVolume(x, o) \/ PromoteLink(x, o) \/ PromoteSource(x, o)
         \/ DemoteVolume(x, o) \/ DemoteLink(x, o) \/ DemoteRemote(x, o)
         \/ GetVolumeReplicationInfo(x, o)
    \/ \E o \in Outcome :
         \/ EnableCreate(x, o) \/ DisableDelete(x, o)
         \/ PromoteDelete(x, o) \/ PromoteCreate(x, o) \/ DemoteDelete(x, o) \/ DemoteCreate(x, o)
    \/ ResyncVolume(x)

----------------------------------------------------------------------------
(* Properties *)

\* A promotion or a demotion between its DeleteReplica and its CreateReplica.
Swapping(x) == job[x].at \in {"remote", "create"} /\ Op(x) \in {"promote", "demote"}

\* A cluster that enables replication is the only one to make calls, and if the
\* volume is replicated at the start, then to or from its array.
Enables(x) == \E q \in scenario.requests[x] : q.op = "enable"
NoRace ==
    \A x \in Worker :
      Enables(x) => /\ Alone(x)
                    /\ scenario.source # None => x \in {scenario.source, Peer[scenario.source]}

\* Of a promotion and a demotion that run against each other on two clusters
\* only the one whose DeleteReplica was accepted creates the replica anew, and
\* EnableVolumeReplication looks for a replica first, so the volume is never
\* replicated twice or both ways at once, whatever fails, is lost or retried.
OneReplica ==
    NoRace => \A r, s \in replicas : r = s

\* When nothing fails, nothing is disabled and the links are named for the
\* systems they lead to, a replicated volume stays so: there is a replica, or
\* a promotion or a demotion that is about to create it.
ReplicationKept ==
    (/\ faults = 0 /\ scenario.source # None /\ scenario.linkNamed
     /\ \A x \in Worker : \A q \in scenario.requests[x] : q.op # "disable")
    => replicas # {} \/ \E x \in Worker : Swapping(x)

\* PromoteVolume answers with success only when the volume is not the target
\* of a replica, and DemoteVolume only when it is not the source of one, with
\* a call of the other cluster at any point.
RoleReached ==
    [][NoRace => \A x \in Worker :
         /\ Answered(x, "promote") => \A r \in replicas' : r.src = x
         /\ Answered(x, "demote") => \A r \in replicas' : r.src # x]_vars

\* A DisableVolumeReplication that answers with success is final: no promotion
\* or demotion that began before it creates the replica anew.
DisabledForGood ==
    [][NoRace => \A x \in Worker :
         Answered(x, "disable") /\ job[x].at = "delete" =>
            replicas' = {} /\ \A y \in Worker : ~Swapping(y)']_vars

\* When the secrets of the arrays are there and the links are named for the
\* systems they lead to, every promotion and demotion is answered with success
\* in the end, whatever failed on the way and whatever the other cluster does.
RoleEventually ==
    <>[](scenario.secret /\ scenario.linkNamed => \A x \in there : Op(x) \notin {"promote", "demote"})
=============================================================================
