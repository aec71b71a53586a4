--------------------------- MODULE MCControllers ---------------------------
(***************************************************************************)
(* Instances of Controllers: two Iboxreplicas of one volume, an Iboxreplica *)
(* of the group with Iboxcgs that add and remove members, two Iboxpromotes. *)
(***************************************************************************)
EXTENDS Controllers

CONSTANTS v1, v2, g, s1, r1, r2, r3, rg, rh, add, addc, del, p1, p2

ReplicaWish(type, e, pvcWanted) ==
    [kind |-> "replica", type |-> "ASYNC", action |-> "", secret |-> TRUE, entityType |-> type,
     entity |-> e, system |-> "remote", pvc |-> pvcWanted]
CgWish(action, v, pvcWanted) ==
    [kind |-> "cg", action |-> action, secret |-> TRUE, entity |-> v, pvc |-> pvcWanted]
PromoteWish(type, bound) ==
    [kind |-> "promote", action |-> "NEW", secret |-> TRUE, entityType |-> type, entity |-> s1, bound |-> bound]

MCCRSpec ==
    [c \in CR |->
        CASE c \in {r1, r2} -> ReplicaWish("VOLUME", v1, FALSE)
          [] c = r3 -> ReplicaWish("VOLUME", v1, TRUE)
          [] c = rg -> ReplicaWish("CONSISTENCY_GROUP", g, FALSE)
          [] c = rh -> ReplicaWish("CONSISTENCY_GROUP", g, TRUE)
          [] c = add -> CgWish("", v2, FALSE)
          [] c = addc -> CgWish("ADD", v2, TRUE)
          [] c = del -> CgWish("REMOVE", v2, FALSE)
          [] c = p1 -> PromoteWish("SNAPSHOT", FALSE)
          [] c = p2 -> PromoteWish("KUBE_SNAPSHOT", TRUE)]

\* The last link of the remote system counts.
MCLink == <<[system |-> "remote", id |-> 0, witness |-> FALSE],
            [system |-> "remote", id |-> 7, witness |-> TRUE],
            [system |-> "other", id |-> 8, witness |-> FALSE]>>

TwoReplicas == [make |-> {r1, r2}, drop |-> {r1}, ready |-> {}, members |-> {}, up |-> FALSE]
Claims == [make |-> {r3}, drop |-> {r3}, ready |-> {}, members |-> {}, up |-> TRUE]
GroupClaims == [make |-> {rh}, drop |-> {}, ready |-> {}, members |-> {v1, v2}, up |-> TRUE]
GroupRace == [make |-> {rg, add}, drop |-> {}, ready |-> {}, members |-> {v1}, up |-> TRUE]
GroupAdd == [make |-> {add}, drop |-> {rg}, ready |-> {rg}, members |-> {v1}, up |-> TRUE]
FirstMember == [make |-> {addc}, drop |-> {}, ready |-> {rg}, members |-> {}, up |-> TRUE]
GroupRemove == [make |-> {del}, drop |-> {}, ready |-> {rg}, members |-> {v2}, up |-> TRUE]
AddRemove == [make |-> {addc, del}, drop |-> {del}, ready |-> {}, members |-> {v1}, up |-> TRUE]
Promotions == [make |-> {p1, p2}, drop |-> {p1}, ready |-> {}, members |-> {}, up |-> TRUE]
MCScenarios ==
    {TwoReplicas, Claims, GroupClaims, GroupRace, GroupAdd, FirstMember, GroupRemove, AddRemove, Promotions}
MCFailing ==
    {"crash", "link", "stale", "poll", "Update", "UpdateStatus", "GetLinks", "GetPool", "GetReplicas",
     "CreateReplica", "DeleteReplica", "GetReplica", "GetRemoteEntities", "getClientService", "CreatePV",
     "CreatePVC", "GetVolumeByName", "GetMembersByCGID", "GetReplicaForCG", "SuspendReplica",
     "AddMemberToCG", "RemoveMemberFromCG", "ResumeReplica", "GetVolume", "PromoteSnapshot"}
=============================================================================
