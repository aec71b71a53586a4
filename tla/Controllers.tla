---------------------------- MODULE Controllers ----------------------------
(***************************************************************************)
(* The three controllers together, on one API server and one array.        *)
(***************************************************************************)
EXTENDS IboxReplica, IboxCg, IboxPromote

Environment ==
    \/ \E c \in CR : UserCreate(c) \/ UserDelete(c)
    \/ \E k \in Kind : Resync(k) \/ Crash(k)
    \/ LinkDown

\* The informers, and what the array and the links do by themselves.
Progress ==
    \/ \E c \in CR : Deliver(c)
    \/ \E r \in replicas : Suspended(r)
    \/ LinkUp

Next == Environment \/ Progress \/ ReplicaStep \/ CgStep \/ PromoteStep

Spec == Init /\ [][Next]_vars

----------------------------------------------------------------------------
(* Fairness: a worker with work goes on; the informers deliver, links come  *)
(* back and suspensions take effect; the resync of the cache comes round.   *)

Fairness ==
    /\ WF_vars(ReplicaStep)
    /\ WF_vars(CgStep \/ PromoteStep)
    /\ WF_vars(Progress)
    /\ WF_vars(Resync("replica"))

FairSpec == Spec /\ Fairness

----------------------------------------------------------------------------
(* Properties *)

Live(c) == cr[c].phase = "live"

\* createReplica asks for a replica only when GetReplicas showed none for the
\* entity, so an entity never has two, whatever was retried, lost or crashed
\* on the way and however stale the cached resource was.
OneReplicaPerEntity ==
    \A r, s \in replicas : r.entity = s.entity => r = s

\* A resource whose status has an ID, or says completed, is one whose work is
\* on the array: the replica with that ID is there, replicates the resource's
\* entity and was made for this resource, so that deleting the resource
\* deletes its own replica and no other; the volume is in the group, unless
\* another resource removes it; the snapshot is promoted.  Nothing is said of an
\* Iboxcg that removes a volume: a RemoveMemberFromCG that fails is only
\* logged, and the resource is completed with the volume in the group still.
StatusTrue ==
    \A c \in CR : Exists(cr[c]) /\ (cr[c].id # 0 \/ cr[c].state = "completed") =>
        LET s == CRSpec[c]
        IN  CASE s.kind = "replica" ->
                   \E r \in replicas : r.id = cr[c].id /\ r.entity = s.entity /\ r.owner = c
              [] s.kind = "cg" /\ s.action # "REMOVE" ->
                   \/ s.entity \in members
                   \/ \E d \in CR : cr[d].phase # "none" /\ CRSpec[d].kind = "cg" /\ CRSpec[d].action = "REMOVE"
                                          /\ CRSpec[d].entity = s.entity
              [] s.kind = "promote" -> s.entity \in masters
              [] OTHER -> TRUE

\* When nothing failed and no stale resource was read, a deleted resource
\* leaves no replica behind once its last reconcile is over: handleFinalizer
\* removes the finalizer first, deleteReplica then uses the ID in the copy
\* that was read before.
ReplicaRemoved ==
    faults = 0 =>
        \A r \in replicas : cr[r.owner].phase = "gone" => job["replica"].c = r.owner

\* When nothing failed, a replica is suspended only while the iboxcg worker is
\* between SuspendReplica and ResumeReplica with that replica's ID.
ResumedAfterChange ==
    faults = 0 =>
        \A r \in replicas : r.state # "active" => job["cg"].id = r.id

\* A group's membership changes only while the replica the handler found is
\* suspended (or gone), unless the twenty looks for it were in vain.
ChangedWhileSuspended ==
    [][members' # members /\ job["cg"].id # 0 /\ members # {} /\ faults = 0
         => \A r \in replicas : r.id = job["cg"].id => r.state = "suspended"]_vars

\* Another Iboxcg wants the volume of c where c does not want it.
Removes(c) == CRSpec[c].action = "REMOVE"
Opposed(c) ==
    \E d \in Of("cg") : cr[d].phase # "none" /\ CRSpec[d].entity = CRSpec[c].entity /\ Removes(d) # Removes(c)

\* What a resource is there for, done by it or by another one.  A volume to be
\* removed may be a member still where a call failed.
Effect(c) ==
    LET s == CRSpec[c]
    IN  CASE s.kind = "replica" -> ReplicaOf(s.entity) # {}
          [] s.kind = "cg" ->
               /\ cr[c].id # 0 \/ cr[c].state = "completed"
               /\ \/ Removes(c) = (s.entity \notin members)
                  \/ Opposed(c)
                  \/ Removes(c) /\ faults > 0
          [] s.kind = "promote" -> s.entity \in masters

Waiting(c) == cr[c].phase = "deleting" \/ (Live(c) /\ ~Effect(c))

\* No resource waits for ever: one that is not deleted has its effect in the
\* end and keeps it, also when the replica it found was another's and went
\* away with that one, and a deleted one is gone, whatever failed on the way.
\* (One effect may fail to come: see Effect for a removal from the group whose
\* call failed.)
Settles == <>[](\A c \in CR : ~Waiting(c))
=============================================================================
