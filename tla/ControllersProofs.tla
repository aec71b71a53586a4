------------------------- MODULE ControllersProofs -------------------------
(***************************************************************************)
(* Proofs about the controllers, for any resources, links, faults, restarts *)
(* and staleness of the cache.                                             *)
(*                                                                         *)
(* OneReplicaPerEntity is not inductive: createReplica looks and then      *)
(* asks.  What the look has shown is still true when the replica is asked  *)
(* for, because the controller has one worker, a restart begins again at   *)
(* the look, and the other controllers only suspend and resume.            *)
(*                                                                         *)
(* StatusTrue: a status is written from what the worker learned of the     *)
(* array, and is copied from there to the informer, the cache and the next *)
(* reconcile; SInv says for each of these places that it is true.          *)
(***************************************************************************)
EXTENDS Controllers, TLAPS

\* The parts of jobs and replicas that matter.
Fields == {"at", "c"}
Shape ==
    /\ DOMAIN job = Kind
    /\ Fields \subseteq DOMAIN job["replica"]
    /\ \A r \in replicas : "entity" \in DOMAIN r

\* When the worker is about to create a replica, the entity has none.
Unreplicated == At("replica", "post") => \A r \in replicas : r.entity # ReplicaSpec.entity

IInv == Shape /\ OneReplicaPerEntity /\ Unreplicated

----------------------------------------------------------------------------
(* How a step changes the replicas and the job of the iboxreplica worker    *)

\* No replica is made; those that stay keep their entity.
NoneMade ==
    \/ replicas' \subseteq replicas
    \/ \E id, s : SetState(id, s)

\* The iboxreplica worker is not moved; it is, but not to its CreateReplica.
Stays == DOMAIN job' = Kind /\ job'["replica"] = job["replica"]
Leaves == DOMAIN job' = Kind /\ Fields \subseteq DOMAIN job'["replica"] /\ job'["replica"].at # "post"

\* A change of state keeps entities and makes no replica.
LEMMA StateOnly ==
    ASSUME Shape, OneReplicaPerEntity, NoneMade
    PROVE  /\ \A r \in replicas' : "entity" \in DOMAIN r
           /\ \A r \in replicas' : \E q \in replicas : q.entity = r.entity
           /\ OneReplicaPerEntity'
<1>1. CASE replicas' \subseteq replicas
  BY <1>1, Zenon DEF Shape, OneReplicaPerEntity
<1>2. ASSUME NEW id, NEW s, SetState(id, s)
      PROVE  /\ \A r \in replicas' : "entity" \in DOMAIN r
             /\ \A r \in replicas' : \E q \in replicas : q.entity = r.entity
             /\ OneReplicaPerEntity'
  <2> DEFINE After(q) == IF q.id = id THEN [q EXCEPT !.state = s] ELSE q
  <2>1. \A q \in replicas : "entity" \in DOMAIN After(q) /\ After(q).entity = q.entity
    BY Zenon DEF Shape
  <2>2. replicas' = {After(q) : q \in replicas}
    BY <1>2, Zenon DEF SetState
  <2> HIDE DEF After
  <2>3. \A r \in replicas' : \E q \in replicas : r = After(q)
    BY <2>2, Zenon
  <2> QED
    BY <2>1, <2>3 DEF OneReplicaPerEntity
<1> QED
  BY <1>1, <1>2, Zenon DEF NoneMade

\* Nothing is made, and the worker does not get to its CreateReplica.
LEMMA Harmless ==
    ASSUME IInv, NoneMade, Stays \/ Leaves
    PROVE  IInv'
<1>1. Shape /\ OneReplicaPerEntity /\ Unreplicated
  BY Zenon DEF IInv
<1>2. Shape'
  BY <1>1, StateOnly, Zenon DEF Shape, Stays, Leaves
<1>3. Unreplicated'
  BY <1>1, StateOnly, Zenon DEF Unreplicated, Stays, Leaves, At, ReplicaSpec
<1> QED
  BY <1>1, <1>2, <1>3, StateOnly, Zenon DEF IInv

\* Where Goto, Return and Retry of a worker lead.
LEMMA JobSteps ==
    ASSUME Shape, NEW k \in Kind, NEW l
    PROVE  /\ Goto(k, l) /\ l # "post" => Stays \/ Leaves
           /\ k # "replica" /\ Goto(k, l) => Stays
           /\ Return(k) => Stays \/ Leaves
           /\ Retry(k) => Stays \/ Leaves
<1>1. Goto(k, l) /\ l # "post" => Stays \/ Leaves
  BY Zenon DEF Goto, Shape, Stays, Leaves, Fields, Kind
<1>2. k # "replica" /\ Goto(k, l) => Stays
  BY Zenon DEF Goto, Shape, Stays, Kind
<1>3. job' = [job EXCEPT ![k] = Idle] => Stays \/ Leaves
  BY DEF Shape, Stays, Leaves, Fields, Kind, Idle
<1>4. Return(k) \/ Retry(k) => job' = [job EXCEPT ![k] = Idle]
  BY Zenon DEF Return, Retry
<1> QED
  BY <1>1, <1>2, <1>3, <1>4, Zenon

\* The steps the reconcilers have in common.
LEMMA CommonSteps ==
    ASSUME Shape, NEW k \in Kind, NEW o, NEW l, NEW s, NEW id, NEW c,
           NEW ACTION done, done => Stays \/ Leaves
    PROVE  /\ Reconcile(k, c, o, l) /\ l # "post" => NoneMade /\ (Stays \/ Leaves)
           /\ Abort(k, o) => NoneMade /\ (Stays \/ Leaves)
           /\ Record(k, id, o, done) => NoneMade /\ (Stays \/ Leaves)
           /\ RecordState(k, l, s, o) => NoneMade /\ (Stays \/ Leaves)
           /\ CreateRemotePV(k, o, done) => NoneMade /\ (Stays \/ Leaves)
           /\ CreateRemotePVC(k, o, done) => NoneMade /\ (Stays \/ Leaves)
<1>0. UNCHANGED replicas => NoneMade
  BY Zenon DEF NoneMade
<1>1. Reconcile(k, c, o, l) /\ l # "post" => NoneMade /\ (Stays \/ Leaves)
  <2> SUFFICES ASSUME Reconcile(k, c, o, l), l # "post" PROVE NoneMade /\ (Stays \/ Leaves)
    BY Zenon
  <2>1. UNCHANGED replicas
    BY Zenon DEF Reconcile, array
  <2>2. PICK go : go = [Idle EXCEPT !.at = l, !.c = c, !.obj = cache[c]]
    BY Zenon
  <2>3. UNCHANGED job \/ job' = [job EXCEPT ![k] = IF l = "idle" THEN Idle ELSE go]
    BY <2>2, Zenon DEF Reconcile
  <2>4. Fields \subseteq DOMAIN go /\ go.at = l
    BY <2>2, Zenon DEF Idle, Fields
  <2>5. Fields \subseteq DOMAIN Idle /\ Idle.at = "idle"
    BY Zenon DEF Idle, Fields
  <2>6. Stays \/ Leaves
    BY <2>3, <2>4, <2>5, Zenon DEF Shape, Stays, Leaves, Kind
  <2> QED
    BY <1>0, <2>1, <2>6, Zenon
<1>2. Abort(k, o) => NoneMade /\ (Stays \/ Leaves)
  <2>1. Abort(k, o) => UNCHANGED replicas /\ Retry(k)
    BY Zenon DEF Abort, array
  <2> QED
    BY <1>0, <2>1, JobSteps, Zenon
<1>3. Record(k, id, o, done) => NoneMade /\ (Stays \/ Leaves)
  <2>1. Record(k, id, o, done) => UNCHANGED replicas /\ (done \/ Retry(k))
    BY Zenon DEF Record, array
  <2> QED
    BY <1>0, <2>1, JobSteps, Zenon
<1>4. RecordState(k, l, s, o) => NoneMade /\ (Stays \/ Leaves)
  <2>1. RecordState(k, l, s, o) => UNCHANGED replicas /\ (Return(k) \/ Retry(k))
    BY Zenon DEF RecordState, array
  <2> QED
    BY <1>0, <2>1, JobSteps, Zenon
<1>5. CreateRemotePV(k, o, done) => NoneMade /\ (Stays \/ Leaves)
  <2>1. CreateRemotePV(k, o, done) => UNCHANGED replicas /\ (done \/ Goto(k, "claim"))
    BY Zenon DEF CreateRemotePV, array
  <2>2. "claim" # "post"
    BY Zenon
  <2> QED
    BY <1>0, <2>1, <2>2, JobSteps, Zenon
<1>6. CreateRemotePVC(k, o, done) => NoneMade /\ (Stays \/ Leaves)
  <2>1. CreateRemotePVC(k, o, done) =>
           UNCHANGED replicas /\ (done \/ \E rest : job' = [job EXCEPT ![k].at = "pv", ![k].rest = rest])
    BY Zenon DEF CreateRemotePVC, array
  <2>2. ASSUME NEW rest, job' = [job EXCEPT ![k].at = "pv", ![k].rest = rest]
        PROVE  Stays \/ Leaves
    BY <2>2, Zenon DEF Shape, Stays, Leaves, Fields, Kind
  <2> QED
    BY <1>0, <2>1, <2>2, Zenon
<1> QED
  BY <1>1, <1>2, <1>3, <1>4, <1>5, <1>6, Zenon

----------------------------------------------------------------------------
(* The steps of the iboxreplica controller *)

\* The look: the worker gets to its CreateReplica only when it found none.
LEMMA ListStep ==
    ASSUME IInv, NEW o, GetReplicas(o)
    PROVE  IInv'
<1>1. UNCHANGED replicas /\ Shape /\ OneReplicaPerEntity
  BY Zenon DEF GetReplicas, array, IInv
<1>2. CASE Goto("replica", "post") /\ ~AlreadyReplicated
  <2>1. DOMAIN job' = Kind /\ Fields \subseteq DOMAIN job'["replica"] /\ job'["replica"].c = job["replica"].c
    BY <1>1, <1>2, Zenon DEF Goto, Shape, Fields, Kind
  <2>2. \A r \in replicas' : r.entity # ReplicaSpec.entity
    BY <1>1, <1>2, Zenon DEF AlreadyReplicated, ReplicaOf
  <2>3. Unreplicated'
    BY <2>1, <2>2, Zenon DEF Unreplicated, ReplicaSpec
  <2> QED
    BY <1>1, <2>1, <2>3, Zenon DEF IInv, Shape, OneReplicaPerEntity
<1>3. CASE Goto("replica", "abort") \/ Goto("replica", "pvc") \/ Return("replica")
  <2>1. "replica" \in Kind /\ "abort" # "post" /\ "pvc" # "post"
    BY Zenon DEF Kind
  <2>2. Stays \/ Leaves
    BY <1>1, <1>3, <2>1, JobSteps, Zenon
  <2>3. NoneMade
    BY <1>1, Zenon DEF NoneMade
  <2> QED
    BY <2>2, <2>3, Harmless, Zenon
<1> QED
  BY <1>2, <1>3, Zenon DEF GetReplicas

\* The request: the one replica it makes is the first of its entity.
LEMMA CreateStep ==
    ASSUME IInv, NEW o, CreateReplica(o)
    PROVE  IInv'
<1>1. Shape /\ OneReplicaPerEntity /\ \A r \in replicas : r.entity # ReplicaSpec.entity
  BY Zenon DEF IInv, Unreplicated, CreateReplica
<1>2. Leaves
  <2>1. \/ \E id : job' = [job EXCEPT !["replica"].at = "record", !["replica"].id = id]
        \/ Goto("replica", "abort")
    BY Zenon DEF CreateReplica
  <2> QED
    BY <1>1, <2>1 DEF Goto, Shape, Leaves, Fields, Kind
<1>3. CASE Accepts(o)
  <2>1. PICK new : new = [id |-> lastId + 1, entity |-> ReplicaSpec.entity, state |-> "active",
                          owner |-> job["replica"].c]
    BY Zenon
  <2>2. replicas' = replicas \cup {new}
    BY <1>3, <2>1, Zenon DEF CreateReplica, PostReplica
  <2>3. new.entity = ReplicaSpec.entity /\ "entity" \in DOMAIN new
    BY <2>1, Zenon
  <2>4. OneReplicaPerEntity'
    BY <1>1, <2>2, <2>3, Zenon DEF OneReplicaPerEntity
  <2>5. Shape'
    BY <1>1, <1>2, <2>2, <2>3, Zenon DEF Shape, Leaves
  <2>6. Unreplicated'
    BY <1>2, Zenon DEF Unreplicated, Leaves, At
  <2> QED
    BY <2>4, <2>5, <2>6, Zenon DEF IInv
<1>4. CASE ~Accepts(o)
  <2>1. NoneMade
    BY <1>4, Zenon DEF CreateReplica, NoneMade
  <2> QED
    BY <1>2, <2>1, Harmless, Zenon
<1> QED
  BY <1>3, <1>4, Zenon

\* Every step of the iboxreplica controller keeps the invariant.
LEMMA ReplicaSteps ==
    ASSUME IInv, ReplicaStep
    PROVE  IInv'
<1>0. Shape /\ "replica" \in Kind
  BY Zenon DEF IInv, Kind
<1>1. ASSUME NEW o, NEW c, ReplicaReconcile(c, o) PROVE IInv'
  <2>1. ReplicaBranch(cache[c]) # "post"
    BY Zenon DEF ReplicaBranch
  <2>2. Return("replica") => Stays \/ Leaves
    BY <1>0, JobSteps, Zenon
  <2>3. NoneMade /\ (Stays \/ Leaves)
    BY <1>0, <1>1, <2>1, <2>2, CommonSteps, Zenon DEF ReplicaReconcile
  <2> QED
    BY <2>3, Harmless, Zenon
<1>2. ASSUME NEW o, PrepareReplica(o) PROVE IInv'
  <2>1. NoneMade /\ (Goto("replica", "pool") \/ Goto("replica", "abort"))
    BY <1>2, Zenon DEF PrepareReplica, NoneMade, array
  <2>2. "pool" # "post" /\ "abort" # "post"
    BY Zenon
  <2> QED
    BY <1>0, <2>1, <2>2, JobSteps, Harmless, Zenon
<1>3. ASSUME NEW o, LookupPool(o) PROVE IInv'
  <2>1. NoneMade
    BY <1>3, Zenon DEF LookupPool, NoneMade, array
  <2>2. \E pool, obj : job' = [job EXCEPT !["replica"].at = "list", !["replica"].pool = pool, !["replica"].obj = obj]
    BY <1>3, Zenon DEF LookupPool
  <2>3. Leaves
    BY <1>0, <2>2 DEF Shape, Leaves, Fields
  <2> QED
    BY <2>1, <2>3, Harmless, Zenon
<1>4. ASSUME NEW o, GetReplica(o) PROVE IInv'
  <2>1. NoneMade
    BY <1>4, Zenon DEF GetReplica, NoneMade, array
  <2>2. Retry("replica") \/ \E s : job' = [job EXCEPT !["replica"].at = "show", !["replica"].obj.state = s]
    BY <1>4, Zenon DEF GetReplica
  <2>3. ASSUME NEW s, job' = [job EXCEPT !["replica"].at = "show", !["replica"].obj.state = s]
        PROVE  Leaves
    BY <1>0, <2>3, Zenon DEF Shape, Leaves, Fields
  <2> QED
    BY <1>0, <2>1, <2>2, <2>3, JobSteps, Harmless, Zenon
<1>5. ASSUME NEW o, RecordReplica(o) \/ Abort("replica", o) \/ ReplicaPV(o) \/ ReplicaPVC(o) \/ ShowState(o)
      PROVE  IInv'
  <2>1. Return("replica") => Stays \/ Leaves
    BY <1>0, JobSteps, Zenon
  <2>2. Recorded => Stays \/ Leaves
    <3>1. Recorded => \/ \E obj : job' = [job EXCEPT !["replica"].at = "pvc", !["replica"].obj = obj]
                      \/ Return("replica")
      BY Zenon DEF Recorded
    <3>2. ASSUME NEW obj, job' = [job EXCEPT !["replica"].at = "pvc", !["replica"].obj = obj]
          PROVE  Leaves
      BY <1>0, <3>2, Zenon DEF Shape, Leaves, Fields
    <3> QED
      BY <2>1, <3>1, <3>2, Zenon
  <2>3. RecordReplica(o) => NoneMade /\ (Stays \/ Leaves)
    BY <1>0, <2>2, CommonSteps, Zenon DEF RecordReplica
  <2>4. Abort("replica", o) \/ ReplicaPV(o) \/ ReplicaPVC(o) \/ ShowState(o) => NoneMade /\ (Stays \/ Leaves)
    BY <1>0, <2>1, CommonSteps, Zenon DEF ReplicaPV, ReplicaPVC, ShowState
  <2> QED
    BY <1>5, <2>3, <2>4, Harmless, Zenon
<1>6. ASSUME NEW o, ReplicaClaims(o) PROVE IInv'
  <2>1. NoneMade
    BY <1>6, Zenon DEF ReplicaClaims, NoneMade, array
  <2>2. Return("replica") \/ \E rest : job' = [job EXCEPT !["replica"].at = "pv", !["replica"].rest = rest]
    BY <1>6, Zenon DEF ReplicaClaims
  <2>3. ASSUME NEW rest, job' = [job EXCEPT !["replica"].at = "pv", !["replica"].rest = rest]
        PROVE  Leaves
    BY <1>0, <2>3, Zenon DEF Shape, Leaves, Fields
  <2> QED
    BY <1>0, <2>1, <2>2, <2>3, JobSteps, Harmless, Zenon
<1>7. ASSUME NEW o, DeleteReplica(o) PROVE IInv'
  <2>1. NoneMade
    BY <1>7, Zenon DEF DeleteReplica, DropReplica, NoneMade
  <2>2. Return("replica") \/ Retry("replica")
    BY <1>7, Zenon DEF DeleteReplica
  <2> QED
    BY <1>0, <2>1, <2>2, JobSteps, Harmless, Zenon
<1> QED
  BY <1>1, <1>2, <1>3, <1>4, <1>5, <1>6, <1>7, ListStep, CreateStep, Zenon DEF ReplicaStep

----------------------------------------------------------------------------
(* The other controllers and the environment *)

\* A step of the iboxcg controller changes at most the state of a replica.
LEMMA CgSteps ==
    ASSUME IInv, CgStep
    PROVE  IInv'
<1>0. Shape /\ "cg" \in Kind /\ "cg" # "replica"
  BY Zenon DEF IInv, Kind
<1> SUFFICES NoneMade /\ (Stays \/ Leaves)
  BY Harmless, Zenon
<1>1. ASSUME NEW o, NEW c, CgReconcile(c, o) PROVE NoneMade /\ (Stays \/ Leaves)
  <2>1. CgBranch(cache[c]) # "post"
    BY Zenon DEF CgBranch
  <2>2. Return("cg") => Stays \/ Leaves
    BY <1>0, JobSteps, Zenon
  <2> QED
    BY <1>0, <1>1, <2>1, <2>2, CommonSteps, Zenon DEF CgReconcile
<1>2. ASSUME NEW o, PrepareCg(o) \/ GetMembers(o) \/ GetReplicaForCG(o) PROVE NoneMade /\ (Stays \/ Leaves)
  <2>1. NoneMade
    BY <1>2, Zenon DEF PrepareCg, GetMembers, GetReplicaForCG, NoneMade, array
  <2>2. \/ \E l, obj : job' = [job EXCEPT !["cg"].at = l, !["cg"].obj = obj]
        \/ \E l, seen : job' = [job EXCEPT !["cg"].seen = seen, !["cg"].at = l]
        \/ \E l, id : job' = [job EXCEPT !["cg"].id = id, !["cg"].at = l]
        \/ (\E l : Goto("cg", l)) \/ Return("cg") \/ Retry("cg")
    BY <1>2, Zenon DEF PrepareCg, GetMembers, GetReplicaForCG
  <2>3. ASSUME NEW l, NEW x, \/ job' = [job EXCEPT !["cg"].at = l, !["cg"].obj = x]
                             \/ job' = [job EXCEPT !["cg"].seen = x, !["cg"].at = l]
                             \/ job' = [job EXCEPT !["cg"].id = x, !["cg"].at = l]
        PROVE  Stays
    BY <1>0, <2>3, Zenon DEF Shape, Stays, Kind
  <2>4. (\E l : Goto("cg", l)) \/ Return("cg") \/ Retry("cg") => Stays \/ Leaves
    BY <1>0, JobSteps, Zenon
  <2> QED
    BY <2>1, <2>2, <2>3, <2>4, Zenon
<1>3. ASSUME NEW o, \/ SuspendReplica(o) \/ PollSuspended(o) \/ ResumeReplica(o)
                    \/ AddMemberToCG(o) \/ RemoveMemberFromCG(o)
      PROVE  NoneMade /\ (Stays \/ Leaves)
  <2>1. UNCHANGED replicas \/ \E id, s : SetState(id, s)
    BY <1>3, Zenon DEF SuspendReplica, PollSuspended, ResumeReplica, AddMemberToCG, RemoveMemberFromCG,
                PostSuspend, PostResume, array
  <2>2. (\E l : Goto("cg", l)) \/ Retry("cg")
    BY <1>3, Zenon DEF SuspendReplica, PollSuspended, ResumeReplica, AddMemberToCG, RemoveMemberFromCG
  <2> QED
    BY <1>0, <2>1, <2>2, JobSteps, Zenon DEF NoneMade
<1>4. ASSUME NEW o, CgClaims(o) PROVE NoneMade /\ (Stays \/ Leaves)
  <2>1. NoneMade
    BY <1>4, Zenon DEF CgClaims, NoneMade, array
  <2>2. \/ \E rest : job' = [job EXCEPT !["cg"].at = "pv", !["cg"].rest = rest]
        \/ job' = [job EXCEPT !["cg"].at = "record"]
    BY <1>4, Zenon DEF CgClaims
  <2> QED
    BY <1>0, <2>1, <2>2, Zenon DEF Shape, Stays, Kind
<1>5. ASSUME NEW o, CgPV(o) \/ CgPVC(o) \/ RecordCg(o) \/ CompleteCg(o) \/ Abort("cg", o)
      PROVE  NoneMade /\ (Stays \/ Leaves)
  <2>1. Return("cg") => Stays \/ Leaves
    BY <1>0, JobSteps, Zenon
  <2>2. Goto("cg", "record") => Stays \/ Leaves
    BY <1>0, JobSteps, Zenon
  <2>3. CgPV(o) \/ CgPVC(o) => NoneMade /\ (Stays \/ Leaves)
    BY <1>0, <2>2, CommonSteps, Zenon DEF CgPV, CgPVC
  <2>4. RecordCg(o) \/ CompleteCg(o) \/ Abort("cg", o) => NoneMade /\ (Stays \/ Leaves)
    BY <1>0, <2>1, CommonSteps, Zenon DEF RecordCg, CompleteCg
  <2> QED
    BY <1>5, <2>3, <2>4, Zenon
<1> QED
  BY <1>1, <1>2, <1>3, <1>4, <1>5, Zenon DEF CgStep

\* A step of the iboxpromote controller leaves the replicas alone.
LEMMA PromoteSteps ==
    ASSUME IInv, PromoteStep
    PROVE  IInv'
<1>0. Shape /\ "promote" \in Kind /\ "promote" # "replica"
  BY Zenon DEF IInv, Kind
<1> SUFFICES NoneMade /\ (Stays \/ Leaves)
  BY Harmless, Zenon
<1>1. Return("promote") => Stays \/ Leaves
  BY <1>0, JobSteps, Zenon
<1>2. ASSUME NEW o, NEW c, PromoteReconcile(c, o) PROVE NoneMade /\ (Stays \/ Leaves)
  <2>1. PromoteBranch(cache[c]) # "post"
    BY Zenon DEF PromoteBranch
  <2> QED
    BY <1>0, <1>1, <1>2, <2>1, CommonSteps, Zenon DEF PromoteReconcile
<1>3. ASSUME NEW o, PreparePromote(o) \/ PromoteSnapshot(o) PROVE NoneMade /\ (Stays \/ Leaves)
  <2>1. NoneMade
    BY <1>3, Zenon DEF PreparePromote, PromoteSnapshot, NoneMade, array
  <2>2. (\E l : Goto("promote", l)) \/ Return("promote")
    BY <1>3, Zenon DEF PreparePromote, PromoteSnapshot
  <2> QED
    BY <1>0, <1>1, <2>1, <2>2, JobSteps, Zenon
<1>4. ASSUME NEW o, RecordPromote(o) \/ CompletePromote(o) \/ Abort("promote", o)
      PROVE  NoneMade /\ (Stays \/ Leaves)
  BY <1>0, <1>1, <1>4, CommonSteps, Zenon DEF RecordPromote, CompletePromote
<1> QED
  BY <1>2, <1>3, <1>4, Zenon DEF PromoteStep

\* Users, informers, restarts, links and suspensions that take effect.
LEMMA OtherSteps ==
    ASSUME IInv, Environment \/ Progress
    PROVE  IInv'
<1>0. Shape
  BY Zenon DEF IInv
<1>1. UNCHANGED replicas \/ \E id, s : SetState(id, s)
  BY Zenon DEF Environment, Progress, UserCreate, UserDelete, Resync, Crash, LinkDown, Deliver, Suspended, LinkUp, array
<1>2. UNCHANGED job \/ \E k \in Kind : job' = [job EXCEPT ![k] = Idle]
  BY Zenon DEF Environment, Progress, UserCreate, UserDelete, Resync, Crash, LinkDown, Deliver, Suspended, LinkUp
<1>3. Stays \/ Leaves
  BY <1>0, <1>2 DEF Shape, Stays, Leaves, Fields, Kind, Idle
<1> QED
  BY <1>1, <1>3, Harmless, Zenon DEF NoneMade

----------------------------------------------------------------------------
\* At the start there is at most one replica, and no worker runs.
LEMMA InitIInv == Init => IInv
<1> SUFFICES ASSUME Init PROVE IInv
  BY Zenon
<1>1. \A r \in replicas : \E c \in scenario.ready : r = ReadyReplica(c)
  BY Zenon DEF Init
<1>2. \A c, d \in scenario.ready : c = d
  BY ReadyAssumption, Zenon DEF Init
<1>3. OneReplicaPerEntity
  BY <1>1, <1>2, Zenon DEF OneReplicaPerEntity
<1>4. \A r \in replicas : "entity" \in DOMAIN r
  BY <1>1 DEF ReadyReplica
<1>5. DOMAIN job = Kind /\ job["replica"] = Idle
  BY Zenon DEF Init, Kind
<1>6. Shape /\ Unreplicated
  BY <1>4, <1>5 DEF Shape, Unreplicated, At, Idle, Fields
<1> QED
  BY <1>3, <1>6, Zenon DEF IInv

\* Every step keeps the invariant.
LEMMA NextIInv == IInv /\ [Next]_vars => IInv'
<1> SUFFICES ASSUME IInv, [Next]_vars PROVE IInv'
  BY Zenon
<1>1. CASE UNCHANGED vars
  <2>1. UNCHANGED <<job, replicas>>
    BY <1>1, Zenon DEF vars, array
  <2>2. NoneMade /\ Stays
    BY <2>1, Zenon DEF IInv, Shape, NoneMade, Stays
  <2> QED
    BY <2>2, Harmless, Zenon
<1>2. CASE Next
  BY <1>2, ReplicaSteps, CgSteps, PromoteSteps, OtherSteps, Zenon DEF Next
<1> QED
  BY <1>1, <1>2, Zenon

\* For any set of custom resources that name any entities, however they are
\* created, deleted, retried and read late, with failed calls, lost answers
\* and restarts of the controllers at any point, no volume and no group ever
\* has two replicas.
THEOREM OneReplicaEach == Spec => []OneReplicaPerEntity
<1>1. Init => IInv
  BY InitIInv, Zenon
<1>2. IInv /\ [Next]_vars => IInv'
  BY NextIInv, Zenon
<1>3. IInv => OneReplicaPerEntity
  BY Zenon DEF IInv
<1> QED
  BY <1>1, <1>2, <1>3, PTL DEF Spec

----------------------------------------------------------------------------
(* What the status of a resource says is so.                                *)
(*                                                                          *)
(* A status is written from what a worker knows, and a worker goes on from  *)
(* a version of the resource that may be old.  The invariant is therefore   *)
(* about every version that is somewhere, on the server, on its way or in   *)
(* the cache, and about what a worker has done when it comes to record it.  *)

Entity == Volume \cup {CRSpec[c].entity : c \in CR}
Mode == {"active", "suspending", "suspended"}
State == {"", "error", "created", "completed"} \cup Mode
Label ==
    {"idle", "create", "update", "delete", "abort", "pool", "list", "post", "record", "pvc", "pv", "claim", "show",
     "members", "find", "suspend", "poll", "change", "resume"}
Version ==
    [rv : Nat, phase : {"none", "live", "deleting", "gone"}, fin : BOOLEAN, id : Nat, state : State]
Job ==
    [at : Label, c : CR \cup {None}, obj : Version, pool : BOOLEAN, id : Nat, seen : SUBSET Entity,
     rest : SUBSET Entity]
Replica == [id : Nat, entity : Entity, state : Mode, owner : CR]

ApiOK == cr \in [CR -> Version] /\ news \in [CR -> Seq(Version)] /\ cache \in [CR -> Version]
ArrayOK ==
    /\ replicas \in SUBSET Replica /\ lastId \in Nat /\ faults \in Nat
    /\ members \in SUBSET Entity /\ masters \in SUBSET Entity

\* The versions of c that are somewhere.
Versions(c) == {cr[c], cache[c]} \cup {news[c][i] : i \in 1..Len(news[c])}

HasReplica(c, i) == \E r \in replicas : r.id = i /\ r.entity = CRSpec[c].entity /\ r.owner = c

\* A resource was made to take e out of the group.
Removing(e) ==
    \E d \in CR : /\ cr[d].phase # "none" /\ CRSpec[d].kind = "cg" /\ CRSpec[d].action = "REMOVE"
                  /\ CRSpec[d].entity = e

\* What an Iboxcg or Iboxpromote is for has been done.
Achieved(c) ==
    /\ CRSpec[c].kind = "cg" /\ CRSpec[c].action # "REMOVE" =>
          CRSpec[c].entity \in members \/ Removing(CRSpec[c].entity)
    /\ CRSpec[c].kind = "promote" => CRSpec[c].entity \in masters

\* A version is older than the server's or is the server's, and does not claim
\* what is not so.
Finished(x) == x.id # 0 \/ x.state = "completed"
Known(c, x) ==
    /\ x.rv <= cr[c].rv
    /\ x.rv = cr[c].rv => x = cr[c]
    /\ x.phase = "deleting" => x.fin
    /\ x.phase # "none" => cr[c].phase # "none"
    /\ Finished(x) => Achieved(c)
    /\ CRSpec[c].kind = "replica" => x.state # "completed"

\* No ID is given out twice.
Identified ==
    \A r \in replicas : r.id # 0 /\ r.id <= lastId /\ \A s \in replicas : r.id = s.id => r = s

\* The replica in a status is there.
StatusKept == \A c \in Of("replica") : Exists(cr[c]) /\ cr[c].id # 0 => HasReplica(c, cr[c].id)

\* What a worker knows of the resource it is on.
Working(k) ==
    job[k].at # "idle" =>
        /\ job[k].c \in Of(k) /\ cr[job[k].c].phase # "none"
        /\ k = "replica" /\ job[k].at = "record" => HasReplica(job[k].c, job[k].id)
        /\ k = "replica" /\ job[k].at = "show" => job[k].obj.state # "completed"
        /\ k = "replica" /\ job[k].at = "delete" =>
              /\ cr[job[k].c].phase = "gone"
              /\ \A r \in replicas : r.id = job[k].obj.id => r.owner = job[k].c
        /\ k = "cg" /\ job[k].at \in {"record", "pvc", "pv", "claim", "resume", "update"} => Achieved(job[k].c)
        /\ k = "promote" /\ job[k].at \in {"record", "update"} => Achieved(job[k].c)

SInv ==
    /\ ApiOK /\ ArrayOK /\ job \in [Kind -> Job]
    /\ Identified /\ StatusKept
    /\ \A c \in CR : \A x \in Versions(c) : Known(c, x)
    /\ \A k \in Kind : Working(k)

\* A version of c that may be written.
Written(c, x) ==
    /\ x.phase # "none" /\ (x.phase = "deleting" => x.fin)
    /\ Finished(x) => Achieved(c)
    /\ CRSpec[c].kind = "replica" => x.state # "completed" /\ (Exists(x) /\ x.id # 0 => HasReplica(c, x.id))

\* The effect of a step on the resources, on the array and on the workers.
ApiEffect ==
    /\ ApiOK'
    /\ \A c \in CR :
          /\ Versions(c)' \subseteq Versions(c) \cup {cr'[c]}
          /\ \/ cr'[c] = cr[c]
             \/ cr[c].phase # "gone" /\ cr'[c].rv = cr[c].rv + 1 /\ Written(c, cr'[c])

\* Replicas change their state at most.
SameReplicas ==
    /\ \A r \in replicas' : \E q \in replicas : q.id = r.id /\ q.entity = r.entity /\ q.owner = r.owner
    /\ \A q \in replicas : \E r \in replicas' : q.id = r.id /\ q.entity = r.entity /\ q.owner = r.owner

ArrayEffect ==
    /\ ArrayOK' /\ Identified'
    /\ \A c \in CR, i \in Nat : HasReplica(c, i) /\ cr[c].phase # "gone" => HasReplica(c, i)'
    /\ \A c \in CR : Achieved(c) => Achieved(c)'

Moves(k) == job' \in [Kind -> Job] /\ \A u \in Kind \ {k} : job'[u] = job[u]

\* Nothing changes on the array but replication states.
LEMMA SameKeeps ==
    ASSUME SInv, SameReplicas, NEW c \in CR, NEW i
    PROVE  HasReplica(c, i)' <=> HasReplica(c, i)
  BY DEF SameReplicas, HasReplica

\* A worker that is not moved still knows what it knew.
LEMMA WorkingKept ==
    ASSUME SInv, ApiEffect, ArrayEffect, NEW k \in Kind, job'[k] = job[k], k = "replica" => SameReplicas
    PROVE  Working(k)'
<1> SUFFICES ASSUME job[k].at # "idle"
             PROVE  Working(k)'
  BY Zenon DEF Working
<1>1. Working(k) /\ job[k].c \in Of(k) /\ job[k].c \in CR /\ job[k] \in Job
  BY Zenon DEF SInv, Working, Of
<1>2. cr'[job[k].c].phase # "none" /\ (cr[job[k].c].phase = "gone" => cr'[job[k].c].phase = "gone")
  BY <1>1, Zenon DEF ApiEffect, Written, Working
<1>3. Achieved(job[k].c) => Achieved(job[k].c)'
  BY <1>1, Zenon DEF ArrayEffect
<1>4. k = "replica" /\ job[k].at = "record" => HasReplica(job[k].c, job[k].id)'
  BY <1>1, SameKeeps, Zenon DEF Working
<1>5. k = "replica" /\ job[k].at = "delete" => \A r \in replicas' : r.id = job[k].obj.id => r.owner = job[k].c
  BY <1>1, Zenon DEF Working, SameReplicas
<1> QED
  BY <1>1, <1>2, <1>3, <1>4, <1>5, Zenon DEF Working

\* All of them are versions.
LEMMA VersionsOK ==
    ASSUME SInv, NEW c \in CR
    PROVE  Versions(c) \subseteq Version
<1>1. cr[c] \in Version /\ cache[c] \in Version /\ news[c] \in Seq(Version)
  BY Zenon DEF SInv, ApiOK
<1>2. \A i \in 1..Len(news[c]) : news[c][i] \in Version
  BY <1>1
<1> QED
  BY <1>1, <1>2, Zenon DEF Versions

\* Steps with these effects keep the invariant.
LEMMA StatusKeeps ==
    ASSUME SInv, ApiEffect, ArrayEffect, NEW k \in Kind, Moves(k), Working(k)', k = "replica" \/ SameReplicas
    PROVE  SInv'
<1>1. ASSUME NEW c \in CR, NEW x \in Versions(c)'
      PROVE  Known(c, x)'
  <2>0. cr[c] \in Version /\ cr'[c] \in Version /\ (Achieved(c) => Achieved(c)')
    BY Zenon DEF SInv, ApiOK, ApiEffect, ArrayEffect
  <2>1. CASE x \in Versions(c)
    <3>1. Known(c, x) /\ x.rv \in Nat
      BY <2>1, VersionsOK, Zenon DEF SInv, Version
    <3> QED
      BY <2>0, <3>1, SMTT(30) DEF ApiEffect, Written, Known, Version
  <2>2. CASE x = cr'[c]
    <3>1. Known(c, cr[c])
      BY Zenon DEF SInv, Versions
    <3> QED
      BY <2>0, <2>2, <3>1, SMTT(30) DEF ApiEffect, Written, Known, Version
  <2> QED
    BY <1>1, <2>1, <2>2, Zenon DEF ApiEffect
<1>2. StatusKept'
  <2> SUFFICES ASSUME NEW c \in Of("replica"), Exists(cr'[c]), cr'[c].id # 0
               PROVE  HasReplica(c, cr[c].id)'
    BY Zenon DEF StatusKept, Of
  <2>1. c \in CR /\ CRSpec[c].kind = "replica" /\ cr'[c].id \in Nat
    BY Zenon DEF Of, ApiEffect, ApiOK, Version
  <2>2. HasReplica(c, cr'[c].id) /\ cr[c].phase # "gone"
    BY <2>1, Zenon DEF SInv, StatusKept, ApiEffect, Written, Exists
  <2>3. PICK i \in Nat : i = cr'[c].id
    BY <2>1, Zenon
  <2>4. HasReplica(c, i)'
    BY <2>1, <2>2, <2>3, Zenon DEF ArrayEffect
  <2> QED
    BY <2>3, <2>4, Zenon DEF HasReplica
<1>3. \A u \in Kind : Working(u)'
  BY WorkingKept, Zenon DEF Moves
<1> QED
  BY <1>1, <1>2, <1>3, Zenon DEF SInv, ApiEffect, ArrayEffect, Moves

\* The resources are left alone.
LEMMA ApiSame ==
    ASSUME SInv, UNCHANGED <<cr, news, cache>>
    PROVE  ApiEffect
  BY Zenon DEF SInv, ApiEffect, ApiOK, Versions

\* The server stores a version.
LEMMA StoreEffect ==
    ASSUME SInv, NEW c \in CR, NEW obj \in Version, Store(c, obj), cache' = cache, cr[c].phase # "gone",
           Written(c, obj)
    PROVE  ApiEffect
<1>0. cr \in [CR -> Version] /\ news \in [CR -> Seq(Version)] /\ cache \in [CR -> Version]
  BY Zenon DEF SInv, ApiOK
<1>1. CASE UNCHANGED api
  BY <1>1, ApiSame, Zenon DEF api
<1> DEFINE new == [obj EXCEPT !.rv = cr[c].rv + 1]
<1>2. /\ new \in Version /\ new.rv = cr[c].rv + 1 /\ new.phase = obj.phase /\ new.fin = obj.fin
      /\ new.id = obj.id /\ new.state = obj.state
  <2>1. cr[c].rv + 1 \in Nat
    BY <1>0 DEF Version
  <2> QED
    BY <2>1, Zenon DEF Version
<1>3. CASE cr' = [cr EXCEPT ![c] = new] /\ news' = [news EXCEPT ![c] = Append(@, new)]
  <2> HIDE DEF new
  <2>1. cr' \in [CR -> Version] /\ cr'[c] = new /\ \A d \in CR \ {c} : cr'[d] = cr[d]
    BY <1>0, <1>2, <1>3, Zenon
  <2>2. /\ news' \in [CR -> Seq(Version)] /\ news'[c] = Append(news[c], new)
        /\ \A d \in CR \ {c} : news'[d] = news[d]
    BY <1>0, <1>2, <1>3
  <2>3. \A i \in 1..Len(news'[c]) : news'[c][i] = new \/ (i \in 1..Len(news[c]) /\ news'[c][i] = news[c][i])
    BY <1>0, <2>2
  <2>4. Versions(c)' \subseteq Versions(c) \cup {cr'[c]}
    BY <2>1, <2>3, Zenon DEF Versions
  <2>5. \A d \in CR \ {c} : Versions(d)' \subseteq Versions(d) \cup {cr'[d]}
    BY <2>1, <2>2, Zenon DEF Versions
  <2>6. Written(c, new)
    BY <1>2, Zenon DEF Written, Finished, Exists
  <2> QED
    BY <1>0, <1>2, <2>1, <2>2, <2>4, <2>5, <2>6, Zenon DEF ApiEffect, ApiOK
<1> QED
  BY <1>1, <1>3, Zenon DEF Store

\* A status is written.
LEMMA StatusEffect ==
    ASSUME SInv, NEW c \in CR, NEW i \in Nat, NEW s \in State, Exists(cr[c]),
           Store(c, WithStatus(c, i, s)), cache' = cache,
           i # 0 \/ s = "completed" => Achieved(c),
           CRSpec[c].kind = "replica" => s # "completed" /\ (i # 0 => HasReplica(c, i))
    PROVE  ApiEffect
<1> DEFINE obj == WithStatus(c, i, s)
<1>1. /\ obj \in Version /\ obj.phase = cr[c].phase /\ obj.fin = cr[c].fin /\ obj.id = i /\ obj.state = s
  BY Zenon DEF SInv, ApiOK, Version, WithStatus
<1>2. Known(c, cr[c])
  BY Zenon DEF SInv, Versions
<1> HIDE DEF obj
<1>3. Written(c, obj) /\ cr[c].phase # "gone"
  BY <1>1, <1>2, Zenon DEF Written, Known, Finished, Exists
<1>4. Store(c, obj)
  BY Zenon DEF obj
<1> QED
  BY <1>1, <1>3, <1>4, StoreEffect, Zenon

\* An error is written over the status.
LEMMA ErrorEffect ==
    ASSUME SInv, NEW c \in CR, Exists(cr[c]), Store(c, WithStatus(c, 0, "error")), cache' = cache
    PROVE  ApiEffect
<1>1. 0 \in Nat /\ "error" \in State /\ "error" # "completed"
  BY Zenon DEF State
<1> QED
  BY <1>1, StatusEffect, Zenon

\* The array is left alone.
LEMMA ArraySame ==
    ASSUME SInv, UNCHANGED <<replicas, lastId, members, masters>>, ApiEffect, faults' \in Nat
    PROVE  ArrayEffect /\ SameReplicas
<1>1. ArrayOK' /\ Identified' /\ SameReplicas
  BY Zenon DEF SInv, ArrayOK, Identified, SameReplicas
<1>2. \A e : Removing(e) => Removing(e)'
  BY Zenon DEF Removing, ApiEffect, Written
<1>3. \A c \in CR : Achieved(c) => Achieved(c)'
  BY <1>2, Zenon DEF Achieved
<1>4. \A c \in CR, i \in Nat : HasReplica(c, i) => HasReplica(c, i)'
  BY Zenon DEF HasReplica
<1> QED
  BY <1>1, <1>3, <1>4, Zenon DEF ArrayEffect

\* A worker between two reconciles.
LEMMA IdleOK == Idle \in Job /\ Idle.at = "idle" /\ Absent \in Version
<1>1. Absent \in Version
  BY Zenon DEF Absent, Version, State
<1> QED
  BY <1>1, Zenon DEF Idle, Job, Label

\* Where a worker goes.
LEMMA JobMoves ==
    ASSUME SInv, NEW k \in Kind
    PROVE  /\ \A l \in Label : Goto(k, l) =>
                 /\ Moves(k) /\ job'[k].at = l /\ job'[k].c = job[k].c /\ job'[k].obj = job[k].obj
                 /\ job'[k].id = job[k].id /\ job'[k].seen = job[k].seen /\ job'[k].pool = job[k].pool
           /\ Return(k) \/ Retry(k) => Moves(k) /\ job'[k] = Idle /\ job'[k].at = "idle"
<1>1. ASSUME NEW l \in Label, Goto(k, l)
      PROVE  /\ Moves(k) /\ job'[k].at = l /\ job'[k].c = job[k].c /\ job'[k].obj = job[k].obj
             /\ job'[k].id = job[k].id /\ job'[k].seen = job[k].seen /\ job'[k].pool = job[k].pool
  <2> DEFINE j == [job[k] EXCEPT !.at = l]
  <2>1. job' = [job EXCEPT ![k] = j]
    BY <1>1, Zenon DEF Goto
  <2>2. /\ j \in Job /\ j.at = l /\ j.c = job[k].c /\ j.obj = job[k].obj /\ j.id = job[k].id
        /\ j.seen = job[k].seen /\ j.pool = job[k].pool
    BY Zenon DEF SInv, Job
  <2> HIDE DEF j
  <2> QED
    BY <2>1, <2>2, Zenon DEF SInv, Moves
<1>2. ASSUME Return(k) \/ Retry(k)
      PROVE  Moves(k) /\ job'[k] = Idle
  BY <1>2, IdleOK, Zenon DEF SInv, Moves, Return, Retry
<1> QED
  BY <1>1, <1>2, IdleOK, Zenon

Final(k) == IF k = "cg" THEN {"record", "pvc", "pv", "claim", "resume", "update"} ELSE {"record", "update"}

\* A worker goes on with its resource, to a label where it need not know more.
LEMMA WorkingGoes ==
    ASSUME SInv, ApiEffect, NEW k \in Kind, job[k].at # "idle", job'[k].c = job[k].c,
           k = "replica" => job'[k].at \notin {"record", "show", "delete"},
           k # "replica" /\ job'[k].at \in Final(k) => Achieved(job[k].c)'
    PROVE  Working(k)'
<1>1. job[k].c \in Of(k) /\ job[k].c \in CR /\ cr[job[k].c].phase # "none"
  BY Zenon DEF SInv, Working, Of
<1>2. cr'[job[k].c].phase # "none"
  BY <1>1, Zenon DEF ApiEffect, Written
<1> QED
  BY <1>1, <1>2, Zenon DEF Working, Final

\* It ends its reconcile.
LEMMA WorkingEnds ==
    ASSUME NEW k \in Kind, job'[k].at = "idle"
    PROVE  Working(k)'
  BY Zenon DEF Working

\* Faults are counted.
LEMMA FaultsOK ==
    ASSUME SInv
    PROVE  /\ faults' = faults => faults' \in Nat
           /\ \A c : Fault(c) => faults' \in Nat
           /\ \A c, o : Charge(c, o) => faults' \in Nat
  BY DEF SInv, ArrayOK, Fault, Charge

\* handleFinalizer writes what may be written.
LEMMA FinalizerEffect ==
    ASSUME SInv, NEW c \in CR, Exists(cr[c]), Store(c, Finalized(c)), cache' = cache
    PROVE  ApiEffect
<1> DEFINE obj == Finalized(c)
<1>1. /\ obj \in Version /\ obj.id = cr[c].id /\ obj.state = cr[c].state
      /\ IF cr[c].phase = "deleting" THEN obj.phase = "gone" ELSE obj.fin /\ obj.phase = cr[c].phase
  BY Zenon DEF SInv, ApiOK, Version, Finalized
<1>2. Known(c, cr[c]) /\ (CRSpec[c].kind = "replica" /\ cr[c].id # 0 => HasReplica(c, cr[c].id))
  BY Zenon DEF SInv, Versions, StatusKept, Of
<1> HIDE DEF obj
<1>3. Written(c, obj) /\ cr[c].phase # "gone"
  BY <1>1, <1>2, Zenon DEF Written, Known, Finished, Exists
<1>4. Store(c, obj)
  BY Zenon DEF obj
<1> QED
  BY <1>1, <1>3, <1>4, StoreEffect, Zenon

\* A deletion that the finalizer lets through.
LEMMA FinalizerGone ==
    ASSUME SInv, NEW c \in CR, cr[c].phase = "deleting", Store(c, Finalized(c))
    PROVE  cr'[c].phase = "gone"
<1> DEFINE obj == Finalized(c)
<1>0. cr[c] \in Version /\ cr[c].rv + 1 \in Nat
  BY DEF SInv, ApiOK, Version
<1>1. obj \in Version /\ obj.phase = "gone"
  BY <1>0, Zenon DEF Version, Finalized
<1> HIDE DEF obj
<1>2. [obj EXCEPT !.rv = cr[c].rv].phase = "gone" /\ [obj EXCEPT !.rv = cr[c].rv + 1].phase = "gone"
  BY <1>0, <1>1, Zenon DEF Version
<1>3. [obj EXCEPT !.rv = cr[c].rv] # cr[c]
  BY <1>2, Zenon
<1>4. cr' = [cr EXCEPT ![c] = [obj EXCEPT !.rv = cr[c].rv + 1]]
  BY <1>3, Zenon DEF Store, obj
<1> QED
  BY <1>2, <1>4, Zenon DEF SInv, ApiOK

\* What a worker starts a reconcile from.
Begun(k, c, next) == job'[k].at = next /\ job'[k].c = c /\ job'[k].obj = cache[c]

\* Every reconcile begins with a version that is not newer than the server's.
LEMMA ReconcileStatus ==
    ASSUME SInv, NEW k \in Kind, NEW c \in Of(k), NEW o \in Outcome, NEW next \in {"idle", "create", "update", "delete"},
           Reconcile(k, c, o, next),
           next = "delete" => k = "replica" /\ cache[c].phase = "deleting",
           next = "update" => cache[c].id # 0
    PROVE  SInv'
<1>0. c \in CR /\ cache[c] \in Version /\ Known(c, cache[c]) /\ CRSpec[c].kind = k
  BY Zenon DEF SInv, ApiOK, Of, Versions
<1>1. cache' = cache /\ UNCHANGED <<replicas, lastId, members, masters>>
  BY Zenon DEF Reconcile, array
<1>2. faults' = faults \/ Charge("Update", o)
  BY Zenon DEF Reconcile
<1>3. \/ UNCHANGED <<cr, news>>
      \/ Exists(cache[c]) /\ Current(c, cache[c]) /\ Store(c, Finalized(c))
  BY Zenon DEF Reconcile, api
<1>4. ApiEffect
  <2>1. CASE UNCHANGED <<cr, news>>
    BY <1>1, <2>1, ApiSame, Zenon
  <2>2. CASE Exists(cache[c]) /\ Current(c, cache[c]) /\ Store(c, Finalized(c))
    BY <1>0, <1>1, <2>2, FinalizerEffect, Zenon DEF Current
  <2> QED
    BY <1>3, <2>1, <2>2, Zenon
<1>5. ArrayEffect /\ SameReplicas
  BY <1>1, <1>2, <1>4, FaultsOK, ArraySame, Zenon
<1>6. CASE job' = job
  <2>1. Moves(k) /\ job'[k] = job[k]
    BY <1>6, Zenon DEF SInv, Moves
  <2> QED
    BY <1>4, <1>5, <2>1, WorkingKept, StatusKeeps, Zenon
<1>7. CASE next = "idle" /\ job' = [job EXCEPT ![k] = Idle]
  <2>1. Moves(k) /\ job'[k].at = "idle"
    BY <1>7, IdleOK, Zenon DEF SInv, Moves
  <2> QED
    BY <1>4, <1>5, <2>1, WorkingEnds, StatusKeeps, Zenon
<1> DEFINE go == [Idle EXCEPT !.at = next, !.c = c, !.obj = cache[c]]
<1>8. CASE /\ next # "idle" /\ job' = [job EXCEPT ![k] = go] /\ Exists(cache[c])
           /\ \/ ~NeedsFinalizer(cache[c])
              \/ Current(c, cache[c]) /\ Store(c, Finalized(c))
  <2>1. go \in Job /\ go.at = next /\ go.c = c /\ go.obj = cache[c]
    <3>1. next \in Label
      BY Zenon DEF Label
    <3> QED
      BY <1>0, <3>1, IdleOK, Zenon DEF Idle, Job
  <2> HIDE DEF go
  <2>2. Moves(k) /\ Begun(k, c, next)
    BY <1>8, <2>1, Zenon DEF SInv, Moves, Begun
  <2>3. cr[c].phase # "none" /\ cr'[c].phase # "none"
    BY <1>0, <1>4, <1>8, Zenon DEF Known, Exists, ApiEffect, Written
  <2>4. next = "update" => Achieved(c)'
    BY <1>0, <1>5, Zenon DEF Known, Finished, ArrayEffect
  <2>5. CASE next = "delete"
    <3>1. cr[c] = cache[c] /\ Store(c, Finalized(c))
      BY <1>0, <1>8, <2>5, Zenon DEF Known, NeedsFinalizer, Current, Version
    <3>2. cr'[c].phase = "gone"
      BY <1>0, <2>5, <3>1, FinalizerGone, Zenon
    <3>3. ASSUME NEW r \in replicas, r.id = cache[c].id
          PROVE  r.owner = c
      <4>1. r.id # 0 /\ \A q \in replicas : q.id = r.id => q = r
        BY Zenon DEF SInv, Identified
      <4>2. HasReplica(c, cr[c].id)
        BY <1>0, <1>8, <2>5, <3>1, <3>3, <4>1, Zenon DEF SInv, StatusKept
      <4> QED
        BY <3>1, <3>3, <4>1, <4>2, Zenon DEF HasReplica
    <3>4. Working(k)'
      <4>1. \A r \in replicas' : r.id = job'[k].obj.id => r.owner = job'[k].c
        BY <1>1, <2>2, <3>3, Zenon DEF Begun
      <4> QED
        BY <2>2, <2>3, <2>5, <3>2, <4>1, Zenon DEF Working, Begun
    <3> QED
      BY <1>4, <1>5, <2>2, <3>4, StatusKeeps, Zenon
  <2>6. CASE next # "delete"
    <3>1. Working(k)'
      BY <1>8, <2>2, <2>3, <2>4, <2>6, Zenon DEF Working, Begun
    <3> QED
      BY <1>4, <1>5, <2>2, <3>1, StatusKeeps, Zenon
  <2> QED
    BY <2>5, <2>6, Zenon
<1>9. \/ job' = job
      \/ /\ job' = [job EXCEPT ![k] = IF next = "idle" THEN Idle ELSE go] /\ Exists(cache[c])
         /\ (~NeedsFinalizer(cache[c]) \/ (Current(c, cache[c]) /\ Done(o) /\ Store(c, Finalized(c))))
  <2> HIDE DEF go
  <2>1. Ok(o) => Done(o)
    BY Zenon DEF Ok, Done
  <2> QED
    BY <2>1, Zenon DEF Reconcile, go
<1> QED
  <2> HIDE DEF go
  <2> QED
    BY <1>6, <1>7, <1>8, <1>9, Zenon

\* A step of a worker that leaves the array alone.
LEMMA StepKeeps ==
    ASSUME SInv, NEW k \in Kind, ApiEffect, UNCHANGED <<replicas, lastId, members, masters>>, faults' \in Nat,
           Moves(k), Working(k)'
    PROVE  SInv'
  BY ArraySame, StatusKeeps, Zenon

\* The resource a worker is on.
LEMMA JobResource ==
    ASSUME SInv, NEW k \in Kind, job[k].at # "idle"
    PROVE  /\ job[k] \in Job /\ job[k].c \in Of(k) /\ job[k].c \in CR /\ CRSpec[job[k].c].kind = k
           /\ Known(job[k].c, cr[job[k].c]) /\ cr[job[k].c] \in Version /\ Working(k)
  BY Zenon DEF SInv, ApiOK, Working, Of, Versions

\* What the client sees in the answer is a version.
LEMMA StoredOK ==
    ASSUME SInv, NEW c \in CR, NEW i \in Nat, NEW s \in State
    PROVE  Stored(c, WithStatus(c, i, s)) \in Version
<1>1. cr[c] \in Version /\ cr[c].rv + 1 \in Nat
  BY DEF SInv, ApiOK, Version
<1> QED
  BY <1>1, Zenon DEF Stored, WithStatus, Version

\* An error path.
LEMMA AbortStatus ==
    ASSUME SInv, NEW k \in Kind, NEW o \in Outcome, Abort(k, o)
    PROVE  SInv'
<1>1. job[k].at # "idle" /\ cache' = cache /\ UNCHANGED <<replicas, lastId, members, masters>> /\ Retry(k)
  BY Zenon DEF Abort, At, array
<1>2. job[k].c \in CR
  BY <1>1, JobResource, Zenon
<1>3. faults' \in Nat
  BY FaultsOK, Zenon DEF Abort
<1>4. UNCHANGED <<cr, news>> \/ (Exists(cr[job[k].c]) /\ Store(job[k].c, WithStatus(job[k].c, 0, "error")))
  BY Zenon DEF Abort, Current, api
<1>5. ApiEffect
  BY <1>1, <1>2, <1>4, ApiSame, ErrorEffect, Zenon
<1> QED
  BY <1>1, <1>3, <1>5, JobMoves, WorkingEnds, StepKeeps, Zenon

\* The work is recorded.
LEMMA RecordStatus ==
    ASSUME SInv, NEW k \in Kind, NEW o \in Outcome, NEW i \in Nat, NEW ACTION done, Record(k, i, o, done),
           k = "replica" => HasReplica(job[k].c, i)
    PROVE  /\ ApiEffect /\ faults' \in Nat /\ UNCHANGED <<replicas, lastId, members, masters>> /\ (done \/ Retry(k))
<1>1. job[k].at = "record" /\ cache' = cache /\ UNCHANGED <<replicas, lastId, members, masters>> /\ (done \/ Retry(k))
  BY Zenon DEF Record, At, array
<1>2. job[k].c \in CR /\ CRSpec[job[k].c].kind = k /\ Working(k)
  BY <1>1, JobResource, Zenon
<1>3. faults' \in Nat
  BY FaultsOK, Zenon DEF Record
<1>4. UNCHANGED <<cr, news>> \/ (Exists(cr[job[k].c]) /\ Store(job[k].c, WithStatus(job[k].c, i, "created")))
  BY Zenon DEF Record, Current, api
<1>5. Achieved(job[k].c)
  BY <1>1, <1>2, Zenon DEF Working, Achieved, Kind
<1>6. "created" \in State /\ "created" # "completed"
  BY Zenon DEF State
<1>7. ASSUME Exists(cr[job[k].c]) /\ Store(job[k].c, WithStatus(job[k].c, i, "created"))
      PROVE  ApiEffect
  <2>1. PICK c \in CR : c = job[k].c
    BY <1>2, Zenon
  <2>2. /\ Exists(cr[c]) /\ Store(c, WithStatus(c, i, "created")) /\ Achieved(c)
        /\ CRSpec[c].kind = "replica" => HasReplica(c, i)
    BY <1>2, <1>5, <1>7, <2>1, Zenon
  <2> QED
    BY <1>1, <1>6, <2>2, StatusEffect, Zenon
<1> QED
  BY <1>1, <1>3, <1>4, <1>7, ApiSame, Zenon

\* The state of a finished resource is shown.
LEMMA RecordStateStatus ==
    ASSUME SInv, NEW k \in Kind, NEW o \in Outcome, NEW l \in Label, NEW s \in State, RecordState(k, l, s, o),
           l # "idle", k = "replica" => s # "completed", k # "replica" => l \in Final(k)
    PROVE  SInv'
<1> DEFINE c == job[k].c
<1>1. job[k].at = l /\ cache' = cache /\ UNCHANGED <<replicas, lastId, members, masters>> /\ (Return(k) \/ Retry(k))
  BY Zenon DEF RecordState, At, array
<1>2. c \in CR /\ c \in Of(k) /\ CRSpec[c].kind = k /\ Working(k) /\ Known(c, cr[c]) /\ cr[c].id \in Nat
  BY <1>1, JobResource, Zenon DEF Version
<1>3. faults' \in Nat
  BY FaultsOK, Zenon DEF RecordState
<1>4. UNCHANGED <<cr, news>> \/ (Exists(cr[c]) /\ Store(c, WithStatus(c, cr[c].id, s)))
  BY Zenon DEF RecordState, Current, api
<1>5. Achieved(c)
  BY <1>1, <1>2, Zenon DEF Working, Achieved, Kind, Final
<1>6. ASSUME Exists(cr[c]) /\ Store(c, WithStatus(c, cr[c].id, s))
      PROVE  ApiEffect
  <2>1. CRSpec[c].kind = "replica" /\ cr[c].id # 0 => HasReplica(c, cr[c].id)
    BY <1>2, <1>6, Zenon DEF SInv, StatusKept
  <2>2. PICK i \in Nat : i = cr[c].id
    BY <1>2, Zenon
  <2>3. /\ CRSpec[c].kind = "replica" => s # "completed" /\ (i # 0 => HasReplica(c, i))
        /\ Exists(cr[c]) /\ Store(c, WithStatus(c, i, s))
    BY <1>2, <1>6, <2>1, <2>2, Zenon
  <2> HIDE DEF c
  <2> QED
    BY <1>1, <1>2, <1>5, <2>3, StatusEffect, Zenon
<1>7. ApiEffect
  <2> HIDE DEF c
  <2> QED
    BY <1>1, <1>4, <1>6, ApiSame, Zenon
<1> QED
  BY <1>1, <1>3, <1>7, JobMoves, WorkingEnds, StepKeeps, Zenon

\* A step that only moves its worker.
LEMMA GotoStatus ==
    ASSUME SInv, NEW k \in Kind, NEW l \in Label, UNCHANGED <<cr, news, cache, replicas, lastId, members, masters>>,
           faults' \in Nat, job[k].at # "idle", Goto(k, l), k = "replica" => l \notin {"record", "show", "delete"},
           k # "replica" /\ l \in Final(k) => Achieved(job[k].c)
    PROVE  SInv'
<1>1. ApiEffect /\ ArrayEffect
  BY ApiSame, ArraySame, Zenon
<1>2. Moves(k) /\ job'[k].at = l /\ job'[k].c = job[k].c
  BY JobMoves, Zenon
<1>3. Achieved(job[k].c) => Achieved(job[k].c)'
  BY <1>1, <1>2, JobResource, Zenon DEF ArrayEffect
<1>4. Working(k)'
  BY <1>1, <1>2, <1>3, WorkingGoes, Zenon
<1> QED
  BY <1>1, <1>2, <1>4, StepKeeps, Zenon

\* It ends its reconcile and changes nothing else.
LEMMA EndStatus ==
    ASSUME SInv, NEW k \in Kind, UNCHANGED <<cr, news, cache, replicas, lastId, members, masters>>, faults' \in Nat,
           Return(k) \/ Retry(k)
    PROVE  SInv'
  BY ApiSame, JobMoves, WorkingEnds, StepKeeps, Zenon

\* A change of state is no more than that.
LEMMA StateEffect ==
    ASSUME SInv, ApiEffect, NEW i \in Nat, NEW s \in Mode, SetState(i, s), UNCHANGED <<lastId, members, masters>>,
           faults' \in Nat
    PROVE  ArrayEffect /\ SameReplicas
<1> DEFINE After(q) == IF q.id = i THEN [q EXCEPT !.state = s] ELSE q
<1>1. replicas' = {After(q) : q \in replicas} /\ replicas \subseteq Replica
  BY Zenon DEF SetState, SInv, ArrayOK
<1>2. \A q \in Replica : After(q) \in Replica /\ After(q).id = q.id /\ After(q).entity = q.entity /\ After(q).owner = q.owner
  BY Zenon DEF Replica
<1> HIDE DEF After
<1>3. replicas' \subseteq Replica /\ SameReplicas
  BY <1>1, <1>2 DEF SameReplicas
<1>4. Identified'
  <2> SUFFICES ASSUME NEW r \in replicas', NEW t \in replicas'
               PROVE  r.id # 0 /\ r.id <= lastId' /\ (r.id = t.id => r = t)
    BY Zenon DEF Identified
  <2>1. PICK q \in replicas, p \in replicas : r = After(q) /\ t = After(p)
    BY <1>1, Zenon
  <2> QED
    BY <1>1, <1>2, <2>1 DEF SInv, Identified
<1>5. \A e : Removing(e) => Removing(e)'
  BY Zenon DEF Removing, ApiEffect, Written
<1>6. \A c \in CR : Achieved(c) => Achieved(c)'
  BY <1>5, Zenon DEF Achieved
<1>7. \A c \in CR, n \in Nat : HasReplica(c, n) => HasReplica(c, n)'
  BY <1>3, SameKeeps, Zenon
<1> QED
  BY <1>3, <1>4, <1>6, <1>7, Zenon DEF ArrayEffect, ArrayOK, SInv

\* Members and promoted snapshots come; members that go are being removed.
LEMMA MemberEffect ==
    ASSUME SInv, ApiEffect, UNCHANGED <<replicas, lastId>>, members' \in SUBSET Entity, masters' \in SUBSET Entity,
           masters \subseteq masters', \A e \in members : e \in members' \/ Removing(e)', faults' \in Nat
    PROVE  ArrayEffect /\ SameReplicas
<1>1. ArrayOK' /\ Identified' /\ SameReplicas
  BY Zenon DEF SInv, ArrayOK, Identified, SameReplicas
<1>2. \A e : Removing(e) => Removing(e)'
  <2>1. \A d \in CR : cr[d].phase # "none" => cr'[d].phase # "none"
    BY Zenon DEF ApiEffect, Written
  <2> QED
    BY <2>1, Zenon DEF Removing
<1>3. \A c \in CR : Achieved(c) => Achieved(c)'
  BY <1>2, Zenon DEF Achieved
<1>4. \A c \in CR, n \in Nat : HasReplica(c, n) => HasReplica(c, n)'
  BY Zenon DEF HasReplica
<1> QED
  BY <1>1, <1>3, <1>4, Zenon DEF ArrayEffect

\* A replica that is made has an ID of its own.
LEMMA PostEffect ==
    ASSUME SInv, ApiEffect, NEW c \in CR, PostReplica(CRSpec[c].entity, c), UNCHANGED <<members, masters>>,
           faults' \in Nat
    PROVE  ArrayEffect /\ HasReplica(c, lastId)'
<1> DEFINE new == [id |-> lastId + 1, entity |-> CRSpec[c].entity, state |-> "active", owner |-> c]
<1>0. lastId \in Nat /\ CRSpec[c].entity \in Entity
  BY Zenon DEF SInv, ArrayOK, Entity
<1>1. new \in Replica /\ new.id = lastId + 1 /\ new.entity = CRSpec[c].entity /\ new.owner = c
  BY <1>0 DEF Replica, Mode
<1>2. replicas' = replicas \cup {new} /\ lastId' = lastId + 1
  BY Zenon DEF PostReplica
<1> HIDE DEF new
<1>3. ArrayOK' /\ replicas \subseteq Replica
  BY <1>0, <1>1, <1>2, SMTT(30) DEF SInv, ArrayOK
<1>4. Identified'
  <2>1. \A r \in replicas : r.id \in Nat /\ r.id # 0 /\ r.id <= lastId /\ \A s \in replicas : r.id = s.id => r = s
    BY <1>3, Zenon DEF SInv, Identified, Replica
  <2> QED
    BY <1>0, <1>1, <1>2, <2>1, SMTT(30) DEF Identified
<1>5. \A e : Removing(e) => Removing(e)'
  BY Zenon DEF Removing, ApiEffect, Written
<1>6. \A d \in CR : Achieved(d) => Achieved(d)'
  BY <1>5, Zenon DEF Achieved
<1>7. \A d \in CR, n \in Nat : HasReplica(d, n) => HasReplica(d, n)'
  BY <1>2, Zenon DEF HasReplica
<1>8. \E r \in replicas' : r.id = lastId' /\ r.entity = CRSpec[c].entity /\ r.owner = c
  BY <1>1, <1>2, Zenon
<1> QED
  BY <1>3, <1>4, <1>6, <1>7, <1>8, Zenon DEF ArrayEffect, HasReplica

\* A replica that is deleted was made for a resource that is gone.
LEMMA DropEffect ==
    ASSUME SInv, ApiEffect, NEW c \in CR, NEW i \in Nat, DropReplica(i), UNCHANGED <<lastId, members, masters>>,
           faults' \in Nat, cr[c].phase = "gone", \A r \in replicas : r.id = i => r.owner = c
    PROVE  ArrayEffect
<1>1. replicas' \subseteq replicas /\ \A r \in replicas : r.id # i => r \in replicas'
  BY Zenon DEF DropReplica, FindReplica
<1>2. ArrayOK' /\ Identified'
  BY <1>1, Zenon DEF SInv, ArrayOK, Identified
<1>5. \A e : Removing(e) => Removing(e)'
  BY Zenon DEF Removing, ApiEffect, Written
<1>6. \A d \in CR : Achieved(d) => Achieved(d)'
  BY <1>5, Zenon DEF Achieved
<1>7. \A d \in CR, n \in Nat : HasReplica(d, n) /\ cr[d].phase # "gone" => HasReplica(d, n)'
  BY <1>1, Zenon DEF HasReplica
<1> QED
  BY <1>2, <1>6, <1>7, Zenon DEF ArrayEffect

\* The steps of the iboxreplica worker before a replica is asked for.
LEMMA ReplicaAsks ==
    ASSUME SInv, NEW o \in Outcome, PrepareReplica(o) \/ LookupPool(o) \/ GetReplicas(o)
    PROVE  SInv'
<1> USE DEF Kind
<1>1. CASE PrepareReplica(o) \/ GetReplicas(o)
  <2>1. UNCHANGED <<cr, news, cache, replicas, lastId, members, masters>> /\ job["replica"].at # "idle"
    BY <1>1, Zenon DEF PrepareReplica, GetReplicas, At, api, array
  <2>2. faults' \in Nat
    BY <1>1, FaultsOK, Zenon DEF PrepareReplica, GetReplicas
  <2>3. \/ Goto("replica", "pool") \/ Goto("replica", "abort") \/ Goto("replica", "post") \/ Goto("replica", "pvc")
        \/ Return("replica")
    BY <1>1, Zenon DEF PrepareReplica, GetReplicas
  <2>4. "pool" \in Label /\ "abort" \in Label /\ "post" \in Label /\ "pvc" \in Label
    BY Zenon DEF Label
  <2> QED
    BY <2>1, <2>2, <2>3, <2>4, GotoStatus, EndStatus, Zenon
<1>2. CASE LookupPool(o)
  <2> DEFINE c == job["replica"].c
             new == WithStatus(c, 0, "error")
             write == ~Ok(o) /\ Current(c, job["replica"].obj)
             obj == IF write THEN Stored(c, new) ELSE job["replica"].obj
             j == [job["replica"] EXCEPT !.at = "list", !.pool = Ok(o), !.obj = obj]
  <2>1. UNCHANGED <<cache, replicas, lastId, members, masters>> /\ job["replica"].at = "pool" /\ faults' \in Nat
    BY <1>2, FaultsOK, Zenon DEF LookupPool, At, array
  <2>2. c \in CR /\ job["replica"] \in Job
    BY <2>1, JobResource, Zenon
  <2>3. UNCHANGED <<cr, news>> \/ (Exists(cr[c]) /\ Store(c, new))
    BY <1>2, Zenon DEF LookupPool, Current, api
  <2>4. ApiEffect
    <3> HIDE DEF c
    <3> QED
      BY <2>1, <2>2, <2>3, ApiSame, ErrorEffect, Zenon
  <2>5. obj \in Version
    <3>1. 0 \in Nat /\ "error" \in State
      BY Zenon DEF State
    <3>2. Stored(c, new) \in Version
      BY <2>2, <3>1, StoredOK, Zenon
    <3> QED
      BY <2>2, <3>2, Zenon DEF Job
  <2>6. job' = [job EXCEPT !["replica"] = j]
    BY <1>2, <2>2, Zenon DEF LookupPool, SInv
  <2> HIDE DEF obj, c
  <2>7. Ok(o) \in BOOLEAN /\ "list" \in Label
    BY Zenon DEF Ok, Label
  <2>8. j \in Job /\ j.at = "list" /\ j.c = job["replica"].c
    BY <2>2, <2>5, <2>7, Zenon DEF Job
  <2> HIDE DEF j
  <2>9. Moves("replica") /\ job'["replica"].at = "list" /\ job'["replica"].c = job["replica"].c
    BY <2>6, <2>8, Zenon DEF SInv, Moves
  <2>10. Working("replica")'
    BY <2>1, <2>4, <2>9, WorkingGoes, Zenon
  <2> QED
    BY <2>1, <2>4, <2>9, <2>10, StepKeeps, Zenon
<1> QED
  BY <1>1, <1>2, Zenon

\* The PersistentVolume and the claim of a remote copy.
LEMMA ClaimStatus ==
    ASSUME SInv, NEW k \in {"replica", "cg"}, NEW o \in Outcome, NEW ACTION done,
           CreateRemotePV(k, o, done) \/ CreateRemotePVC(k, o, done),
           done => Return(k) \/ (k = "cg" /\ Goto(k, "record"))
    PROVE  SInv'
<1>0. k \in Kind /\ "pv" \in Label /\ "claim" \in Label /\ "record" \in Label
  BY Zenon DEF Kind, Label
<1>1. UNCHANGED <<cr, news, cache, replicas, lastId, members, masters>> /\ (job[k].at = "pv" \/ job[k].at = "claim")
  BY Zenon DEF CreateRemotePV, CreateRemotePVC, At, api, array
<1>2. faults' \in Nat
  BY FaultsOK, Zenon DEF CreateRemotePV, CreateRemotePVC
<1>3. job[k] \in Job /\ Working(k) /\ job[k].at # "idle"
  BY <1>0, <1>1, JobResource, Zenon
<1>4. k = "cg" => Achieved(job[k].c)
  BY <1>1, <1>3, Zenon DEF Working
<1>5. ASSUME NEW v, job' = [job EXCEPT ![k].at = "pv", ![k].rest = @ \ {v}]
      PROVE  SInv'
  <2> DEFINE j == [job[k] EXCEPT !.at = "pv", !.rest = @ \ {v}]
  <2>1. job' = [job EXCEPT ![k] = j]
    BY <1>0, <1>5, Zenon DEF SInv
  <2>2. j \in Job /\ j.at = "pv" /\ j.c = job[k].c
    BY <1>0, <1>3, Zenon DEF Job
  <2> HIDE DEF j
  <2>3. Moves(k) /\ job'[k].at = "pv" /\ job'[k].c = job[k].c
    BY <1>0, <2>1, <2>2, Zenon DEF SInv, Moves
  <2>4. ApiEffect /\ ArrayEffect
    BY <1>1, <1>2, ApiSame, ArraySame, Zenon
  <2>5. k = "cg" => Achieved(job[k].c)'
    BY <1>0, <1>3, <1>4, <2>3, <2>4, JobResource, Zenon DEF ArrayEffect
  <2>6. Working(k)'
    BY <1>0, <1>3, <2>3, <2>4, <2>5, WorkingGoes, Zenon
  <2> QED
    BY <1>0, <1>1, <1>2, <2>3, <2>4, <2>6, StepKeeps, Zenon
<1>6. \/ Return(k) \/ Goto(k, "claim") \/ (k = "cg" /\ Goto(k, "record"))
      \/ \E v : job' = [job EXCEPT ![k].at = "pv", ![k].rest = @ \ {v}]
  BY Zenon DEF CreateRemotePV, CreateRemotePVC
<1>7. CASE Return(k)
  BY <1>0, <1>1, <1>2, <1>7, EndStatus, Zenon
<1>8. CASE Goto(k, "claim") \/ (k = "cg" /\ Goto(k, "record"))
  BY <1>0, <1>1, <1>2, <1>3, <1>4, <1>8, GotoStatus, Zenon
<1> QED
  BY <1>5, <1>6, <1>7, <1>8, Zenon

\* The replica is made, and recorded.
LEMMA ReplicaMakes ==
    ASSUME SInv, NEW o \in Outcome, CreateReplica(o) \/ RecordReplica(o)
    PROVE  SInv'
<1> USE DEF Kind
<1> DEFINE c == job["replica"].c
<1>0. "record" \in Label /\ "abort" \in Label /\ "pvc" \in Label
  BY Zenon DEF Label
<1>1. CASE CreateReplica(o)
  <2>1. UNCHANGED <<cr, news, cache, members, masters>> /\ job["replica"].at = "post"
    BY <1>1, Zenon DEF CreateReplica, At, api
  <2>2. faults' \in Nat
    BY <1>1, FaultsOK, Zenon DEF CreateReplica
  <2>3. ApiEffect /\ c \in CR /\ job["replica"] \in Job
    BY <2>1, ApiSame, JobResource, Zenon
  <2>4. \/ UNCHANGED <<lastId, replicas>> /\ Goto("replica", "abort")
        \/ PostReplica(CRSpec[c].entity, c) /\ Goto("replica", "abort")
        \/ PostReplica(CRSpec[c].entity, c) /\ job' = [job EXCEPT !["replica"].at = "record", !["replica"].id = lastId + 1]
    BY <1>1, Zenon DEF CreateReplica, ReplicaSpec
  <2>5. CASE UNCHANGED <<lastId, replicas>> /\ Goto("replica", "abort")
    BY <1>0, <2>1, <2>2, <2>5, GotoStatus, Zenon
  <2>6. CASE PostReplica(CRSpec[c].entity, c) /\ Goto("replica", "abort")
    <3>1. ArrayEffect
      BY <2>1, <2>2, <2>3, <2>6, PostEffect, Zenon
    <3>2. Moves("replica") /\ job'["replica"].at = "abort" /\ job'["replica"].c = job["replica"].c
      BY <1>0, <2>6, JobMoves, Zenon
    <3>3. Working("replica")'
      BY <2>1, <2>3, <3>2, WorkingGoes, Zenon
    <3> QED
      BY <2>3, <3>1, <3>2, <3>3, StatusKeeps, Zenon
  <2>7. CASE PostReplica(CRSpec[c].entity, c) /\ job' = [job EXCEPT !["replica"].at = "record", !["replica"].id = lastId + 1]
    <3> DEFINE j == [job["replica"] EXCEPT !.at = "record", !.id = lastId + 1]
    <3>0. lastId' = lastId + 1 /\ lastId + 1 \in Nat
      BY <2>7 DEF SInv, ArrayOK, PostReplica
    <3>1. job' = [job EXCEPT !["replica"] = j]
      BY <2>7, Zenon DEF SInv
    <3>2. j \in Job /\ j.at = "record" /\ j.c = c /\ j.id = lastId'
      BY <1>0, <2>3, <3>0, Zenon DEF Job
    <3> HIDE DEF j
    <3>3. Moves("replica") /\ job'["replica"].at = "record" /\ job'["replica"].c = c /\ job'["replica"].id = lastId'
      BY <3>1, <3>2, Zenon DEF SInv, Moves
    <3>4. ArrayEffect /\ HasReplica(c, lastId)'
      <4>1. PICK d \in CR : d = c
        BY <2>3, Zenon
      <4>2. ArrayEffect /\ HasReplica(d, lastId)'
        BY <2>1, <2>2, <2>3, <2>7, <4>1, PostEffect, Zenon
      <4> QED
        BY <3>3, <4>1, <4>2, Zenon DEF HasReplica
    <3>5. HasReplica(job["replica"].c, job["replica"].id)'
      BY <3>3, <3>4, Zenon DEF HasReplica
    <3>6. Working("replica")'
      <4>1. c \in Of("replica") /\ cr'[c].phase # "none"
        BY <2>1, JobResource, Zenon DEF Working
      <4> QED
        BY <3>3, <3>5, <4>1, Zenon DEF Working
    <3> QED
      BY <2>3, <3>3, <3>4, <3>6, StatusKeeps, Zenon
  <2> QED
    BY <2>4, <2>5, <2>6, <2>7, Zenon
<1>2. CASE RecordReplica(o)
  <2> DEFINE i == job["replica"].id
             obj == Stored(c, WithStatus(c, i, "created"))
             j == [job["replica"] EXCEPT !.at = "pvc", !.obj = obj]
  <2>1. Record("replica", i, o, Recorded) /\ job["replica"].at = "record"
    BY <1>2, Zenon DEF RecordReplica, Record, At
  <2>2. c \in CR /\ job["replica"] \in Job /\ Working("replica") /\ i \in Nat
    BY <2>1, JobResource, Zenon DEF Job
  <2>3. HasReplica(c, i)
    BY <2>1, <2>2, Zenon DEF Working
  <2>4. ApiEffect /\ faults' \in Nat /\ UNCHANGED <<replicas, lastId, members, masters>> /\ (Recorded \/ Retry("replica"))
    BY <2>1, <2>2, <2>3, RecordStatus, SMTT(30)
  <2>5. CASE Return("replica") \/ Retry("replica")
    BY <2>4, <2>5, JobMoves, WorkingEnds, StepKeeps, Zenon
  <2>6. CASE job' = [job EXCEPT !["replica"].at = "pvc", !["replica"].obj = obj]
    <3>1. obj \in Version
      <4>1. "created" \in State
        BY Zenon DEF State
      <4> QED
        BY <2>2, <4>1, StoredOK, Zenon
    <3>2. job' = [job EXCEPT !["replica"] = j]
      BY <2>2, <2>6, Zenon DEF SInv
    <3> HIDE DEF obj
    <3>3. j \in Job /\ j.at = "pvc" /\ j.c = c
      BY <1>0, <2>2, <3>1, Zenon DEF Job
    <3> HIDE DEF j
    <3>4. Moves("replica") /\ job'["replica"].at = "pvc" /\ job'["replica"].c = c
      BY <3>2, <3>3, Zenon DEF SInv, Moves
    <3>5. Working("replica")'
      BY <2>1, <2>4, <3>4, WorkingGoes, Zenon
    <3> QED
      BY <2>4, <3>4, <3>5, StepKeeps, Zenon
  <2>7. Recorded => Return("replica") \/ job' = [job EXCEPT !["replica"].at = "pvc", !["replica"].obj = obj]
    BY Zenon DEF Recorded
  <2> QED
    BY <2>4, <2>5, <2>6, <2>7, Zenon
<1> QED
  BY <1>1, <1>2, Zenon

\* createPVC begins.
LEMMA ReplicaClaimsStatus ==
    ASSUME SInv, NEW o \in Outcome, ReplicaClaims(o)
    PROVE  SInv'
<1> USE DEF Kind
<1> DEFINE c == job["replica"].c
           rest == GetRemoteEntities(ReplicaSpec)
           j == [job["replica"] EXCEPT !.at = "pv", !.rest = rest]
<1>1. UNCHANGED <<cache, replicas, lastId, members, masters>> /\ job["replica"].at = "pvc"
  BY Zenon DEF ReplicaClaims, At, array
<1>2. faults' \in Nat
  BY FaultsOK, Zenon DEF ReplicaClaims
<1>3. c \in CR /\ job["replica"] \in Job
  BY <1>1, JobResource, Zenon
<1>4. UNCHANGED <<cr, news>> \/ (Exists(cr[c]) /\ Store(c, WithStatus(c, 0, "error")))
  BY Zenon DEF ReplicaClaims, Current, api
<1>5. ApiEffect
  <2> HIDE DEF c
  <2> QED
    BY <1>1, <1>3, <1>4, ApiSame, ErrorEffect, Zenon
<1>6. CASE Return("replica")
  BY <1>1, <1>2, <1>5, <1>6, JobMoves, WorkingEnds, StepKeeps, Zenon
<1>7. CASE job' = [job EXCEPT !["replica"].at = "pv", !["replica"].rest = rest]
  <2>1. rest \in SUBSET Entity
    BY <1>3, Zenon DEF GetRemoteEntities, ReplicaSpec, Entity, SInv, ArrayOK
  <2>2. job' = [job EXCEPT !["replica"] = j] /\ "pv" \in Label
    BY <1>7, Zenon DEF SInv, Label
  <2> HIDE DEF rest
  <2>3. j \in Job /\ j.at = "pv" /\ j.c = c
    BY <1>3, <2>1, <2>2, Zenon DEF Job
  <2> HIDE DEF j
  <2>4. Moves("replica") /\ job'["replica"].at = "pv" /\ job'["replica"].c = c
    BY <2>2, <2>3, Zenon DEF SInv, Moves
  <2>5. Working("replica")'
    BY <1>1, <1>5, <2>4, WorkingGoes, Zenon
  <2> QED
    BY <1>1, <1>2, <1>5, <2>4, <2>5, StepKeeps, Zenon
<1>8. Return("replica") \/ job' = [job EXCEPT !["replica"].at = "pv", !["replica"].rest = rest]
  BY Zenon DEF ReplicaClaims
<1> QED
  BY <1>6, <1>7, <1>8, Zenon

\* A replica is deleted, or its state shown.
LEMMA ReplicaEnds ==
    ASSUME SInv, NEW o \in Outcome, DeleteReplica(o) \/ GetReplica(o) \/ ShowState(o)
    PROVE  SInv'
<1> USE DEF Kind
<1> DEFINE c == job["replica"].c
           i == job["replica"].obj.id
<1>1. CASE DeleteReplica(o)
  <2>1. UNCHANGED <<cr, news, cache, lastId, members, masters>> /\ job["replica"].at = "delete"
    BY <1>1, Zenon DEF DeleteReplica, At, api
  <2>2. faults' \in Nat
    BY <1>1, FaultsOK, Zenon DEF DeleteReplica
  <2>3. ApiEffect /\ c \in CR /\ i \in Nat /\ Working("replica")
    BY <2>1, ApiSame, JobResource, Zenon DEF Job, Version
  <2>4. cr[c].phase = "gone" /\ \A r \in replicas : r.id = i => r.owner = c
    BY <2>1, <2>3, Zenon DEF Working
  <2>5. (DropReplica(i) \/ UNCHANGED replicas) /\ (Return("replica") \/ Retry("replica"))
    BY <1>1, Zenon DEF DeleteReplica
  <2>6. ArrayEffect
    <3>1. PICK d \in CR, n \in Nat : d = c /\ n = i
      BY <2>3, Zenon
    <3>2. DropReplica(n) => ArrayEffect
      BY <2>1, <2>2, <2>3, <2>4, <3>1, DropEffect, Zenon
    <3> QED
      BY <2>1, <2>2, <2>3, <2>5, <3>1, <3>2, ArraySame, Zenon
  <2> QED
    BY <2>3, <2>5, <2>6, JobMoves, WorkingEnds, StatusKeeps, Zenon
<1>2. CASE GetReplica(o)
  <2>1. UNCHANGED <<cr, news, cache, replicas, lastId, members, masters>> /\ job["replica"].at = "update"
    BY <1>2, Zenon DEF GetReplica, At, api, array
  <2>2. faults' \in Nat
    BY <1>2, FaultsOK, Zenon DEF GetReplica
  <2>3. ApiEffect /\ c \in CR /\ job["replica"] \in Job /\ Working("replica")
    BY <2>1, ApiSame, JobResource, Zenon
  <2>4. Retry("replica")
        \/ \E r \in FindReplica(i) : job' = [job EXCEPT !["replica"].at = "show", !["replica"].obj.state = r.state]
    BY <1>2, Zenon DEF GetReplica
  <2>5. ASSUME NEW r \in FindReplica(i), job' = [job EXCEPT !["replica"].at = "show", !["replica"].obj.state = r.state]
        PROVE  SInv'
    <3> DEFINE obj == [job["replica"].obj EXCEPT !.state = r.state]
               j == [job["replica"] EXCEPT !.at = "show", !.obj = obj]
    <3>1. r.state \in State /\ r.state # "completed" /\ "show" \in Label
      BY Zenon DEF FindReplica, SInv, ArrayOK, Replica, State, Mode, Label
    <3>2. obj \in Version /\ obj.state = r.state
      BY <2>3, <3>1, Zenon DEF Job, Version
    <3>3. job' = [job EXCEPT !["replica"] = j]
      BY <2>3, <2>5, Zenon DEF SInv, Job
    <3> HIDE DEF obj
    <3>4. j \in Job /\ j.at = "show" /\ j.c = c /\ j.obj = obj
      BY <2>3, <3>1, <3>2, Zenon DEF Job
    <3> HIDE DEF j
    <3>5. Moves("replica") /\ job'["replica"].at = "show" /\ job'["replica"].c = c /\ job'["replica"].obj = obj
      BY <3>3, <3>4, Zenon DEF SInv, Moves
    <3>6. Working("replica")'
      <4>1. c \in Of("replica") /\ cr'[c].phase # "none"
        BY <2>1, <2>3, Zenon DEF Working
      <4> QED
        BY <3>1, <3>2, <3>5, <4>1, Zenon DEF Working
    <3> QED
      BY <2>1, <2>2, <2>3, <3>5, <3>6, StepKeeps, Zenon
  <2> QED
    BY <2>1, <2>2, <2>4, <2>5, EndStatus, Zenon
<1>3. CASE ShowState(o)
  <2>1. RecordState("replica", "show", job["replica"].obj.state, o) /\ job["replica"].at = "show"
    BY <1>3, Zenon DEF ShowState, RecordState, At
  <2>2. job["replica"].obj.state \in State /\ job["replica"].obj.state # "completed" /\ "show" \in Label
    BY <2>1, JobResource, Zenon DEF Job, Version, Working, Label
  <2> QED
    BY <2>1, <2>2, RecordStateStatus, Zenon
<1> QED
  BY <1>1, <1>2, <1>3, Zenon

\* The iboxreplica controller.
LEMMA ReplicaStatus ==
    ASSUME SInv, ReplicaStep
    PROVE  SInv'
<1>1. ASSUME NEW o \in Outcome, NEW c \in Of("replica"), ReplicaReconcile(c, o)
      PROVE  SInv'
  <2> DEFINE next == ReplicaBranch(cache[c])
  <2>1. /\ next \in {"idle", "create", "update", "delete"}
        /\ (next = "delete" => cache[c].phase = "deleting") /\ (next = "update" => cache[c].id # 0)
    BY Zenon DEF ReplicaBranch
  <2>2. Reconcile("replica", c, o, next)
    BY <1>1, Zenon DEF ReplicaReconcile
  <2>3. "replica" \in Kind
    BY Zenon DEF Kind
  <2> HIDE DEF next
  <2> QED
    BY <2>1, <2>2, <2>3, ReconcileStatus, Zenon
<1>2. ASSUME NEW o \in Outcome, ReplicaPV(o) \/ ReplicaPVC(o)
      PROVE  SInv'
  <2>1. CreateRemotePV("replica", o, Return("replica")) \/ CreateRemotePVC("replica", o, Return("replica"))
    BY <1>2, Zenon DEF ReplicaPV, ReplicaPVC
  <2> QED
    BY <2>1, ClaimStatus, Zenon
<1>3. ReadOutcome \subseteq Outcome /\ "replica" \in Kind
  BY Zenon DEF ReadOutcome, Outcome, Kind
<1> QED
  BY <1>1, <1>2, <1>3, ReplicaAsks, ReplicaMakes, ReplicaClaimsStatus, ReplicaEnds, AbortStatus, Zenon DEF ReplicaStep

\* A step of the iboxcg worker that leaves the array alone and writes to its job.
LEMMA CgMoves ==
    ASSUME SInv, NEW j \in Job, ApiEffect, UNCHANGED <<replicas, lastId, members, masters>>, faults' \in Nat,
           job["cg"].at # "idle", job' = [job EXCEPT !["cg"] = j], j.c = job["cg"].c,
           j.at \in Final("cg") => Achieved(job["cg"].c)
    PROVE  SInv'
<1>0. "cg" \in Kind
  BY Zenon DEF Kind
<1>1. Moves("cg") /\ job'["cg"].at = j.at /\ job'["cg"].c = job["cg"].c
  BY <1>0, Zenon DEF SInv, Moves
<1>2. ArrayEffect
  BY ArraySame, Zenon
<1>3. Achieved(job["cg"].c) => Achieved(job["cg"].c)'
  BY <1>0, <1>1, <1>2, JobResource, Zenon DEF ArrayEffect
<1>4. Working("cg")'
  BY <1>0, <1>1, <1>3, WorkingGoes, Zenon
<1> QED
  BY <1>0, <1>1, <1>4, StepKeeps, Zenon

\* The looks before a change of the group.
LEMMA CgLooks ==
    ASSUME SInv, NEW o \in Outcome, PrepareCg(o) \/ GetMembers(o) \/ GetReplicaForCG(o) \/ PollSuspended(o)
    PROVE  SInv'
<1> USE DEF Kind
<1> DEFINE c == job["cg"].c
<1>1. UNCHANGED <<cr, news, cache, replicas, lastId, members, masters>> /\ job["cg"].at # "idle"
  BY Zenon DEF PrepareCg, GetMembers, GetReplicaForCG, PollSuspended, At, api, array
<1>2. faults' \in Nat
  BY FaultsOK, Zenon DEF PrepareCg, GetMembers, GetReplicaForCG, PollSuspended
<1>3. ApiEffect /\ c \in CR /\ job["cg"] \in Job
  BY <1>1, ApiSame, JobResource, Zenon
<1>4. "abort" \in Label \ Final("cg") /\ "change" \in Label \ Final("cg")
  BY Zenon DEF Label, Final
<1>5. CASE PrepareCg(o)
  <2> DEFINE l == IF Ok(o) THEN "members" ELSE "abort"
             j == [job["cg"] EXCEPT !.at = l, !.obj = cache[c]]
  <2>1. l \in Label \ Final("cg") /\ cache[c] \in Version
    BY <1>3, Zenon DEF Label, Final, SInv, ApiOK
  <2>2. Return("cg") \/ job' = [job EXCEPT !["cg"].at = l, !["cg"].obj = cache[c]]
    BY <1>5, Zenon DEF PrepareCg
  <2>3. Return("cg") \/ job' = [job EXCEPT !["cg"] = j]
    BY <2>2, Zenon DEF SInv
  <2> HIDE DEF l
  <2>4. j \in Job /\ j.at = l /\ j.c = job["cg"].c
    BY <1>3, <2>1, Zenon DEF Job
  <2> HIDE DEF j
  <2> QED
    BY <1>1, <1>2, <1>3, <2>1, <2>3, <2>4, CgMoves, EndStatus, Zenon
<1>6. CASE GetMembers(o)
  <2> DEFINE v == CgSpec.entity
             l == IF CgSpec.action \in {"", "ADD"}
                        THEN IF v \in members THEN "record" ELSE "find"
                        ELSE IF CgSpec.action = "REMOVE"
                        THEN IF v \in members THEN "find" ELSE "record"
                        ELSE "abort"
             j == [job["cg"] EXCEPT !.seen = members, !.at = l]
  <2>1. l \in Label /\ (l \in Final("cg") => Achieved(c)) /\ members \in SUBSET Entity
    <3>1. CRSpec[c].kind = "cg" /\ CgSpec = CRSpec[c]
      BY <1>1, JobResource, Zenon DEF CgSpec
    <3>2. l \in Label /\ members \in SUBSET Entity
      BY Zenon DEF Label, SInv, ArrayOK
    <3>3. l \in Final("cg") => l = "record"
      BY Zenon DEF Final
    <3>4. l = "record" => Achieved(c)
      BY <3>1, Zenon DEF Achieved
    <3> QED
      BY <3>2, <3>3, <3>4, Zenon
  <2>2. Retry("cg") \/ job' = [job EXCEPT !["cg"].seen = members, !["cg"].at = l]
    BY <1>6, Zenon DEF GetMembers
  <2> HIDE DEF l
  <2>3. Retry("cg") \/ job' = [job EXCEPT !["cg"] = j]
    BY <2>2, Zenon DEF SInv
  <2>4. j \in Job /\ j.at = l /\ j.c = job["cg"].c
    BY <1>3, <2>1, Zenon DEF Job
  <2> HIDE DEF j
  <2> QED
    BY <1>1, <1>2, <1>3, <2>1, <2>3, <2>4, CgMoves, EndStatus, Zenon
<1>7. CASE GetReplicaForCG(o)
  <2>1. \/ Goto("cg", "abort") \/ Goto("cg", "change")
        \/ \E r \in GroupReplica : job' = [job EXCEPT !["cg"].id = r.id, !["cg"].at = Suspending]
    BY <1>7, Zenon DEF GetReplicaForCG
  <2>2. ASSUME NEW r \in GroupReplica, job' = [job EXCEPT !["cg"].id = r.id, !["cg"].at = Suspending]
        PROVE  SInv'
    <3> DEFINE j == [job["cg"] EXCEPT !.id = r.id, !.at = Suspending]
    <3>1. Suspending \in Label \ Final("cg") /\ r.id \in Nat
      BY Zenon DEF Suspending, Label, Final, GroupReplica, ReplicaOf, SInv, ArrayOK, Replica
    <3>2. job' = [job EXCEPT !["cg"] = j]
      BY <2>2, Zenon DEF SInv
    <3>3. j \in Job /\ j.at = Suspending /\ j.c = job["cg"].c
      BY <1>3, <3>1, Zenon DEF Job
    <3> HIDE DEF j
    <3> QED
      BY <1>1, <1>2, <1>3, <3>1, <3>2, <3>3, CgMoves, Zenon
  <2> QED
    BY <1>1, <1>2, <1>4, <2>1, <2>2, GotoStatus, Zenon
<1>8. CASE PollSuspended(o)
  <2>1. Goto("cg", "change") \/ Retry("cg")
    BY <1>8, Zenon DEF PollSuspended
  <2> QED
    BY <1>1, <1>2, <1>4, <2>1, GotoStatus, EndStatus, Zenon
<1> QED
  BY <1>5, <1>6, <1>7, <1>8, Zenon

\* A step that goes on after a call that changed the array.
LEMMA CallStatus ==
    ASSUME SInv, NEW k \in {"cg", "promote"}, NEW l \in Label, ApiEffect, ArrayEffect, SameReplicas, job[k].at # "idle",
           Goto(k, l), l \in Final(k) => Achieved(job[k].c)'
    PROVE  SInv'
<1>0. k \in Kind /\ k # "replica"
  BY Zenon DEF Kind
<1>1. Moves(k) /\ job'[k].at = l /\ job'[k].c = job[k].c
  BY <1>0, JobMoves, Zenon
<1>2. Working(k)'
  BY <1>0, <1>1, WorkingGoes, Zenon
<1> QED
  BY <1>0, <1>1, <1>2, StatusKeeps, Zenon

\* The group's replica is suspended and resumed.
LEMMA CgSuspends ==
    ASSUME SInv, NEW o \in Outcome, SuspendReplica(o) \/ ResumeReplica(o)
    PROVE  SInv'
<1> USE DEF Kind
<1> DEFINE c == job["cg"].c
           i == job["cg"].id
<1>1. /\ UNCHANGED <<cr, news, cache, lastId, members, masters>>
      /\ (job["cg"].at = "suspend" /\ SuspendReplica(o)) \/ (job["cg"].at = "resume" /\ ResumeReplica(o))
  BY Zenon DEF SuspendReplica, ResumeReplica, At, api
<1>2. faults' \in Nat
  BY FaultsOK, Zenon DEF SuspendReplica, ResumeReplica
<1>3. ApiEffect /\ c \in CR /\ i \in Nat /\ Working("cg") /\ CRSpec[c].kind = "cg"
  BY <1>1, ApiSame, JobResource, Zenon DEF Job
<1>4. SetState(i, "suspending") \/ SetState(i, "active") \/ UNCHANGED replicas
  BY Zenon DEF SuspendReplica, ResumeReplica, PostSuspend, PostResume
<1>5. ArrayEffect /\ SameReplicas
  <2>1. "suspending" \in Mode /\ "active" \in Mode
    BY Zenon DEF Mode
  <2>2. PICK n \in Nat : n = i
    BY <1>3, Zenon
  <2> QED
    BY <1>1, <1>2, <1>3, <1>4, <2>1, <2>2, StateEffect, ArraySame, Zenon
<1>6. CASE job["cg"].at = "suspend" /\ SuspendReplica(o)
  <2>1. Goto("cg", "poll") \/ Goto("cg", "abort")
    BY <1>6, Zenon DEF SuspendReplica
  <2>2. "poll" \in Label \ Final("cg") /\ "abort" \in Label \ Final("cg")
    BY Zenon DEF Label, Final
  <2> QED
    BY <1>3, <1>5, <1>6, <2>1, <2>2, CallStatus, Zenon
<1>7. CASE job["cg"].at = "resume" /\ ResumeReplica(o)
  <2>1. Goto("cg", Changed) /\ Changed \in Label
    BY <1>7, Zenon DEF ResumeReplica, Changed, Label
  <2>2. Achieved(c)
    BY <1>3, <1>7, Zenon DEF Working
  <2>3. Achieved(c)'
    <3>1. job'["cg"].c = c
      BY <2>1, JobMoves, Zenon
    <3> QED
      BY <1>3, <1>5, <2>2, <3>1, Zenon DEF ArrayEffect
  <2> QED
    BY <1>3, <1>5, <1>7, <2>1, <2>3, CallStatus, Zenon
<1> QED
  BY <1>1, <1>6, <1>7, Zenon

\* The group's membership changes.
LEMMA CgChanges ==
    ASSUME SInv, NEW o \in Outcome, AddMemberToCG(o) \/ RemoveMemberFromCG(o)
    PROVE  SInv'
<1> USE DEF Kind
<1> DEFINE c == job["cg"].c
           v == CRSpec[c].entity
<1>1. UNCHANGED <<cr, news, cache, replicas, lastId, masters>> /\ job["cg"].at = "change"
  BY Zenon DEF AddMemberToCG, RemoveMemberFromCG, At, api
<1>2. faults' \in Nat
  BY FaultsOK, Zenon DEF AddMemberToCG, RemoveMemberFromCG
<1>3. /\ ApiEffect /\ c \in CR /\ CRSpec[c].kind = "cg" /\ CgSpec = CRSpec[c] /\ v \in Entity
      /\ cr[c].phase # "none" /\ members \in SUBSET Entity /\ masters \in SUBSET Entity
  BY <1>1, ApiSame, JobResource, Zenon DEF Working, CgSpec, Entity, SInv, ArrayOK
<1>4. CASE AddMemberToCG(o)
  <2>1. /\ CRSpec[c].action # "REMOVE" /\ (members' = members \cup {v} \/ (~Done(o) /\ members' = members))
        /\ Goto("cg", AfterAdd(o))
    BY <1>3, <1>4, Zenon DEF AddMemberToCG, PostMember
  <2>2. members \subseteq members' /\ members' \in SUBSET Entity
    BY <1>3, <2>1, Zenon
  <2>3. ArrayEffect /\ SameReplicas
    BY <1>1, <1>2, <1>3, <2>2, MemberEffect, Zenon
  <2>4. AfterAdd(o) \in Label /\ (AfterAdd(o) \in Final("cg") => Ok(o))
    BY Zenon DEF AfterAdd, Changed, Label, Final
  <2>5. Ok(o) => v \in members'
    BY <2>1, Zenon DEF Ok, Done
  <2>6. job'["cg"].c = c
    BY <2>1, <2>4, JobMoves, Zenon
  <2>7. Ok(o) => Achieved(c)'
    BY <1>3, <2>5, <2>6, Zenon DEF Achieved
  <2> QED
    BY <1>1, <1>3, <2>1, <2>3, <2>4, <2>7, CallStatus, Zenon
<1>5. CASE RemoveMemberFromCG(o)
  <2>1. /\ CRSpec[c].action = "REMOVE" /\ (members' = members \ {v} \/ members' = members)
        /\ Goto("cg", AfterRemove)
    BY <1>3, <1>5, Zenon DEF RemoveMemberFromCG, DropMember
  <2>2. AfterRemove \in Label
    BY Zenon DEF AfterRemove, Label
  <2>3. job'["cg"].c = c
    BY <2>1, <2>2, JobMoves, Zenon
  <2>4. \A e \in members : e \in members' \/ e = v
    BY <2>1, Zenon
  <2>5. \A e \in {v} : Removing(e)'
    BY <1>1, <1>3, <2>1, Zenon DEF Removing
  <2>6. members' \in SUBSET Entity
    BY <1>3, <2>1, Zenon
  <2>7. ArrayEffect /\ SameReplicas
    BY <1>1, <1>2, <1>3, <2>4, <2>5, <2>6, MemberEffect, Zenon
  <2>8. Achieved(c)'
    BY <1>3, <2>1, <2>3, Zenon DEF Achieved
  <2> QED
    BY <1>1, <1>3, <2>1, <2>2, <2>7, <2>8, CallStatus, Zenon
<1> QED
  BY <1>4, <1>5, Zenon

\* createPVC begins.
LEMMA CgClaimsStatus ==
    ASSUME SInv, NEW o \in Outcome, CgClaims(o)
    PROVE  SInv'
<1> USE DEF Kind
<1> DEFINE c == job["cg"].c
<1>1. UNCHANGED <<cache, replicas, lastId, members, masters>> /\ job["cg"].at = "pvc"
  BY Zenon DEF CgClaims, At, array
<1>2. faults' \in Nat
  BY FaultsOK, Zenon DEF CgClaims
<1>3. c \in CR /\ job["cg"] \in Job /\ CgSpec = CRSpec[c] /\ CRSpec[c].entity \in Entity /\ Working("cg")
  BY <1>1, JobResource, Zenon DEF CgSpec, Entity
<1>4. UNCHANGED <<cr, news>> \/ (Exists(cr[c]) /\ Store(c, WithStatus(c, 0, "error")))
  BY Zenon DEF CgClaims, Current, api
<1>5. ApiEffect
  <2> HIDE DEF c
  <2> QED
    BY <1>1, <1>3, <1>4, ApiSame, ErrorEffect, Zenon
<1>6. Achieved(c)
  BY <1>1, <1>3, Zenon DEF Working
<1>7. \/ job' = [job EXCEPT !["cg"].at = "pv", !["cg"].rest = {CgSpec.entity}]
      \/ job' = [job EXCEPT !["cg"].at = "record"]
  BY Zenon DEF CgClaims
<1> DEFINE p == [job["cg"] EXCEPT !.at = "pv", !.rest = {CgSpec.entity}]
           q == [job["cg"] EXCEPT !.at = "record"]
<1>8. job' = [job EXCEPT !["cg"] = p] \/ job' = [job EXCEPT !["cg"] = q]
  BY <1>7, Zenon DEF SInv
<1>9. p \in Job /\ p.c = c /\ q \in Job /\ q.c = c
  BY <1>3, Zenon DEF Job, Label
<1> HIDE DEF p, q
<1> QED
  BY <1>1, <1>2, <1>3, <1>5, <1>6, <1>8, <1>9, CgMoves, Zenon

\* The iboxcg controller.
LEMMA CgStatus ==
    ASSUME SInv, CgStep
    PROVE  SInv'
<1>0. ReadOutcome \subseteq Outcome /\ "cg" \in Kind /\ "update" \in Label /\ "completed" \in State /\ 13 \in Nat
  BY Zenon DEF ReadOutcome, Outcome, Kind, Label, State
<1>1. ASSUME NEW o \in Outcome, NEW c \in Of("cg"), CgReconcile(c, o)
      PROVE  SInv'
  <2> DEFINE next == CgBranch(cache[c])
  <2>1. next \in {"idle", "create", "update", "delete"} /\ next # "delete" /\ (next = "update" => cache[c].id # 0)
    BY Zenon DEF CgBranch
  <2>2. Reconcile("cg", c, o, next)
    BY <1>1, Zenon DEF CgReconcile
  <2> HIDE DEF next
  <2> QED
    BY <1>0, <2>1, <2>2, ReconcileStatus, Zenon
<1>2. ASSUME NEW o \in Outcome, CgPV(o) \/ CgPVC(o)
      PROVE  SInv'
  <2>1. CreateRemotePV("cg", o, Goto("cg", "record")) \/ CreateRemotePVC("cg", o, Goto("cg", "record"))
    BY <1>2, Zenon DEF CgPV, CgPVC
  <2> QED
    BY <2>1, ClaimStatus, Zenon
<1>3. ASSUME NEW o \in Outcome, RecordCg(o)
      PROVE  SInv'
  <2>1. Record("cg", 13, o, Return("cg"))
    BY <1>3, Zenon DEF RecordCg
  <2>2. /\ ApiEffect /\ faults' \in Nat /\ UNCHANGED <<replicas, lastId, members, masters>>
        /\ (Return("cg") \/ Retry("cg"))
    BY <1>0, <2>1, RecordStatus
  <2> QED
    BY <1>0, <2>2, JobMoves, WorkingEnds, StepKeeps, Zenon
<1>4. ASSUME NEW o \in Outcome, CompleteCg(o)
      PROVE  SInv'
  <2>1. RecordState("cg", "update", "completed", o) /\ "update" \in Final("cg")
    BY <1>4, Zenon DEF CompleteCg, Final
  <2> QED
    BY <1>0, <2>1, RecordStateStatus, Zenon
<1> QED
  BY <1>0, <1>1, <1>2, <1>3, <1>4, CgLooks, CgSuspends, CgChanges, CgClaimsStatus, AbortStatus, Zenon DEF CgStep

\* The iboxpromote controller.
LEMMA PromoteStatus ==
    ASSUME SInv, PromoteStep
    PROVE  SInv'
<1>0. ReadOutcome \subseteq Outcome /\ "promote" \in Kind /\ "update" \in Label /\ "completed" \in State /\ 1 \in Nat
  BY Zenon DEF ReadOutcome, Outcome, Kind, Label, State
<1>1. ASSUME NEW o \in Outcome, NEW c \in Of("promote"), PromoteReconcile(c, o)
      PROVE  SInv'
  <2> DEFINE next == PromoteBranch(cache[c])
  <2>1. next \in {"idle", "create", "update", "delete"} /\ next # "delete" /\ (next = "update" => cache[c].id # 0)
    BY Zenon DEF PromoteBranch
  <2>2. Reconcile("promote", c, o, next)
    BY <1>1, Zenon DEF PromoteReconcile
  <2> HIDE DEF next
  <2> QED
    BY <1>0, <2>1, <2>2, ReconcileStatus, Zenon
<1>2. ASSUME NEW o \in Outcome, PreparePromote(o)
      PROVE  SInv'
  <2>1. UNCHANGED <<cr, news, cache, replicas, lastId, members, masters>> /\ job["promote"].at # "idle"
    BY <1>2, Zenon DEF PreparePromote, At, api, array
  <2>2. faults' \in Nat
    BY <1>2, FaultsOK, Zenon DEF PreparePromote
  <2>3. Goto("promote", "abort") \/ Goto("promote", "post") \/ Return("promote")
    BY <1>2, Zenon DEF PreparePromote
  <2>4. "abort" \in Label \ Final("promote") /\ "post" \in Label \ Final("promote")
    BY Zenon DEF Label, Final
  <2> QED
    BY <1>0, <2>1, <2>2, <2>3, <2>4, GotoStatus, EndStatus, Zenon
<1>3. ASSUME NEW o \in Outcome, PromoteSnapshot(o)
      PROVE  SInv'
  <2> DEFINE c == job["promote"].c
             l == IF Ok(o) THEN "record" ELSE "abort"
  <2>1. UNCHANGED <<cr, news, cache, replicas, lastId, members>> /\ job["promote"].at = "post" /\ faults' \in Nat
    BY <1>3, FaultsOK, Zenon DEF PromoteSnapshot, At, api
  <2>2. ApiEffect /\ c \in CR /\ CRSpec[c].kind = "promote" /\ CRSpec[c].entity \in Entity
    BY <1>0, <2>1, ApiSame, JobResource, Zenon DEF Entity
  <2>3. /\ masters' = (IF Done(o) THEN masters \cup {CRSpec[c].entity} ELSE masters)
        /\ Goto("promote", l) /\ l \in Label /\ (l \in Final("promote") => Ok(o))
    BY <1>3, Zenon DEF PromoteSnapshot, PromoteSpec, Label, Final
  <2>4. masters' \in SUBSET Entity /\ masters \subseteq masters' /\ members' \in SUBSET Entity
    BY <2>1, <2>2, <2>3, Zenon DEF SInv, ArrayOK
  <2>5. ArrayEffect /\ SameReplicas
    BY <2>1, <2>2, <2>4, MemberEffect, Zenon
  <2>6. job'["promote"].c = c
    BY <1>0, <2>3, JobMoves, Zenon
  <2>7. Ok(o) => CRSpec[c].entity \in masters'
    BY <2>3, Zenon DEF Ok, Done
  <2>8. Ok(o) => Achieved(c)'
    BY <2>2, <2>6, <2>7, Zenon DEF Achieved
  <2> HIDE DEF l
  <2> QED
    BY <2>1, <2>2, <2>3, <2>5, <2>8, CallStatus, Zenon
<1>4. ASSUME NEW o \in Outcome, RecordPromote(o)
      PROVE  SInv'
  <2>1. Record("promote", 1, o, Return("promote"))
    BY <1>4, Zenon DEF RecordPromote
  <2>2. /\ ApiEffect /\ faults' \in Nat /\ UNCHANGED <<replicas, lastId, members, masters>>
        /\ (Return("promote") \/ Retry("promote"))
    BY <1>0, <2>1, RecordStatus
  <2> QED
    BY <1>0, <2>2, JobMoves, WorkingEnds, StepKeeps, Zenon
<1>5. ASSUME NEW o \in Outcome, CompletePromote(o)
      PROVE  SInv'
  <2>1. RecordState("promote", "update", "completed", o) /\ "update" \in Final("promote")
    BY <1>5, Zenon DEF CompletePromote, Final
  <2> QED
    BY <1>0, <2>1, RecordStateStatus, Zenon
<1> QED
  BY <1>0, <1>1, <1>2, <1>3, <1>4, <1>5, AbortStatus, Zenon DEF PromoteStep

\* No worker moves.
LEMMA JobsKept ==
    ASSUME SInv, ApiEffect, ArrayEffect, SameReplicas, job' = job
    PROVE  SInv'
<1>1. "cg" \in Kind /\ Moves("cg")
  BY Zenon DEF Kind, Moves, SInv
<1> QED
  BY <1>1, WorkingKept, StatusKeeps, Zenon

\* The users, the informers and the restarts.
LEMMA OtherStatus ==
    ASSUME SInv, Environment \/ Progress
    PROVE  SInv'
<1>0. cr \in [CR -> Version] /\ news \in [CR -> Seq(Version)] /\ cache \in [CR -> Version]
  BY Zenon DEF SInv, ApiOK
<1>1. ASSUME NEW c \in CR, UserCreate(c) \/ UserDelete(c)
      PROVE  SInv'
  <2>1. UNCHANGED <<cache, job, replicas, lastId, members, masters, faults>>
    BY <1>1, Zenon DEF UserCreate, UserDelete, array
  <2>2. ApiEffect
    <3>1. CASE UserCreate(c)
      <4> DEFINE obj == [Absent EXCEPT !.phase = "live"]
      <4>1. /\ obj \in Version /\ obj.phase = "live" /\ obj.fin = FALSE /\ obj.id = 0 /\ obj.state = ""
        BY Zenon DEF Absent, Version, State
      <4>2. Store(c, obj) /\ cr[c].phase = "none"
        BY <3>1, Zenon DEF UserCreate
      <4> HIDE DEF obj
      <4>3. Written(c, obj)
        BY <4>1, Zenon DEF Written, Finished
      <4> QED
        BY <2>1, <4>1, <4>2, <4>3, StoreEffect, Zenon
    <3>2. CASE UserDelete(c)
      <4> DEFINE obj == [cr[c] EXCEPT !.phase = IF cr[c].fin THEN "deleting" ELSE "gone"]
      <4>1. /\ obj \in Version /\ (obj.phase = "gone" \/ (obj.phase = "deleting" /\ obj.fin))
            /\ obj.id = cr[c].id /\ obj.state = cr[c].state
        BY <1>0, Zenon DEF Version
      <4>2. Store(c, obj) /\ cr[c].phase = "live"
        BY <3>2, Zenon DEF UserDelete
      <4>3. Known(c, cr[c]) /\ (CRSpec[c].kind = "replica" /\ cr[c].id # 0 => HasReplica(c, cr[c].id))
        BY <4>2, Zenon DEF SInv, Versions, StatusKept, Of, Exists
      <4> HIDE DEF obj
      <4>4. Written(c, obj)
        BY <4>1, <4>3, Zenon DEF Written, Finished, Known
      <4> QED
        BY <2>1, <4>1, <4>2, <4>4, StoreEffect, Zenon
    <3> QED
      BY <1>1, <3>1, <3>2, Zenon
  <2>3. ArrayEffect /\ SameReplicas
    BY <2>1, <2>2, FaultsOK, ArraySame, Zenon
  <2> QED
    BY <2>1, <2>2, <2>3, JobsKept, Zenon
<1>2. ASSUME NEW k \in Kind, Resync(k)
      PROVE  SInv'
  <2>1. UNCHANGED <<cr, news, cache, job, replicas, lastId, members, masters, faults>>
    BY <1>2, Zenon DEF Resync, api, array
  <2> QED
    BY <2>1, ApiSame, ArraySame, FaultsOK, JobsKept, Zenon
<1>3. ASSUME NEW k \in Kind, Crash(k)
      PROVE  SInv'
  <2>1. /\ UNCHANGED <<cr, replicas, lastId, members, masters>> /\ faults' \in Nat
        /\ job' = [job EXCEPT ![k] = Idle]
        /\ cache' = [c \in CR |-> IF c \in Of(k) THEN cr[c] ELSE cache[c]]
        /\ news' = [c \in CR |-> IF c \in Of(k) THEN <<>> ELSE news[c]]
    BY <1>3, FaultsOK, Zenon DEF Crash, array
  <2>2. cache' \in [CR -> Version] /\ news' \in [CR -> Seq(Version)]
    BY <1>0, <2>1
  <2>3. ASSUME NEW c \in CR PROVE Versions(c)' \subseteq Versions(c) \cup {cr'[c]}
    BY <2>1, SMTT(30) DEF Versions
  <2>4. ApiEffect
    BY <1>0, <2>1, <2>2, <2>3, Zenon DEF ApiEffect, ApiOK
  <2>5. Moves(k) /\ job'[k].at = "idle"
    BY <2>1, IdleOK, Zenon DEF SInv, Moves
  <2> QED
    BY <2>1, <2>4, <2>5, WorkingEnds, StepKeeps, Zenon
<1>4. ASSUME NEW c \in CR, Deliver(c)
      PROVE  SInv'
  <2>1. /\ UNCHANGED <<cr, job, replicas, lastId, members, masters, faults>> /\ news[c] # <<>>
        /\ cache' = [cache EXCEPT ![c] = Head(news[c])]
        /\ news' = [news EXCEPT ![c] = Tail(@)]
    BY <1>4, Zenon DEF Deliver, array
  <2>2. news[c] \in Seq(Version)
    BY <1>0, Zenon
  <2>3. /\ Head(news[c]) \in Version /\ Tail(news[c]) \in Seq(Version) /\ Head(news[c]) = news[c][1] /\ 1 \in 1..Len(news[c])
        /\ \A i \in 1..Len(Tail(news[c])) : i + 1 \in 1..Len(news[c]) /\ Tail(news[c])[i] = news[c][i + 1]
    BY <2>1, <2>2
  <2>4. cache' \in [CR -> Version] /\ news' \in [CR -> Seq(Version)]
    BY <1>0, <2>1, <2>3, Zenon
  <2>5. ASSUME NEW d \in CR PROVE Versions(d)' \subseteq Versions(d) \cup {cr'[d]}
    <3>1. CASE d = c
      <4>1. cache'[c] = news[c][1] /\ news'[c] = Tail(news[c])
        BY <1>0, <2>1, <2>3, Zenon
      <4>2. \A i \in 1..Len(news'[c]) : news'[c][i] \in Versions(c)
        BY <2>3, <4>1, Zenon DEF Versions
      <4>3. cache'[c] \in Versions(c)
        BY <2>3, <4>1, Zenon DEF Versions
      <4> QED
        BY <3>1, <4>2, <4>3, SMTT(30) DEF Versions
    <3>2. CASE d # c
      BY <1>0, <2>1, <3>2, Zenon DEF Versions
    <3> QED
      BY <3>1, <3>2, Zenon
  <2>6. ApiEffect
    BY <1>0, <2>1, <2>4, <2>5, Zenon DEF ApiEffect, ApiOK
  <2> QED
    BY <2>1, <2>6, FaultsOK, ArraySame, JobsKept, Zenon
<1>5. ASSUME NEW r \in replicas, Suspended(r)
      PROVE  SInv'
  <2>1. UNCHANGED <<cr, news, cache, job, lastId, members, masters, faults>> /\ SetState(r.id, "suspended")
    BY <1>5, Zenon DEF Suspended, api
  <2>2. r.id \in Nat /\ "suspended" \in Mode /\ faults' \in Nat
    BY <2>1, Zenon DEF SInv, ArrayOK, Replica, Mode
  <2>3. ApiEffect
    BY <2>1, ApiSame, Zenon
  <2> QED
    BY <2>1, <2>2, <2>3, StateEffect, JobsKept, Zenon
<1>6. ASSUME LinkDown \/ LinkUp
      PROVE  SInv'
  <2>1. UNCHANGED <<cr, news, cache, job, replicas, lastId, members, masters>> /\ faults' \in Nat
    BY <1>6, FaultsOK, Zenon DEF LinkDown, LinkUp, api
  <2> QED
    BY <2>1, ApiSame, ArraySame, JobsKept, Zenon
<1> QED
  BY <1>1, <1>2, <1>3, <1>4, <1>5, <1>6, Zenon DEF Environment, Progress

\* Every step keeps the invariant.
LEMMA NextSInv == SInv /\ [Next]_vars => SInv'
<1> SUFFICES ASSUME SInv, [Next]_vars
             PROVE  SInv'
  BY Zenon
<1>1. CASE UNCHANGED vars
  <2>1. UNCHANGED <<cr, news, cache, job, replicas, lastId, members, masters, faults>>
    BY <1>1, Zenon DEF vars, api, array
  <2> QED
    BY <2>1, ApiSame, ArraySame, FaultsOK, JobsKept, Zenon
<1>2. CASE Next
  BY <1>2, ReplicaStatus, CgStatus, PromoteStatus, OtherStatus, Zenon DEF Next
<1> QED
  BY <1>1, <1>2, Zenon

\* At the start a resource is ready with its replica or is not there.
LEMMA InitSInv == Init => SInv
<1> SUFFICES ASSUME Init
             PROVE  SInv
  BY Zenon
<1> DEFINE ready == scenario.ready
<1>1. ready \subseteq Of("replica") /\ (\A c, d \in ready : c = d) /\ scenario.members \subseteq Volume /\ ready \subseteq CR
  BY ScenarioAssumption, ReadyAssumption, Zenon DEF Init, Of
<1>2. lastId \in Nat /\ (ready # {} => lastId = 1)
  <2>1. CASE ready = {}
    BY <2>1, Zenon DEF Init
  <2>2. ASSUME NEW c \in ready PROVE lastId = 1
    <3>1. ready = {c}
      BY <1>1, <2>2, Zenon
    <3> QED
      BY <3>1, Zenon DEF Init
  <2> QED
    BY <2>1, <2>2
<1>3. Ready \in Version /\ Absent \in Version /\ Idle \in Job
  BY IdleOK, Zenon DEF Ready, Version, State, Mode
<1>4. ApiOK
  <2>1. cr \in [CR -> Version] /\ cache = cr
    BY <1>3, Zenon DEF Init
  <2>2. news \in [CR -> Seq(Version)]
    BY SMTT(30) DEF Init
  <2> QED
    BY <2>1, <2>2, Zenon DEF ApiOK
<1>5. \A c \in ready : ReadyReplica(c) \in Replica
  BY <1>1, Zenon DEF ReadyReplica, Replica, Entity, Mode
<1>6. ArrayOK
  BY <1>1, <1>2, <1>5, Zenon DEF Init, ArrayOK, Entity
<1>7. \A r \in replicas : \E c \in ready : r = ReadyReplica(c)
  BY Zenon DEF Init
<1>8. Identified
  BY <1>1, <1>2, <1>7, SMTT(30) DEF Identified, ReadyReplica
<1>9. StatusKept
  <2> SUFFICES ASSUME NEW c \in Of("replica"), Exists(cr[c])
               PROVE  HasReplica(c, cr[c].id)
    BY Zenon DEF StatusKept
  <2>1. c \in CR /\ c \in ready /\ cr[c] = Ready
    BY Zenon DEF Init, Exists, Absent, Of
  <2>2. ReadyReplica(c) \in replicas
    BY <2>1, Zenon DEF Init
  <2> QED
    <3>1. ReadyReplica(c).id = 1 /\ ReadyReplica(c).entity = CRSpec[c].entity /\ ReadyReplica(c).owner = c
      BY Zenon DEF ReadyReplica
    <3>2. Ready.id = 1
      BY Zenon DEF Ready
    <3> QED
      BY <2>1, <2>2, <3>1, <3>2, Zenon DEF HasReplica
<1>10. \A k \in Kind : Working(k)
  BY Zenon DEF Init, Working, Idle
<1>11. ASSUME NEW c \in CR, NEW x \in Versions(c)
       PROVE  Known(c, x)
  <2>1. x = cr[c] /\ cr[c] \in Version
    <3>1. cache[c] = cr[c] /\ news[c] = <<>>
      BY Zenon DEF Init
    <3>2. ~\E i \in 1..Len(news[c]) : TRUE
      BY <3>1
    <3> QED
      BY <1>4, <3>1, <3>2, Zenon DEF Versions, ApiOK
  <2>2. cr[c] = Absent \/ (cr[c] = Ready /\ c \in Of("replica"))
    BY <1>1, Zenon DEF Init
  <2>3. CASE cr[c] = Absent
    <3>1. Absent.phase = "none" /\ Absent.id = 0 /\ Absent.state = ""
      BY Zenon DEF Absent
    <3>2. x.rv \in Nat /\ x.phase = "none" /\ x.id = 0 /\ x.state # "completed"
      BY <2>1, <2>3, <3>1, Zenon DEF Version
    <3> QED
      BY <2>1, <3>2, SMTT(30) DEF Known, Finished
  <2>4. CASE cr[c] = Ready /\ c \in Of("replica")
    BY <2>1, <2>4, SMTT(30) DEF Known, Ready, Finished, Achieved, Of
  <2> QED
    BY <2>2, <2>3, <2>4, Zenon
<1>12. job \in [Kind -> Job]
  BY <1>3, Zenon DEF Init
<1> QED
  BY <1>4, <1>6, <1>8, <1>9, <1>10, <1>11, <1>12, Zenon DEF SInv

\* Whatever is lost, retried, restarted or read from a stale cache, and for
\* any resources: an Iboxreplica whose status has an ID has the replica with
\* that ID, of its entity and made for it; the volume of an Iboxcg that is
\* recorded or completed is in the group, unless a resource was made that
\* removes it; the snapshot of a recorded Iboxpromote is promoted.
THEOREM StatusHonest == Spec => []StatusTrue
<1>1. Init => SInv
  BY InitSInv, Zenon
<1>2. SInv /\ [Next]_vars => SInv'
  BY NextSInv, Zenon
<1>3. SInv => StatusTrue
  <2> SUFFICES ASSUME SInv, NEW c \in CR, Exists(cr[c]), Finished(cr[c])
               PROVE  LET s == CRSpec[c]
                      IN  CASE s.kind = "replica" ->
                                 \E r \in replicas : r.id = cr[c].id /\ r.entity = s.entity /\ r.owner = c
                            [] s.kind = "cg" /\ s.action # "REMOVE" -> s.entity \in members \/ Removing(s.entity)
                            [] s.kind = "promote" -> s.entity \in masters
                            [] OTHER -> TRUE
    BY Zenon DEF StatusTrue, Finished, Removing
  <2>1. Known(c, cr[c]) /\ Achieved(c)
    BY Zenon DEF SInv, Versions, Known
  <2>2. CRSpec[c].kind = "replica" => HasReplica(c, cr[c].id)
    BY <2>1, Zenon DEF SInv, StatusKept, Of, Known, Finished
  <2> QED
    BY <2>1, <2>2, Zenon DEF Achieved, HasReplica
<1> QED
  BY <1>1, <1>2, <1>3, PTL DEF Spec
=============================================================================
