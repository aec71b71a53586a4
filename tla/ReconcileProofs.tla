-------------------------- MODULE ReconcileProofs --------------------------
(***************************************************************************)
(* Proofs of what the controllers do as long as nothing fails: the replica *)
(* of a deleted resource goes with it, and a group is changed while its    *)
(* replica is suspended, which is resumed afterwards.                      *)
(*                                                                         *)
(* ResumedAfterChange and ChangedWhileSuspended: what a reconcile of a     *)
(* group has done so far says in which state the group's replica is.       *)
(*                                                                         *)
(* ReplicaRemoved: an ID in a status never changes, a resource is finished *)
(* only through its finalizer, and every replica has an owner, which is a  *)
(* resource that records it, or the worker that is about to record or      *)
(* delete it.                                                              *)
(***************************************************************************)
EXTENDS ControllersProofs

----------------------------------------------------------------------------
(* Whose step it is.                                                        *)

\* A controller writes to its own resources and moves its own worker.
Own(k) ==
    /\ \A u \in Kind \ {k} : job'[u] = job[u]
    /\ \A c \in CR \ Of(k) : cr'[c] = cr[c] /\ cache'[c] = cache[c] /\ news'[c] = news[c]
    /\ faults' = 0 => faults = 0

\* A fault is not forgotten.
LEMMA FaultsGrow ==
    ASSUME SInv
    PROVE  /\ \A c : Fault(c) => faults' # 0
           /\ \A c, o : Charge(c, o) => (faults' = 0 => faults = 0 /\ Ok(o))
           /\ faults' = faults => (faults' = 0 => faults = 0)
  BY DEF SInv, ArrayOK, Fault, Charge

\* The other workers stay where they are.
LEMMA OwnJob ==
    ASSUME SInv, NEW k \in Kind
    PROVE  /\ \A l : Goto(k, l) => \A u \in Kind \ {k} : job'[u] = job[u]
           /\ Return(k) \/ Retry(k) => \A u \in Kind \ {k} : job'[u] = job[u]
  BY Zenon DEF SInv, Goto, Return, Retry

\* The other resources stay as they are.
LEMMA OwnApi ==
    ASSUME SInv, NEW k \in Kind, NEW c \in Of(k), cache' = cache,
           UNCHANGED <<cr, news>> \/ \E obj : Store(c, obj)
    PROVE  \A d \in CR \ Of(k) : cr'[d] = cr[d] /\ cache'[d] = cache[d] /\ news'[d] = news[d]
<1>1. CASE UNCHANGED <<cr, news>>
  BY <1>1, Zenon
<1>2. ASSUME NEW obj, Store(c, obj)
      PROVE  \A d \in CR \ {c} : cr'[d] = cr[d] /\ news'[d] = news[d]
  BY <1>2, Zenon DEF Store, api, SInv, ApiOK
<1> QED
  BY <1>1, <1>2, Zenon

\* The state of a finished resource is shown.
LEMMA OwnState ==
    ASSUME SInv, NEW k \in Kind, NEW o \in Outcome, NEW l, NEW s, l # "idle", RecordState(k, l, s, o)
    PROVE  Own(k)
<1>1. cache' = cache /\ (UNCHANGED <<cr, news>> \/ \E obj : Store(job[k].c, obj)) /\ job[k].at # "idle"
  BY Zenon DEF RecordState, api, At
<1>2. faults' = 0 => faults = 0
  BY FaultsGrow, Zenon DEF RecordState
<1>3. Return(k) \/ Retry(k)
  BY Zenon DEF RecordState
<1>4. job[k].c \in Of(k)
  BY <1>1, JobResource, Zenon
<1> QED
  BY <1>1, <1>2, <1>3, <1>4, OwnApi, OwnJob, Zenon DEF Own

\* The other steps the reconcilers have in common.
LEMMA OwnCommon ==
    ASSUME SInv, NEW k \in Kind, NEW o \in Outcome, NEW ACTION done, NEW i, NEW c \in Of(k), NEW next,
           done => \A u \in Kind \ {k} : job'[u] = job[u]
    PROVE  /\ Reconcile(k, c, o, next) => Own(k)
           /\ Abort(k, o) => Own(k)
           /\ Record(k, i, o, done) => Own(k)
           /\ CreateRemotePV(k, o, done) => Own(k)
           /\ CreateRemotePVC(k, o, done) => Own(k)
<1>1. ASSUME Reconcile(k, c, o, next) PROVE Own(k)
  <2>1. cache' = cache /\ (UNCHANGED <<cr, news>> \/ \E obj : Store(c, obj))
    BY <1>1, Zenon DEF Reconcile, api
  <2>2. faults' = 0 => faults = 0
    BY <1>1, FaultsGrow, Zenon DEF Reconcile
  <2>3. job' = job \/ \E j : job' = [job EXCEPT ![k] = j]
    BY <1>1, Zenon DEF Reconcile
  <2>4. \A u \in Kind \ {k} : job'[u] = job[u]
    BY <2>3, Zenon DEF SInv
  <2> QED
    BY <2>1, <2>2, <2>4, OwnApi, Zenon DEF Own
<1>2. ASSUME Abort(k, o) \/ Record(k, i, o, done) PROVE Own(k)
  <2>1. cache' = cache /\ (UNCHANGED <<cr, news>> \/ \E obj : Store(job[k].c, obj)) /\ job[k].at # "idle"
    BY <1>2, Zenon DEF Abort, Record, api, At
  <2>2. faults' = 0 => faults = 0
    BY <1>2, FaultsGrow, Zenon DEF Abort, Record
  <2>3. done \/ Retry(k)
    BY <1>2, Zenon DEF Abort, Record
  <2>4. job[k].c \in Of(k)
    BY <2>1, JobResource, Zenon
  <2> QED
    BY <2>1, <2>2, <2>3, <2>4, OwnApi, OwnJob, Zenon DEF Own
<1>3. ASSUME CreateRemotePV(k, o, done) \/ CreateRemotePVC(k, o, done) PROVE Own(k)
  <2>1. UNCHANGED <<cr, news, cache>>
    BY <1>3, Zenon DEF CreateRemotePV, CreateRemotePVC, api
  <2>2. faults' = 0 => faults = 0
    BY <1>3, FaultsGrow, Zenon DEF CreateRemotePV, CreateRemotePVC
  <2>3. done \/ Goto(k, "claim") \/ \E v : job' = [job EXCEPT ![k].at = "pv", ![k].rest = @ \ {v}]
    BY <1>3, Zenon DEF CreateRemotePV, CreateRemotePVC
  <2>4. \A v : job' = [job EXCEPT ![k].at = "pv", ![k].rest = @ \ {v}] => \A u \in Kind \ {k} : job'[u] = job[u]
    BY Zenon DEF SInv
  <2> QED
    BY <2>1, <2>2, <2>3, <2>4, OwnJob, Zenon DEF Own
<1> QED
  BY <1>1, <1>2, <1>3, Zenon

\* The iboxpromote controller keeps to itself.
LEMMA PromoteOwn ==
    ASSUME SInv, PromoteStep
    PROVE  Own("promote") /\ UNCHANGED <<replicas, lastId, members>>
<1>0. "promote" \in Kind
  BY Zenon DEF Kind
<1>1. UNCHANGED <<replicas, lastId, members>>
  BY Zenon DEF PromoteStep, PromoteReconcile, PreparePromote, PromoteSnapshot, RecordPromote, CompletePromote, Abort,
               Reconcile, Record, RecordState, array
<1>2. ASSUME NEW o \in Outcome, NEW c \in Of("promote"), PromoteReconcile(c, o)
      PROVE  Own("promote")
  BY <1>0, <1>2, OwnCommon, Zenon DEF PromoteReconcile
<1>3. ASSUME NEW o \in Outcome, PreparePromote(o) \/ PromoteSnapshot(o)
      PROVE  Own("promote")
  <2>1. UNCHANGED <<cr, news, cache>>
    BY <1>3, Zenon DEF PreparePromote, PromoteSnapshot, api
  <2>2. faults' = 0 => faults = 0
    BY <1>3, FaultsGrow, Zenon DEF PreparePromote, PromoteSnapshot
  <2>3. Return("promote") \/ \E l : Goto("promote", l)
    BY <1>3, Zenon DEF PreparePromote, PromoteSnapshot
  <2> QED
    BY <1>0, <2>1, <2>2, <2>3, OwnJob, Zenon DEF Own
<1>4. ASSUME NEW o \in Outcome, RecordPromote(o) \/ CompletePromote(o) \/ Abort("promote", o)
      PROVE  Own("promote")
  <2>1. job["promote"].at # "idle"
    BY <1>4, Zenon DEF RecordPromote, CompletePromote, Record, RecordState, Abort, At
  <2>2. PICK c \in Of("promote") : c = job["promote"].c
    BY <1>0, <2>1, JobResource, Zenon
  <2>3. Record("promote", 1, o, Return("promote")) \/ RecordState("promote", "update", "completed", o) \/ Abort("promote", o)
    BY <1>4, Zenon DEF RecordPromote, CompletePromote
  <2>4. Return("promote") => \A u \in Kind \ {"promote"} : job'[u] = job[u]
    BY <1>0, OwnJob, Zenon
  <2>5. CASE Record("promote", 1, o, Return("promote"))
    BY <1>0, <2>2, <2>4, <2>5, OwnCommon, Zenon
  <2>6. CASE RecordState("promote", "update", "completed", o)
    BY <1>0, <2>6, OwnState, Zenon
  <2>7. CASE Abort("promote", o)
    BY <1>0, <2>2, <2>4, <2>7, OwnCommon, Zenon
  <2> QED
    BY <2>3, <2>5, <2>6, <2>7, Zenon
<1>5. ReadOutcome \subseteq Outcome
  BY Zenon DEF ReadOutcome, Outcome
<1> QED
  BY <1>1, <1>2, <1>3, <1>4, <1>5, Zenon DEF PromoteStep

\* A change of state, once more.
LEMMA StateSame ==
    ASSUME SInv, NEW i, NEW s, SetState(i, s)
    PROVE  /\ SameReplicas
           /\ \A r \in replicas' : \E q \in replicas : /\ q.id = r.id /\ q.entity = r.entity /\ q.owner = r.owner
                                                       /\ r.state = IF q.id = i THEN s ELSE q.state
<1> DEFINE After(q) == IF q.id = i THEN [q EXCEPT !.state = s] ELSE q
<1>1. replicas' = {After(q) : q \in replicas} /\ replicas \subseteq Replica
  BY Zenon DEF SetState, SInv, ArrayOK
<1>2. \A q \in Replica : /\ After(q).id = q.id /\ After(q).entity = q.entity /\ After(q).owner = q.owner
                         /\ After(q).state = IF q.id = i THEN s ELSE q.state
  BY Zenon DEF Replica
<1> HIDE DEF After
<1> QED
  BY <1>1, <1>2 DEF SameReplicas

\* So does the iboxcg controller, but for the group and its replica's state.
LEMMA CgOwn ==
    ASSUME SInv, CgStep
    PROVE  Own("cg") /\ SameReplicas /\ lastId' = lastId
<1>0. "cg" \in Kind /\ ReadOutcome \subseteq Outcome
  BY Zenon DEF Kind, ReadOutcome, Outcome
<1>1. lastId' = lastId /\ (UNCHANGED replicas \/ \E i, s : SetState(i, s))
  BY Zenon DEF CgStep, CgReconcile, PrepareCg, GetMembers, GetReplicaForCG, SuspendReplica, PollSuspended, ResumeReplica,
               AddMemberToCG, RemoveMemberFromCG, CgClaims, CgPV, CgPVC, RecordCg, CompleteCg, Abort,
               Reconcile, Record, RecordState, CreateRemotePV, CreateRemotePVC, PostSuspend, PostResume, array
<1>2. SameReplicas
  BY <1>1, StateSame, Zenon DEF SameReplicas
<1>3. ASSUME NEW o \in Outcome, NEW c \in Of("cg"), CgReconcile(c, o)
      PROVE  Own("cg")
  BY <1>0, <1>3, OwnCommon, Zenon DEF CgReconcile
<1>4. ASSUME NEW o \in Outcome, PrepareCg(o) \/ GetMembers(o) \/ GetReplicaForCG(o)
      PROVE  Own("cg")
  <2>1. UNCHANGED <<cr, news, cache>>
    BY <1>4, Zenon DEF PrepareCg, GetMembers, GetReplicaForCG, api
  <2>2. faults' = 0 => faults = 0
    BY <1>4, FaultsGrow, Zenon DEF PrepareCg, GetMembers, GetReplicaForCG
  <2>3. \/ Return("cg") \/ Retry("cg") \/ \E l : Goto("cg", l)
        \/ \E l, x : job' = [job EXCEPT !["cg"].at = l, !["cg"].obj = x]
        \/ \E l, x : job' = [job EXCEPT !["cg"].seen = x, !["cg"].at = l]
        \/ \E l, x : job' = [job EXCEPT !["cg"].id = x, !["cg"].at = l]
    BY <1>4, Zenon DEF PrepareCg, GetMembers, GetReplicaForCG
  <2>4. \A u \in Kind \ {"cg"} : job'[u] = job[u]
    BY <1>0, <2>3, OwnJob, Zenon DEF SInv
  <2> QED
    BY <2>1, <2>2, <2>4, Zenon DEF Own
<1>5. ASSUME NEW o \in Outcome,
             SuspendReplica(o) \/ PollSuspended(o) \/ ResumeReplica(o) \/ AddMemberToCG(o) \/ RemoveMemberFromCG(o)
      PROVE  Own("cg")
  <2>1. UNCHANGED <<cr, news, cache>>
    BY <1>5, Zenon DEF SuspendReplica, PollSuspended, ResumeReplica, AddMemberToCG, RemoveMemberFromCG, api
  <2>2. faults' = 0 => faults = 0
    BY <1>5, FaultsGrow, Zenon DEF SuspendReplica, PollSuspended, ResumeReplica, AddMemberToCG, RemoveMemberFromCG
  <2>3. Retry("cg") \/ \E l : Goto("cg", l)
    BY <1>5, Zenon DEF SuspendReplica, PollSuspended, ResumeReplica, AddMemberToCG, RemoveMemberFromCG
  <2> QED
    BY <1>0, <2>1, <2>2, <2>3, OwnJob, Zenon DEF Own
<1>6. ASSUME NEW o \in Outcome, CgClaims(o)
      PROVE  Own("cg")
  <2>1. cache' = cache /\ (UNCHANGED <<cr, news>> \/ \E obj : Store(job["cg"].c, obj)) /\ job["cg"].at # "idle"
    BY <1>6, Zenon DEF CgClaims, api, At
  <2>2. faults' = 0 => faults = 0
    BY <1>6, FaultsGrow, Zenon DEF CgClaims
  <2>3. \/ \E x : job' = [job EXCEPT !["cg"].at = "pv", !["cg"].rest = x]
        \/ job' = [job EXCEPT !["cg"].at = "record"]
    BY <1>6, Zenon DEF CgClaims
  <2>4. \A u \in Kind \ {"cg"} : job'[u] = job[u]
    BY <2>3, Zenon DEF SInv
  <2>5. job["cg"].c \in Of("cg")
    BY <1>0, <2>1, JobResource, Zenon
  <2> QED
    BY <1>0, <2>1, <2>2, <2>4, <2>5, OwnApi, Zenon DEF Own
<1>7. ASSUME NEW o \in Outcome, CgPV(o) \/ CgPVC(o) \/ RecordCg(o) \/ CompleteCg(o) \/ Abort("cg", o)
      PROVE  Own("cg")
  <2>1. job["cg"].at # "idle"
    BY <1>7, Zenon DEF CgPV, CgPVC, RecordCg, CompleteCg, CreateRemotePV, CreateRemotePVC, Record, RecordState, Abort, At
  <2>2. PICK c \in Of("cg") : c = job["cg"].c
    BY <1>0, <2>1, JobResource, Zenon
  <2>3. \/ Record("cg", 13, o, Return("cg")) \/ RecordState("cg", "update", "completed", o) \/ Abort("cg", o)
        \/ CreateRemotePV("cg", o, Goto("cg", "record")) \/ CreateRemotePVC("cg", o, Goto("cg", "record"))
    BY <1>7, Zenon DEF RecordCg, CompleteCg, CgPV, CgPVC
  <2>4. Return("cg") => \A u \in Kind \ {"cg"} : job'[u] = job[u]
    BY <1>0, OwnJob, Zenon
  <2>6. CASE Record("cg", 13, o, Return("cg"))
    BY <1>0, <2>2, <2>4, <2>6, OwnCommon, Zenon
  <2>7. CASE RecordState("cg", "update", "completed", o)
    BY <1>0, <2>7, OwnState, Zenon
  <2>8. CASE Abort("cg", o)
    BY <1>0, <2>2, <2>4, <2>8, OwnCommon, Zenon
  <2>5. CASE CreateRemotePV("cg", o, Goto("cg", "record")) \/ CreateRemotePVC("cg", o, Goto("cg", "record"))
    BY <1>0, <2>2, <2>5, OwnCommon, OwnJob, Zenon
  <2> QED
    BY <2>3, <2>5, <2>6, <2>7, <2>8, Zenon
<1> QED
  BY <1>0, <1>1, <1>2, <1>3, <1>4, <1>5, <1>6, <1>7, Zenon DEF CgStep

\* And the iboxreplica controller, which makes active replicas and deletes them.
LEMMA ReplicaOwn ==
    ASSUME SInv, ReplicaStep
    PROVE  /\ Own("replica") /\ members' = members /\ (lastId' = lastId \/ lastId' = lastId + 1)
           /\ \A r \in replicas' : r \in replicas \/ (r.id = lastId + 1 /\ r.state = "active")
<1>0. "replica" \in Kind /\ ReadOutcome \subseteq Outcome
  BY Zenon DEF Kind, ReadOutcome, Outcome
<1>1. /\ members' = members
      /\ \/ UNCHANGED <<replicas, lastId>>
         \/ lastId' = lastId /\ \E i : DropReplica(i)
         \/ \E e, c : PostReplica(e, c)
  BY Zenon DEF ReplicaStep, ReplicaReconcile, PrepareReplica, LookupPool, GetReplicas, GetReplica, CreateReplica,
               RecordReplica, ReplicaClaims, ReplicaPV, ReplicaPVC, DeleteReplica, ShowState, Abort, Reconcile, Record,
               RecordState, CreateRemotePV, CreateRemotePVC, array
<1>2. /\ lastId' = lastId \/ lastId' = lastId + 1
      /\ \A r \in replicas' : r \in replicas \/ (r.id = lastId + 1 /\ r.state = "active")
  BY <1>1 DEF DropReplica, PostReplica
<1>3. ASSUME NEW o \in Outcome, NEW c \in Of("replica"), ReplicaReconcile(c, o)
      PROVE  Own("replica")
  BY <1>0, <1>3, OwnCommon, Zenon DEF ReplicaReconcile
<1>4. ASSUME NEW o \in Outcome,
             PrepareReplica(o) \/ GetReplicas(o) \/ GetReplica(o) \/ CreateReplica(o) \/ DeleteReplica(o)
      PROVE  Own("replica")
  <2>1. UNCHANGED <<cr, news, cache>>
    BY <1>4, Zenon DEF PrepareReplica, GetReplicas, GetReplica, CreateReplica, DeleteReplica, api
  <2>2. faults' = 0 => faults = 0
    BY <1>4, FaultsGrow, Zenon DEF PrepareReplica, GetReplicas, GetReplica, CreateReplica, DeleteReplica
  <2>3. \/ Return("replica") \/ Retry("replica") \/ \E l : Goto("replica", l)
        \/ \E l, x : job' = [job EXCEPT !["replica"].at = l, !["replica"].obj.state = x]
        \/ \E l, x : job' = [job EXCEPT !["replica"].at = l, !["replica"].id = x]
    BY <1>4, Zenon DEF PrepareReplica, GetReplicas, GetReplica, CreateReplica, DeleteReplica
  <2>4. \A u \in Kind \ {"replica"} : job'[u] = job[u]
    BY <1>0, <2>3, OwnJob, Zenon DEF SInv
  <2> QED
    BY <2>1, <2>2, <2>4, Zenon DEF Own
<1>5. ASSUME NEW o \in Outcome, LookupPool(o) \/ ReplicaClaims(o)
      PROVE  Own("replica")
  <2>1. cache' = cache /\ (UNCHANGED <<cr, news>> \/ \E obj : Store(job["replica"].c, obj)) /\ job["replica"].at # "idle"
    BY <1>5, Zenon DEF LookupPool, ReplicaClaims, api, At
  <2>2. faults' = 0 => faults = 0
    BY <1>5, FaultsGrow, Zenon DEF LookupPool, ReplicaClaims
  <2>3. \/ Return("replica")
        \/ \E l, x, y : job' = [job EXCEPT !["replica"].at = l, !["replica"].pool = x, !["replica"].obj = y]
        \/ \E l, x : job' = [job EXCEPT !["replica"].at = l, !["replica"].rest = x]
    <3>1. CASE ReplicaClaims(o)
      BY <3>1, Zenon DEF ReplicaClaims
    <3>2. CASE LookupPool(o)
      BY <3>2, Zenon DEF LookupPool
    <3> QED
      BY <1>5, <3>1, <3>2, Zenon
  <2>4. \A u \in Kind \ {"replica"} : job'[u] = job[u]
    BY <1>0, <2>3, OwnJob, Zenon DEF SInv
  <2>5. job["replica"].c \in Of("replica")
    BY <1>0, <2>1, JobResource, Zenon
  <2> QED
    BY <1>0, <2>1, <2>2, <2>4, <2>5, OwnApi, Zenon DEF Own
<1>6. ASSUME NEW o \in Outcome, ReplicaPV(o) \/ ReplicaPVC(o) \/ RecordReplica(o) \/ Abort("replica", o)
      PROVE  Own("replica")
  <2>1. job["replica"].at # "idle"
    BY <1>6, Zenon DEF ReplicaPV, ReplicaPVC, RecordReplica, CreateRemotePV, CreateRemotePVC, Record, Abort, At
  <2>2. PICK c \in Of("replica") : c = job["replica"].c
    BY <1>0, <2>1, JobResource, Zenon
  <2>3. Return("replica") => \A u \in Kind \ {"replica"} : job'[u] = job[u]
    BY <1>0, OwnJob, Zenon
  <2>4. Recorded => \A u \in Kind \ {"replica"} : job'[u] = job[u]
    BY <2>3, Zenon DEF Recorded, SInv
  <2>5. CASE Abort("replica", o)
    BY <1>0, <2>2, <2>3, <2>5, OwnCommon, Zenon
  <2>6. CASE RecordReplica(o)
    <3>1. Record("replica", job["replica"].id, o, Recorded)
      BY <2>6, Zenon DEF RecordReplica
    <3> QED
      BY <1>0, <2>2, <2>4, <3>1, OwnCommon, Zenon
  <2>7. CASE ReplicaPV(o) \/ ReplicaPVC(o)
    <3>1. CreateRemotePV("replica", o, Return("replica")) \/ CreateRemotePVC("replica", o, Return("replica"))
      BY <2>7, Zenon DEF ReplicaPV, ReplicaPVC
    <3> QED
      BY <1>0, <2>2, <2>3, <3>1, OwnCommon, Zenon
  <2> QED
    BY <1>6, <2>5, <2>6, <2>7, Zenon
<1>7. ASSUME NEW o \in Outcome, ShowState(o)
      PROVE  Own("replica")
  <2>1. RecordState("replica", "show", job["replica"].obj.state, o)
    BY <1>7, Zenon DEF ShowState
  <2> QED
    BY <1>0, <2>1, OwnState, Zenon
<1> QED
  BY <1>0, <1>1, <1>2, <1>3, <1>4, <1>5, <1>6, <1>7, Zenon DEF ReplicaStep

\* The iboxcg worker and the group's replica: it knows the members while it
\* changes them, and it has what it suspended in its hands.
GroupInv ==
    /\ job["cg"].id <= lastId /\ \A r \in replicas : r.id = job["cg"].id => r.entity = Group
    /\ job["cg"].at \in {"find", "suspend", "poll", "change"} => job["cg"].seen = members
    /\ job["cg"].at \in {"suspend", "poll"} => job["cg"].id # 0 /\ job["cg"].seen # {}
    /\ job["cg"].at \in {"idle", "create", "members", "find", "update"} => job["cg"].id = 0
    /\ faults = 0 =>
        /\ \A r \in replicas : r.state # "active" =>
              job["cg"].id = r.id /\ job["cg"].seen # {} /\ job["cg"].at \in {"poll", "change", "resume"}
        /\ job["cg"].at = "change" /\ job["cg"].id # 0 /\ job["cg"].seen # {} =>
              \A r \in replicas : r.id = job["cg"].id => r.state = "suspended"

\* The array and its types.
LEMMA ReplicasOK ==
    ASSUME SInv
    PROVE  /\ \A r \in replicas : r.id \in Nat /\ r.id # 0 /\ r.id <= lastId /\ \A q \in replicas : q.id = r.id => q = r
           /\ lastId \in Nat /\ faults \in Nat /\ job["cg"] \in Job /\ job["cg"].id \in Nat
  BY Zenon DEF SInv, Identified, ArrayOK, Replica, Job, Kind

\* Steps of others: replicas that are made are new and active.
LEMMA GroupKept ==
    ASSUME SInv, GroupInv, job'["cg"] = job["cg"], members' = members, faults' = 0 => faults = 0,
           lastId' = lastId \/ lastId' = lastId + 1,
           \A r \in replicas' : r \in replicas \/ (r.id = lastId + 1 /\ r.state = "active")
    PROVE  GroupInv'
<1>1. lastId \in Nat /\ job["cg"].id \in Nat
  BY ReplicasOK, Zenon
<1>2. job["cg"].id <= lastId' /\ job["cg"].id # lastId + 1
  BY <1>1 DEF GroupInv
<1> QED
  BY <1>2, Zenon DEF GroupInv

Quiet == {"abort", "record", "pvc", "pv", "claim"}
AllActive == \A r \in replicas : r.state = "active"

\* Away from the change, nothing is suspended.
LEMMA GroupActive ==
    ASSUME GroupInv, faults = 0, job["cg"].at \notin {"poll", "change", "resume"} \/ job["cg"].id = 0, SInv
    PROVE  AllActive
  BY ReplicasOK, Zenon DEF GroupInv, AllActive

\* The reconcile begins or ends, or goes on where nothing is suspended.
LEMMA GroupQuiet ==
    ASSUME SInv, GroupInv, UNCHANGED <<replicas, lastId>>, faults' = 0 => AllActive,
           \/ job'["cg"].id = 0 /\ job'["cg"].at \in {"idle", "create", "members", "update"}
           \/ job'["cg"].id = job["cg"].id /\ job'["cg"].at \in Quiet
    PROVE  GroupInv'
<1>1. job'["cg"].id <= lastId /\ \A r \in replicas : r.id = job'["cg"].id => r.entity = Group
  BY ReplicasOK DEF GroupInv
<1> QED
  BY <1>1, Zenon DEF GroupInv, AllActive, Quiet

\* The looks before a change.
LEMMA GroupLooks ==
    ASSUME SInv, GroupInv, NEW o \in Outcome, PrepareCg(o) \/ GetMembers(o) \/ GetReplicaForCG(o)
    PROVE  GroupInv'
<1>1. UNCHANGED <<replicas, lastId, members>> /\ job["cg"].at \in {"create", "members", "find"}
  BY Zenon DEF PrepareCg, GetMembers, GetReplicaForCG, At, array
<1>2. faults' = 0 => faults = 0
  BY FaultsGrow, Zenon DEF PrepareCg, GetMembers, GetReplicaForCG
<1>3. job["cg"] \in Job /\ job["cg"].id = 0 /\ (faults' = 0 => AllActive) /\ lastId \in Nat
  BY <1>1, <1>2, GroupActive, ReplicasOK, Zenon DEF GroupInv
<1>4. "cg" \in Kind /\ "abort" \in Label /\ "change" \in Label
  BY Zenon DEF Kind, Label
<1>5. CASE PrepareCg(o)
  <2>1. Return("cg") \/ job' = [job EXCEPT !["cg"].at = IF Ok(o) THEN "members" ELSE "abort", !["cg"].obj = cache[job["cg"].c]]
    BY <1>5, Zenon DEF PrepareCg
  <2>2. CASE Return("cg")
    <3>1. job'["cg"].id = 0 /\ job'["cg"].at = "idle"
      BY <1>4, <2>2, JobMoves, SMTT(60) DEF Idle
    <3> QED
      BY <1>1, <1>3, <3>1, GroupQuiet, Zenon
  <2>3. CASE job' = [job EXCEPT !["cg"].at = IF Ok(o) THEN "members" ELSE "abort", !["cg"].obj = cache[job["cg"].c]]
    <3>1. job'["cg"].id = job["cg"].id /\ job'["cg"].at \in {"members", "abort"}
      BY <1>3, <1>4, <2>3, Zenon DEF SInv, Job
    <3> QED
      BY <1>1, <1>3, <3>1, GroupQuiet, Zenon DEF Quiet
  <2> QED
    BY <2>1, <2>2, <2>3, Zenon
<1>6. CASE GetMembers(o)
  <2>1. Retry("cg") \/ \E l \in {"record", "find", "abort"} : job' = [job EXCEPT !["cg"].seen = members, !["cg"].at = l]
    BY <1>6, Zenon DEF GetMembers
  <2>2. CASE Retry("cg")
    <3>1. job'["cg"].id = 0 /\ job'["cg"].at = "idle"
      BY <1>4, <2>2, JobMoves DEF Idle
    <3> QED
      BY <1>1, <1>3, <3>1, GroupQuiet, Zenon
  <2>3. ASSUME NEW l \in {"record", "find", "abort"}, job' = [job EXCEPT !["cg"].seen = members, !["cg"].at = l]
        PROVE  GroupInv'
    <3>1. job'["cg"].id = 0 /\ job'["cg"].at = l /\ job'["cg"].seen = members
      BY <1>3, <1>4, <2>3, Zenon DEF SInv, Job
    <3>2. CASE l = "find"
      BY <1>1, <1>3, <3>1, <3>2, ReplicasOK, Zenon DEF GroupInv, AllActive
    <3>3. CASE l # "find"
      BY <1>1, <1>3, <3>1, <3>3, GroupQuiet, Zenon DEF Quiet
    <3> QED
      BY <3>2, <3>3, Zenon
  <2> QED
    BY <2>1, <2>2, <2>3, Zenon
<1>7. CASE GetReplicaForCG(o)
  <2>0. job["cg"].at = "find" /\ job["cg"].seen = members
    BY <1>7, Zenon DEF GetReplicaForCG, At, GroupInv
  <2>1. \/ Goto("cg", "abort") \/ Goto("cg", "change")
        \/ \E r \in GroupReplica : job' = [job EXCEPT !["cg"].id = r.id, !["cg"].at = Suspending]
    BY <1>7, Zenon DEF GetReplicaForCG
  <2>2. CASE Goto("cg", "abort")
    <3>1. job'["cg"].id = job["cg"].id /\ job'["cg"].at = "abort"
      BY <1>4, <2>2, JobMoves, Zenon
    <3> QED
      BY <1>1, <1>3, <3>1, GroupQuiet, Zenon DEF Quiet
  <2>3. CASE Goto("cg", "change")
    <3>1. job'["cg"].id = 0 /\ job'["cg"].at = "change" /\ job'["cg"].seen = members
      BY <1>3, <1>4, <2>0, <2>3, JobMoves, Zenon
    <3> QED
      BY <1>1, <1>3, <3>1, ReplicasOK, Zenon DEF GroupInv, AllActive
  <2>4. ASSUME NEW r \in GroupReplica, job' = [job EXCEPT !["cg"].id = r.id, !["cg"].at = Suspending]
        PROVE  GroupInv'
    <3>1. job'["cg"].id = r.id /\ job'["cg"].at = Suspending /\ job'["cg"].seen = job["cg"].seen
      BY <1>3, <1>4, <2>4, Zenon DEF SInv, Job
    <3>2. r \in replicas /\ r.entity = Group /\ r.id # 0 /\ r.id <= lastId /\ \A q \in replicas : q.id = r.id => q = r
      BY ReplicasOK, Zenon DEF GroupReplica, ReplicaOf
    <3>3. CASE job["cg"].seen # {}
      <4>1. job'["cg"].at = "suspend"
        BY <3>1, <3>3, Zenon DEF Suspending
      <4> QED
        BY <1>1, <1>3, <2>0, <3>1, <3>2, <3>3, <4>1, Zenon DEF GroupInv, AllActive
    <3>4. CASE job["cg"].seen = {}
      <4>1. job'["cg"].at = "change"
        BY <3>1, <3>4, Zenon DEF Suspending
      <4> QED
        BY <1>1, <1>3, <2>0, <3>1, <3>2, <3>4, <4>1, Zenon DEF GroupInv, AllActive
    <3> QED
      BY <3>3, <3>4, Zenon
  <2> QED
    BY <2>1, <2>2, <2>3, <2>4, Zenon
<1> QED
  BY <1>5, <1>6, <1>7, Zenon

\* The replica is suspended.
LEMMA GroupSuspends ==
    ASSUME SInv, GroupInv, NEW o \in Outcome, SuspendReplica(o) \/ PollSuspended(o)
    PROVE  GroupInv'
<1>0. "cg" \in Kind /\ "abort" \in Label /\ "change" \in Label /\ "poll" \in Label
  BY Zenon DEF Kind, Label
<1>1. CASE SuspendReplica(o)
  <2> DEFINE i == job["cg"].id
  <2>1. UNCHANGED <<lastId, members>> /\ job["cg"].at = "suspend" /\ i # 0 /\ job["cg"].seen # {} /\ job["cg"].seen = members
    BY <1>1, Zenon DEF SuspendReplica, At, GroupInv
  <2>2. faults' = 0 => faults = 0 /\ (Ok(o) \/ FindReplica(i) = {})
    BY <1>1, FaultsGrow, Zenon DEF SuspendReplica
  <2>3. faults' = 0 => AllActive
    BY <2>1, <2>2, GroupActive, Zenon
  <2>4. SetState(i, "suspending") \/ UNCHANGED replicas
    BY <1>1, Zenon DEF SuspendReplica, PostSuspend
  <2>5. \A r \in replicas' : \E q \in replicas : /\ q.id = r.id /\ q.entity = r.entity
                                                 /\ r.state = q.state \/ r.id = i
    BY <2>4, StateSame
  <2>6. CASE Goto("cg", "poll")
    <3>1. job'["cg"].id = i /\ job'["cg"].at = "poll" /\ job'["cg"].seen = members
      BY <1>0, <2>1, <2>6, JobMoves, Zenon
    <3> QED
      BY <2>1, <2>3, <2>5, <3>1 DEF GroupInv, AllActive
  <2>7. CASE Goto("cg", "abort") /\ (~Ok(o) \/ FindReplica(i) = {})
    <3>1. job'["cg"].id = i /\ job'["cg"].at = "abort"
      BY <1>0, <2>7, JobMoves, Zenon
    <3>2. faults' = 0 => FindReplica(i) = {}
      BY <2>2, <2>7, Zenon
    <3>3. faults' = 0 => \A r \in replicas' : r.state = "active"
      BY <2>3, <2>5, <3>2 DEF FindReplica, AllActive
    <3> QED
      BY <2>1, <2>5, <3>1, <3>3, SMTT(60) DEF GroupInv
  <2>8. (Goto("cg", "poll") \/ Goto("cg", "abort")) /\ (Goto("cg", "poll") \/ ~Ok(o) \/ FindReplica(i) = {})
    BY <1>1, Zenon DEF SuspendReplica
  <2> QED
    BY <2>6, <2>7, <2>8, Zenon
<1>2. CASE PollSuspended(o)
  <2>1. /\ UNCHANGED <<replicas, lastId, members>> /\ job["cg"].at = "poll" /\ job["cg"].id # 0
        /\ job["cg"].seen # {} /\ job["cg"].seen = members
    BY <1>2, Zenon DEF PollSuspended, At, array, GroupInv
  <2>2. faults' = 0 => faults = 0
    BY <1>2, FaultsGrow, Zenon DEF PollSuspended
  <2>3. CASE Goto("cg", "change") /\ (faults' = 0 => \E r \in GroupReplica : r.state = "suspended")
    <3>1. job'["cg"].id = job["cg"].id /\ job'["cg"].at = "change" /\ job'["cg"].seen = members
      BY <1>0, <2>1, <2>3, JobMoves, Zenon
    <3>2. ASSUME faults' = 0 PROVE \A r \in replicas : r.id = job["cg"].id => r.state = "suspended"
      <4>1. PICK q \in replicas : q.state = "suspended"
        BY <2>3, <3>2, Zenon DEF GroupReplica, ReplicaOf
      <4>2. q.id = job["cg"].id
        BY <2>2, <3>2, <4>1, Zenon DEF GroupInv
      <4> QED
        BY <4>1, <4>2, ReplicasOK, Zenon
    <3> QED
      BY <2>1, <2>2, <3>1, <3>2, Zenon DEF GroupInv
  <2>4. CASE Retry("cg") /\ (faults' = 0 => GroupReplica = {})
    <3>1. job'["cg"].id = 0 /\ job'["cg"].at = "idle"
      BY <1>0, <2>4, JobMoves DEF Idle
    <3>2. faults' = 0 => AllActive
      BY <2>2, <2>4, Zenon DEF GroupInv, AllActive, GroupReplica, ReplicaOf
    <3> QED
      BY <2>1, <3>1, <3>2, GroupQuiet, Zenon
  <2>5. \/ Goto("cg", "change") /\ (faults' = 0 => \E r \in GroupReplica : r.state = "suspended")
        \/ Retry("cg") /\ (faults' = 0 => GroupReplica = {})
    BY <1>2, FaultsGrow, Zenon DEF PollSuspended
  <2> QED
    BY <2>3, <2>4, <2>5, Zenon
<1> QED
  BY <1>1, <1>2, Zenon

\* The group is changed and its replica resumed.
LEMMA GroupChanges ==
    ASSUME SInv, GroupInv, NEW o \in Outcome, AddMemberToCG(o) \/ RemoveMemberFromCG(o) \/ ResumeReplica(o)
    PROVE  GroupInv'
<1> DEFINE i == job["cg"].id
<1>0. "cg" \in Kind
  BY Zenon DEF Kind
<1>1. CASE AddMemberToCG(o) \/ RemoveMemberFromCG(o)
  <2>1. UNCHANGED <<replicas, lastId>> /\ job["cg"].at = "change"
    BY <1>1, Zenon DEF AddMemberToCG, RemoveMemberFromCG, At
  <2>2. faults' = 0 => faults = 0 /\ Ok(o)
    BY <1>1, FaultsGrow, Zenon DEF AddMemberToCG, RemoveMemberFromCG
  <2>3. PICK l \in Label : /\ Goto("cg", l) /\ l \in Quiet \cup {"resume"}
                           /\ Ok(o) /\ i # 0 /\ job["cg"].seen # {} => l = "resume"
    <3>1. AfterAdd(o) \in Label \cap (Quiet \cup {"resume"}) /\ AfterRemove \in Label \cap (Quiet \cup {"resume"})
      BY Zenon DEF AfterAdd, AfterRemove, Changed, Label, Quiet
    <3>2. Ok(o) /\ i # 0 /\ job["cg"].seen # {} => AfterAdd(o) = "resume" /\ AfterRemove = "resume"
      BY Zenon DEF AfterAdd, AfterRemove
    <3>3. Goto("cg", AfterAdd(o)) \/ Goto("cg", AfterRemove)
      BY <1>1, Zenon DEF AddMemberToCG, RemoveMemberFromCG
    <3> QED
      BY <3>1, <3>2, <3>3, Zenon
  <2>4. job'["cg"].id = i /\ job'["cg"].at = l /\ job'["cg"].seen = job["cg"].seen
    BY <1>0, <2>3, JobMoves, Zenon
  <2>5. CASE l = "resume"
    BY <2>1, <2>2, <2>4, <2>5, Zenon DEF GroupInv
  <2>6. CASE l # "resume"
    <3>1. faults' = 0 => AllActive
      BY <2>2, <2>3, <2>6, ReplicasOK, Zenon DEF GroupInv, AllActive
    <3> QED
      BY <2>1, <2>3, <2>4, <2>6, <3>1, GroupQuiet, Zenon
  <2> QED
    BY <2>5, <2>6, Zenon
<1>2. CASE ResumeReplica(o)
  <2>1. lastId' = lastId /\ job["cg"].at = "resume"
    BY <1>2, Zenon DEF ResumeReplica, At
  <2>2. Goto("cg", Changed) /\ Changed \in Label /\ Changed \in Quiet
    BY <1>2, Zenon DEF ResumeReplica, Changed, Label, Quiet
  <2>3. job'["cg"].id = i /\ job'["cg"].at \in Quiet
    BY <1>0, <2>2, JobMoves, Zenon
  <2>4. SetState(i, "active") \/ UNCHANGED replicas
    BY <1>2, Zenon DEF ResumeReplica, PostResume
  <2>5. faults' = 0 => faults = 0 /\ (SetState(i, "active") \/ FindReplica(i) = {})
    <3>1. faults' = 0 => faults = 0 /\ (Ok(o) \/ FindReplica(i) = {})
      BY <1>2, FaultsGrow, Zenon DEF ResumeReplica
    <3>2. Ok(o) => Done(o)
      BY Zenon DEF Ok, Done
    <3> QED
      BY <1>2, <3>1, <3>2, Zenon DEF ResumeReplica, PostResume
  <2>6. \A r \in replicas' : \E q \in replicas : q.id = r.id /\ q.entity = r.entity
    BY <2>4, StateSame
  <2>7. ASSUME faults' = 0, NEW r \in replicas' PROVE r.state = "active"
    <3>1. CASE SetState(i, "active")
      <4>1. PICK q \in replicas : r.state = IF q.id = i THEN "active" ELSE q.state
        BY <3>1, StateSame
      <4> QED
        BY <2>5, <2>7, <4>1, Zenon DEF GroupInv
    <3>2. CASE UNCHANGED replicas /\ FindReplica(i) = {}
      BY <2>5, <2>7, <3>2, Zenon DEF GroupInv, FindReplica
    <3> QED
      BY <2>4, <2>5, <2>7, <3>1, <3>2, Zenon
  <2> QED
    BY <2>1, <2>3, <2>6, <2>7, SMTT(60) DEF GroupInv, Quiet
<1> QED
  BY <1>1, <1>2, Zenon

\* The other steps of the controller.
LEMMA GroupRest ==
    ASSUME SInv, GroupInv, NEW o \in Outcome,
           \/ \E c \in Of("cg") : CgReconcile(c, o)
           \/ CgClaims(o) \/ CgPV(o) \/ CgPVC(o) \/ RecordCg(o) \/ CompleteCg(o) \/ Abort("cg", o)
    PROVE  GroupInv'
<1>0. "cg" \in Kind /\ job["cg"] \in Job /\ "claim" \in Label /\ "record" \in Label
  BY Zenon DEF SInv, Kind, Label
<1>1. UNCHANGED <<replicas, lastId>> /\ job["cg"].at \notin {"poll", "change", "resume"}
  BY Zenon DEF CgReconcile, CgClaims, CgPV, CgPVC, RecordCg, CompleteCg, Reconcile, Abort, CreateRemotePV,
               CreateRemotePVC, Record, RecordState, At, array
<1>2. faults' = 0 => faults = 0
  BY FaultsGrow, Zenon DEF CgReconcile, CgClaims, CgPV, CgPVC, RecordCg, CompleteCg, Reconcile, Abort, CreateRemotePV,
               CreateRemotePVC, Record, RecordState
<1>3. faults' = 0 => AllActive
  BY <1>1, <1>2, GroupActive, Zenon
<1>4. ASSUME NEW c \in Of("cg"), CgReconcile(c, o)
      PROVE  GroupInv'
  <2> DEFINE next == CgBranch(cache[c])
             go == [Idle EXCEPT !.at = next, !.c = c, !.obj = cache[c]]
  <2>1. next \in {"idle", "create", "update"}
    BY Zenon DEF CgBranch
  <2>2. job["cg"].at = "idle" /\ (job' = job \/ job' = [job EXCEPT !["cg"] = IF next = "idle" THEN Idle ELSE go])
    BY <1>4, Zenon DEF CgReconcile, Reconcile, At
  <2>3. job["cg"].id = 0
    BY <2>2, Zenon DEF GroupInv
  <2>4. Idle.id = 0 /\ Idle.at = "idle"
    BY Zenon DEF Idle
  <2>5. go.id = 0 /\ go.at = next
    BY Zenon DEF Idle
  <2> HIDE DEF next, go
  <2>6. job'["cg"].id = 0 /\ job'["cg"].at \in {"idle", "create", "update"}
    BY <1>0, <2>1, <2>2, <2>3, <2>4, <2>5, Zenon DEF SInv
  <2> QED
    BY <1>1, <1>3, <2>6, GroupQuiet, Zenon
<1>5. CASE CgClaims(o) \/ CgPV(o) \/ CgPVC(o) \/ RecordCg(o) \/ CompleteCg(o) \/ Abort("cg", o)
  <2>1. \/ Return("cg") \/ Retry("cg") \/ Goto("cg", "claim") \/ Goto("cg", "record")
        \/ \E x : job' = [job EXCEPT !["cg"].at = "pv", !["cg"].rest = x]
        \/ job' = [job EXCEPT !["cg"].at = "record"]
    BY <1>5, Zenon DEF CgClaims, CgPV, CgPVC, RecordCg, CompleteCg, Abort, CreateRemotePV, CreateRemotePVC, Record, RecordState
  <2>2. \/ job'["cg"] = Idle
        \/ job'["cg"].id = job["cg"].id /\ job'["cg"].at \in {"claim", "record", "pv"}
    BY <1>0, <2>1, JobMoves DEF SInv, Job
  <2>3. Idle.id = 0 /\ Idle.at = "idle"
    BY Zenon DEF Idle
  <2> QED
    BY <1>1, <1>3, <2>2, <2>3, GroupQuiet, Zenon DEF Quiet
<1> QED
  BY <1>4, <1>5, Zenon

\* The users, the informers, the restarts and the array itself.
LEMMA GroupOther ==
    ASSUME SInv, GroupInv, Environment \/ Progress
    PROVE  GroupInv'
<1>1. CASE (\E c \in CR : UserCreate(c) \/ UserDelete(c) \/ Deliver(c)) \/ (\E k \in Kind : Resync(k)) \/ LinkUp \/ LinkDown
  <2>1. UNCHANGED <<job, replicas, lastId, members>>
    BY <1>1, Zenon DEF UserCreate, UserDelete, Deliver, Resync, LinkUp, LinkDown, array
  <2>2. faults' = 0 => faults = 0
    BY <1>1, FaultsGrow, Zenon DEF UserCreate, UserDelete, Deliver, Resync, LinkUp, LinkDown
  <2> QED
    BY <2>1, <2>2, GroupKept, Zenon
<1>2. ASSUME NEW k \in Kind, Crash(k)
      PROVE  GroupInv'
  <2>1. UNCHANGED <<replicas, lastId, members>> /\ faults' # 0 /\ job' = [job EXCEPT ![k] = Idle]
    BY <1>2, FaultsGrow, Zenon DEF Crash, array
  <2>2. job'["cg"] = job["cg"] \/ job'["cg"] = Idle
    BY <2>1, Zenon DEF SInv, Kind
  <2>3. CASE job'["cg"] = job["cg"]
    BY <2>1, <2>3, GroupKept, Zenon
  <2>4. CASE job'["cg"] = Idle
    <3>1. job'["cg"].id = 0 /\ job'["cg"].at = "idle"
      BY <2>4 DEF Idle
    <3> QED
      BY <2>1, <3>1, GroupQuiet, Zenon
  <2> QED
    BY <2>2, <2>3, <2>4, Zenon
<1>3. ASSUME NEW p \in replicas, Suspended(p)
      PROVE  GroupInv'
  <2>1. UNCHANGED <<job, lastId, members, faults>> /\ SetState(p.id, "suspended") /\ p.state # "active"
    BY <1>3, Zenon DEF Suspended
  <2>2. ASSUME NEW r \in replicas'
        PROVE  \E q \in replicas : /\ q.id = r.id /\ q.entity = r.entity
                                   /\ r.state # "active" => q.state # "active"
                                   /\ q.state = "suspended" => r.state = "suspended"
    <3>1. PICK q \in replicas : q.id = r.id /\ q.entity = r.entity /\ r.state = IF q.id = p.id THEN "suspended" ELSE q.state
      BY <2>1, <2>2, StateSame
    <3>2. q.id = p.id => q = p
      BY ReplicasOK, Zenon
    <3> QED
      BY <2>1, <3>1, <3>2, Zenon
  <2> QED
    BY <2>1, <2>2, SMTT(60) DEF GroupInv
<1> QED
  BY <1>1, <1>2, <1>3, Zenon DEF Environment, Progress

\* Every step keeps the invariant.
LEMMA NextGroup == SInv /\ GroupInv /\ [Next]_vars => GroupInv'
<1> SUFFICES ASSUME SInv, GroupInv, [Next]_vars
             PROVE  GroupInv'
  BY Zenon
<1>1. CASE UNCHANGED vars
  <2>1. UNCHANGED <<job, replicas, lastId, members, faults>>
    BY <1>1, Zenon DEF vars, array
  <2> QED
    BY <2>1, GroupKept, Zenon
<1>2. CASE ReplicaStep
  <2>1. job'["cg"] = job["cg"]
    BY <1>2, ReplicaOwn, Zenon DEF Own, Kind
  <2> QED
    BY <1>2, <2>1, ReplicaOwn, GroupKept, Zenon DEF Own
<1>3. CASE PromoteStep
  <2>1. job'["cg"] = job["cg"]
    BY <1>3, PromoteOwn, Zenon DEF Own, Kind
  <2> QED
    BY <1>3, <2>1, PromoteOwn, GroupKept, Zenon DEF Own
<1>4. CASE CgStep
  <2>1. ReadOutcome \subseteq Outcome
    BY Zenon DEF ReadOutcome, Outcome
  <2> QED
    BY <1>4, <2>1, GroupLooks, GroupSuspends, GroupChanges, GroupRest, Zenon DEF CgStep
<1> QED
  BY <1>1, <1>2, <1>3, <1>4, GroupOther, Zenon DEF Next

\* At the start the worker is idle and the replica active.
LEMMA InitGroup == Init => GroupInv
<1> SUFFICES ASSUME Init
             PROVE  GroupInv
  BY Zenon
<1>1. SInv
  BY InitSInv, Zenon
<1>2. job["cg"].id = 0 /\ job["cg"].at = "idle"
  BY Zenon DEF Init, Idle, Kind
<1>3. \A r \in replicas : r.state = "active"
  BY SMTT(60) DEF Init, ReadyReplica
<1> QED
  BY <1>1, <1>2, <1>3, ReplicasOK, SMTT(60) DEF GroupInv

\* As long as no call of a controller failed and no controller restarted, a
\* replica that is not active is the one the iboxcg worker has suspended and
\* is going to resume: no reconcile ends and leaves it suspended, whichever
\* resources come, go and are reconciled in the meantime.
THEOREM Resumed == Spec => []ResumedAfterChange
<1>1. Init => SInv /\ GroupInv
  BY InitSInv, InitGroup, Zenon
<1>2. SInv /\ GroupInv /\ [Next]_vars => (SInv /\ GroupInv)'
  BY NextSInv, NextGroup, Zenon
<1>3. GroupInv => ResumedAfterChange
  BY Zenon DEF GroupInv, ResumedAfterChange
<1> QED
  BY <1>1, <1>2, <1>3, PTL DEF Spec

\* Only the iboxcg worker changes the group, at its change.
LEMMA MembersChange ==
    ASSUME SInv, Next, members' # members
    PROVE  job["cg"].at = "change"
<1>1. ~(Environment \/ Progress)
  BY Zenon DEF Environment, Progress, UserCreate, UserDelete, Deliver, Resync, Crash, LinkUp, LinkDown, Suspended, array
<1>2. ~ReplicaStep /\ ~PromoteStep
  BY ReplicaOwn, PromoteOwn, Zenon
<1>3. CgStep
  BY <1>1, <1>2, Zenon DEF Next
<1> QED
  BY <1>3, Zenon DEF CgStep, CgReconcile, PrepareCg, GetMembers, GetReplicaForCG, SuspendReplica, PollSuspended,
               ResumeReplica, AddMemberToCG, RemoveMemberFromCG, CgClaims, CgPV, CgPVC, RecordCg, CompleteCg, Abort,
               Reconcile, Record, RecordState, CreateRemotePV, CreateRemotePVC, array, At

\* As long as nothing failed, a step that changes the members of a group that
\* has some, and has a replica the worker found, is taken while that replica
\* is suspended or has been deleted: the worker saw it suspended, and nobody
\* resumes it before the change.
THEOREM ChangedSuspended == Spec => ChangedWhileSuspended
<1> DEFINE A == members' # members /\ job["cg"].id # 0 /\ members # {} /\ faults = 0
                  => \A r \in replicas : r.id = job["cg"].id => r.state = "suspended"
<1>1. Init => SInv /\ GroupInv
  BY InitSInv, InitGroup, Zenon
<1>2. SInv /\ GroupInv /\ [Next]_vars => (SInv /\ GroupInv)'
  BY NextSInv, NextGroup, Zenon
<1>3. SInv /\ GroupInv /\ [Next]_vars => [A]_vars
  <2> SUFFICES ASSUME SInv, GroupInv, Next, members' # members, job["cg"].id # 0, members # {}, faults = 0
               PROVE  \A r \in replicas : r.id = job["cg"].id => r.state = "suspended"
    BY Zenon
  <2>1. job["cg"].at = "change"
    BY MembersChange, Zenon
  <2> QED
    BY <2>1, Zenon DEF GroupInv
<1> HIDE DEF A
<1>4. Spec => [][A]_vars
  BY <1>1, <1>2, <1>3, PTL DEF Spec
<1> QED
  BY <1>4, Zenon DEF A, ChangedWhileSuspended

----------------------------------------------------------------------------
(* The replica of a deleted resource.  handleFinalizer removes the          *)
(* finalizer before deleteReplica is called, so the ID must be in the copy  *)
(* that was read: the invariant follows the versions of the resource, its   *)
(* finalizer and who knows the ID of each replica.                          *)

\* The finalizer is set.
Held(c) == Exists(cr[c]) /\ cr[c].fin

\* Versions are delivered in order.
InOrder ==
    \A c \in Of("replica") :
        /\ \A i \in 1..Len(news[c]) : cache[c].rv < news[c][i].rv
        /\ \A i, j \in 1..Len(news[c]) : i < j => news[c][i].rv < news[c][j].rv

\* The finalizer stays until the resource is gone; then no version is left
\* that shows the resource live and with its finalizer.
Finalizing ==
    \A c \in Of("replica") : \A x \in Versions(c) :
        /\ x.fin => cr[c].fin \/ cr[c].phase = "gone"
        /\ cr[c].phase = "gone" /\ x.phase = "live" => ~x.fin
        /\ x.phase = "none" => ~x.fin

Creating == {"create", "pool", "list", "post", "record"}

\* Each replica was made for an Iboxreplica of its entity.
Owners == \A r \in replicas : r.owner \in Of("replica") /\ r.entity = CRSpec[r.owner].entity

\* Its ID is in the resource's status, about to be recorded or about to be
\* used to delete it.
Owned ==
    faults = 0 =>
        /\ job["replica"].at \in Creating => Held(job["replica"].c) /\ job["replica"].pool
        /\ job["replica"].at \in Creating \cup {"abort"} =>
              /\ job["replica"].obj.id = 0 /\ job["replica"].obj.rv <= cr[job["replica"].c].rv
              /\ job["replica"].obj.rv = cr[job["replica"].c].rv => cr[job["replica"].c].id = 0
        /\ \A r \in replicas :
              \/ Held(r.owner) /\ cr[r.owner].id = r.id
              \/ job["replica"].at = "record" /\ job["replica"].c = r.owner /\ job["replica"].id = r.id
              \/ job["replica"].at = "delete" /\ job["replica"].c = r.owner /\ job["replica"].obj.id = r.id

\* What may happen to the versions of a resource: nothing; one is written;
\* one is delivered; they are listed anew.
History(c) ==
    \/ cr'[c] = cr[c] /\ cache'[c] = cache[c] /\ news'[c] = news[c]
    \/ /\ cr[c].phase # "gone" /\ cr'[c].rv = cr[c].rv + 1 /\ cr'[c].phase # "none"
       /\ news'[c] = Append(news[c], cr'[c]) /\ cache'[c] = cache[c]
       /\ cr[c].fin => cr'[c].fin \/ cr'[c].phase = "gone"
       /\ cr'[c].phase = "gone" => \A x \in Versions(c) : x.phase = "live" => ~x.fin
    \/ cr'[c] = cr[c] /\ news[c] # <<>> /\ cache'[c] = Head(news[c]) /\ news'[c] = Tail(news[c])
    \/ cr'[c] = cr[c] /\ cache'[c] = cr[c] /\ news'[c] = <<>>

\* A sequence with one more element.
LEMMA Appended ==
    ASSUME NEW S, NEW s \in Seq(S), NEW e \in S
    PROVE  /\ Len(Append(s, e)) = Len(s) + 1 /\ Len(s) \in Nat
           /\ Append(s, e)[Len(s) + 1] = e /\ \A i \in 1..Len(s) : Append(s, e)[i] = s[i]
  OBVIOUS

\* ... and a sequence without its first element.
LEMMA Delivered ==
    ASSUME NEW S, NEW s \in Seq(S), s # <<>>
    PROVE  /\ Head(s) = s[1] /\ 1 \in 1..Len(s) /\ Len(Tail(s)) = Len(s) - 1 /\ Len(s) \in Nat
           /\ \A i \in 1..Len(Tail(s)) : i + 1 \in 1..Len(s) /\ Tail(s)[i] = s[i + 1]
  OBVIOUS

\* All of it keeps the order and the finalizer.
LEMMA HistoryKept ==
    ASSUME SInv, ApiOK', InOrder, Finalizing, \A c \in Of("replica") : History(c)
    PROVE  InOrder' /\ Finalizing'
<1> SUFFICES ASSUME NEW c \in Of("replica")
             PROVE  /\ \A i \in 1..Len(news'[c]) : cache'[c].rv < news'[c][i].rv
                    /\ \A i, j \in 1..Len(news'[c]) : i < j => news'[c][i].rv < news'[c][j].rv
                    /\ \A x \in Versions(c)' : /\ x.fin => cr'[c].fin \/ cr'[c].phase = "gone"
                                               /\ cr'[c].phase = "gone" /\ x.phase = "live" => ~x.fin
                                               /\ x.phase = "none" => ~x.fin
  BY Zenon DEF InOrder, Finalizing, Of
<1>0. /\ c \in CR /\ cr[c] \in Version /\ cache[c] \in Version /\ news[c] \in Seq(Version)
      /\ cr'[c] \in Version /\ cache'[c] \in Version /\ news'[c] \in Seq(Version)
  BY Zenon DEF SInv, ApiOK, Of
<1>1. /\ \A i \in 1..Len(news[c]) : cache[c].rv < news[c][i].rv
      /\ \A i, j \in 1..Len(news[c]) : i < j => news[c][i].rv < news[c][j].rv
      /\ \A x \in Versions(c) : /\ x.fin => cr[c].fin \/ cr[c].phase = "gone"
                                /\ cr[c].phase = "gone" /\ x.phase = "live" => ~x.fin
                                /\ x.phase = "none" => ~x.fin
  BY Zenon DEF InOrder, Finalizing
<1>2. CASE cr'[c] = cr[c] /\ cache'[c] = cache[c] /\ news'[c] = news[c]
  <2>1. Versions(c)' = Versions(c)
    BY <1>2, Zenon DEF Versions
  <2> QED
    BY <1>1, <1>2, <2>1, Zenon
<1>3. CASE /\ cr[c].phase # "gone" /\ cr'[c].rv = cr[c].rv + 1 /\ cr'[c].phase # "none"
           /\ news'[c] = Append(news[c], cr'[c]) /\ cache'[c] = cache[c]
           /\ cr[c].fin => cr'[c].fin \/ cr'[c].phase = "gone"
           /\ cr'[c].phase = "gone" => \A x \in Versions(c) : x.phase = "live" => ~x.fin
  <2>1. \A x \in Versions(c) : x.rv \in Nat /\ x.rv <= cr[c].rv
    <3>1. Versions(c) \subseteq Version
      BY <1>0, VersionsOK, Zenon
    <3>2. \A x \in Version : x.rv \in Nat
      BY Zenon DEF Version
    <3>3. \A x \in Versions(c) : x.rv <= cr[c].rv
      BY <1>0, Zenon DEF SInv, Known
    <3> QED
      BY <3>1, <3>2, <3>3, Zenon
  <2>a. LET s == Append(news[c], cr'[c])
        IN  /\ Len(s) = Len(news[c]) + 1 /\ Len(news[c]) \in Nat
            /\ s[Len(news[c]) + 1] = cr'[c] /\ \A i \in 1..Len(news[c]) : s[i] = news[c][i]
    <3>1. news[c] \in Seq(Version) /\ cr'[c] \in Version
      BY <1>0, Zenon
    <3> QED
      BY <3>1, SMTT(30)
  <2>2. Len(news'[c]) = Len(news[c]) + 1 /\ Len(news[c]) \in Nat
    BY <1>3, <2>a, Zenon
  <2>3. news'[c][Len(news[c]) + 1] = cr'[c] /\ \A i \in 1..Len(news[c]) : news'[c][i] = news[c][i]
    BY <1>3, <2>a, Zenon
  <2>4. /\ cache[c].rv < cr'[c].rv /\ \A i \in 1..Len(news[c]) : news[c][i].rv < cr'[c].rv
    <3>1. cache[c] \in Versions(c) /\ \A i \in 1..Len(news[c]) : news[c][i] \in Versions(c)
      BY Zenon DEF Versions
    <3>2. cr[c].rv \in Nat
      BY <1>0, Zenon DEF Version
    <3>3. \A x \in Versions(c) : x.rv < cr'[c].rv
      BY <1>3, <2>1, <3>2
    <3> QED
      BY <3>1, <3>3, Zenon
  <2>5. \A i \in 1..Len(news'[c]) : i \in 1..Len(news[c]) \/ i = Len(news[c]) + 1
    BY <2>2
  <2>6. \A i \in 1..Len(news'[c]) : cache'[c].rv < news'[c][i].rv
    BY <1>1, <1>3, <2>3, <2>4, <2>5, Zenon
  <2>7. ASSUME NEW i \in 1..Len(news'[c]), NEW j \in 1..Len(news'[c]), i < j
        PROVE  news'[c][i].rv < news'[c][j].rv
    <3>1. CASE j = Len(news[c]) + 1
      <4>1. i \in 1..Len(news[c])
        BY <2>2, <2>7, <3>1
      <4> QED
        BY <2>3, <2>4, <3>1, <4>1, Zenon
    <3>2. CASE j \in 1..Len(news[c])
      <4>1. i \in 1..Len(news[c])
        BY <2>2, <2>7, <3>2
      <4> QED
        BY <1>1, <2>3, <2>7, <3>2, <4>1, Zenon
    <3> QED
      BY <2>5, <3>1, <3>2, Zenon
  <2>8. Versions(c)' \subseteq Versions(c) \cup {cr'[c]}
    BY <1>3, <2>3, <2>5, Zenon DEF Versions
  <2>9. ASSUME NEW x \in Versions(c)'
        PROVE  /\ x.fin => cr'[c].fin \/ cr'[c].phase = "gone"
               /\ cr'[c].phase = "gone" /\ x.phase = "live" => ~x.fin
               /\ x.phase = "none" => ~x.fin
    <3>1. x \in Versions(c) \/ x = cr'[c]
      BY <2>8, <2>9, Zenon
    <3> QED
      BY <1>1, <1>3, <3>1, Zenon
  <2> QED
    BY <2>6, <2>7, <2>9, Zenon
<1>4. CASE cr'[c] = cr[c] /\ news[c] # <<>> /\ cache'[c] = Head(news[c]) /\ news'[c] = Tail(news[c])
  <2>1. /\ cache'[c] = news[c][1] /\ 1 \in 1..Len(news[c]) /\ Len(news'[c]) = Len(news[c]) - 1 /\ Len(news[c]) \in Nat
        /\ \A i \in 1..Len(news'[c]) : i + 1 \in 1..Len(news[c]) /\ news'[c][i] = news[c][i + 1]
    BY <1>0, <1>4, Delivered, Zenon
  <2>2. Versions(c)' \subseteq Versions(c)
    <3>1. cache'[c] \in Versions(c) /\ \A i \in 1..Len(news'[c]) : news'[c][i] \in Versions(c)
      BY <2>1, Zenon DEF Versions
    <3> QED
      BY <1>4, <3>1, Zenon DEF Versions
  <2>n. \A i, j \in 1..Len(news'[c]) : 1 < i + 1 /\ (i < j => i + 1 < j + 1)
    BY <2>1
  <2>3. \A i \in 1..Len(news'[c]) : cache'[c].rv < news'[c][i].rv
    BY <1>1, <2>1, <2>n, Zenon
  <2>4. \A i, j \in 1..Len(news'[c]) : i < j => news'[c][i].rv < news'[c][j].rv
    BY <1>1, <2>1, <2>n, Zenon
  <2> QED
    BY <1>1, <1>4, <2>2, <2>3, <2>4, Zenon
<1>5. CASE cr'[c] = cr[c] /\ cache'[c] = cr[c] /\ news'[c] = <<>>
  <2>1. Versions(c)' \subseteq Versions(c) /\ Len(news'[c]) = 0
    BY <1>5 DEF Versions
  <2>2. 1..Len(news'[c]) = {}
    BY <2>1
  <2> QED
    BY <1>1, <1>5, <2>1, <2>2, Zenon
<1> QED
  BY <1>2, <1>3, <1>4, <1>5, Zenon DEF History

\* A write changes one resource, if at all.
Writes(c) ==
    /\ \A d \in CR \ {c} : cr'[d] = cr[d] /\ news'[d] = news[d]
    /\ \/ cr'[c] = cr[c] /\ news'[c] = news[c]
       \/ cr'[c].rv = cr[c].rv + 1 /\ news'[c] = Append(news[c], cr'[c])

\* The stored version has what was to be stored.
LEMMA StoreFields ==
    ASSUME SInv, NEW c \in CR, NEW obj \in Version, Store(c, obj)
    PROVE  Writes(c) /\ cr'[c].phase = obj.phase /\ cr'[c].fin = obj.fin /\ cr'[c].id = obj.id
<1>0. cr \in [CR -> Version] /\ news \in [CR -> Seq(Version)]
  BY Zenon DEF SInv, ApiOK
<1> DEFINE same == [obj EXCEPT !.rv = cr[c].rv]
           new == [obj EXCEPT !.rv = cr[c].rv + 1]
<1>1. same.phase = obj.phase /\ same.fin = obj.fin /\ same.id = obj.id
  BY Zenon DEF Version
<1>2. new.phase = obj.phase /\ new.fin = obj.fin /\ new.id = obj.id /\ new.rv = cr[c].rv + 1
  BY Zenon DEF Version
<1>3. \/ same = cr[c] /\ cr' = cr /\ news' = news
      \/ cr' = [cr EXCEPT ![c] = new] /\ news' = [news EXCEPT ![c] = Append(@, new)]
  BY Zenon DEF Store, api
<1> HIDE DEF same, new
<1>4. CASE same = cr[c] /\ cr' = cr /\ news' = news
  BY <1>1, <1>4, Zenon DEF Writes
<1>5. CASE cr' = [cr EXCEPT ![c] = new] /\ news' = [news EXCEPT ![c] = Append(@, new)]
  <2>1. cr'[c] = new /\ news'[c] = Append(news[c], new) /\ \A d \in CR \ {c} : cr'[d] = cr[d] /\ news'[d] = news[d]
    BY <1>0, <1>5, Zenon
  <2> QED
    BY <1>2, <2>1, Zenon DEF Writes
<1> QED
  BY <1>3, <1>4, <1>5, Zenon

\* A status is written.
LEMMA StatusHistory ==
    ASSUME SInv, NEW c \in CR, NEW i \in Nat, NEW s \in State, Exists(cr[c]), Store(c, WithStatus(c, i, s)), cache' = cache
    PROVE  /\ Writes(c) /\ cr'[c].phase = cr[c].phase /\ cr'[c].fin = cr[c].fin /\ cr'[c].id = i
           /\ \A d \in CR : History(d)
<1> DEFINE obj == WithStatus(c, i, s)
<1>1. obj \in Version /\ obj.phase = cr[c].phase /\ obj.fin = cr[c].fin /\ obj.id = i
  BY Zenon DEF SInv, ApiOK, Version, WithStatus
<1> HIDE DEF obj
<1>2. Store(c, obj)
  BY Zenon DEF obj
<1>3. Writes(c) /\ cr'[c].phase = cr[c].phase /\ cr'[c].fin = cr[c].fin /\ cr'[c].id = i
  BY <1>1, <1>2, StoreFields, Zenon
<1>4. \A d \in CR : History(d)
  BY <1>3, Zenon DEF Writes, History, Exists
<1> QED
  BY <1>3, <1>4, Zenon

\* handleFinalizer writes: when it removes the finalizer, the copy it has is
\* the last one there is.
LEMMA FinalHistory ==
    ASSUME SInv, InOrder, NEW c \in Of("replica"), Exists(cr[c]), cache[c] = cr[c], Store(c, Finalized(c)), cache' = cache
    PROVE  /\ Writes(c) /\ cr'[c].id = cr[c].id /\ \A d \in CR : History(d)
           /\ IF cr[c].phase = "deleting" THEN cr'[c].phase = "gone" ELSE cr'[c].phase = "live" /\ cr'[c].fin
<1> DEFINE obj == Finalized(c)
<1>0. c \in CR /\ cr[c] \in Version
  BY Zenon DEF SInv, ApiOK, Of
<1>1. /\ obj \in Version /\ obj.id = cr[c].id
      /\ IF cr[c].phase = "deleting" THEN obj.phase = "gone" ELSE obj.fin /\ obj.phase = cr[c].phase
  BY <1>0, Zenon DEF Version, Finalized
<1> HIDE DEF obj
<1>2. Store(c, obj)
  BY Zenon DEF obj
<1>3. /\ Writes(c) /\ cr'[c].phase = obj.phase /\ cr'[c].fin = obj.fin /\ cr'[c].id = obj.id
  BY <1>0, <1>1, <1>2, StoreFields, Zenon
<1>4. \A x \in Versions(c) : x = cr[c]
  <2>1. ASSUME NEW i \in 1..Len(news[c]) PROVE FALSE
    <3>1. news[c][i] \in Versions(c)
      BY Zenon DEF Versions
    <3>2. news[c][i].rv <= cr[c].rv /\ news[c][i].rv \in Nat /\ cr[c].rv \in Nat /\ cr[c].rv < news[c][i].rv
      BY <1>0, <3>1, VersionsOK, Zenon DEF SInv, Known, Version, InOrder
    <3> QED
      BY <3>2, SMTT(60)
  <2> QED
    BY <2>1, Zenon DEF Versions
<1>5. History(c)
  <2>1. cr[c].fin => cr'[c].fin \/ cr'[c].phase = "gone"
    BY <1>1, <1>3, Zenon
  <2>2. cr'[c].phase = "gone" => cr[c].phase # "live"
    BY <1>1, <1>3, Zenon
  <2>3. cr'[c].phase # "none"
    BY <1>1, <1>3, Zenon DEF Exists
  <2> QED
    BY <1>3, <1>4, <2>1, <2>2, <2>3, Zenon DEF Writes, History, Exists
<1>6. \A d \in CR \ {c} : History(d)
  BY <1>3, Zenon DEF Writes, History
<1> QED
  BY <1>1, <1>3, <1>5, <1>6, Zenon DEF Exists

\* The steps of the other two controllers.
LEMMA OthersHistory ==
    ASSUME SInv, NEW k \in Kind \ {"replica"}, Own(k)
    PROVE  /\ \A c \in Of("replica") : History(c) /\ cr'[c] = cr[c]
           /\ job'["replica"] = job["replica"]
  BY Zenon DEF Own, Of, History, Kind

\* No status of an Iboxreplica loses its ID, no finalizer is taken away.
CrKept ==
    \A c \in Of("replica") :
        \/ cr'[c] = cr[c]
        \/ cr'[c].rv = cr[c].rv + 1 /\ (Held(c) => Held(c)' /\ cr'[c].id = cr[c].id)

\* The worker is not moved.
LEMMA OwnedKept ==
    ASSUME SInv, Owners, Owned, faults' = 0 => faults = 0 /\ CrKept, job'["replica"] = job["replica"],
           \A r \in replicas' : \E q \in replicas : q.id = r.id /\ q.entity = r.entity /\ q.owner = r.owner
    PROVE  Owners' /\ Owned'
<1>1. Owners'
  BY Zenon DEF Owners
<1>2. ASSUME faults' = 0
      PROVE  Owned'
  <2>1. faults = 0 /\ CrKept
    BY <1>2, Zenon
  <2> DEFINE j == job["replica"]
  <2>2. j.at # "idle" => j.c \in Of("replica") /\ j.c \in CR /\ j.obj.rv \in Nat /\ cr[j.c].rv \in Nat
    BY JobResource, Zenon DEF Kind, Job, Version
  <2>3. ASSUME j.at \in Creating PROVE Held(j.c)' /\ j.pool
    <3>1. j.c \in Of("replica") /\ Held(j.c) /\ j.pool
      BY <2>1, <2>2, <2>3, Zenon DEF Owned, Creating
    <3> QED
      BY <2>1, <3>1, Zenon DEF CrKept, Held
  <2>4. ASSUME j.at \in Creating \cup {"abort"}
        PROVE  j.obj.id = 0 /\ j.obj.rv <= cr'[j.c].rv /\ (j.obj.rv = cr'[j.c].rv => cr'[j.c].id = 0)
    <3>1. /\ j.c \in Of("replica") /\ j.obj.id = 0 /\ j.obj.rv <= cr[j.c].rv /\ (j.obj.rv = cr[j.c].rv => cr[j.c].id = 0)
          /\ j.obj.rv \in Nat /\ cr[j.c].rv \in Nat
      BY <2>1, <2>2, <2>4, Zenon DEF Owned, Creating
    <3> QED
      <4>1. CASE cr'[j.c] = cr[j.c]
        BY <3>1, <4>1, Zenon
      <4>2. CASE cr'[j.c].rv = cr[j.c].rv + 1
        <5>1. j.obj.rv <= cr'[j.c].rv /\ j.obj.rv # cr'[j.c].rv
          BY <3>1, <4>2
        <5> QED
          BY <3>1, <5>1, Zenon
      <4> QED
        BY <2>1, <3>1, <4>1, <4>2, Zenon DEF CrKept
  <2>5. ASSUME NEW r \in replicas'
        PROVE  \/ Held(r.owner)' /\ cr'[r.owner].id = r.id
               \/ j.at = "record" /\ j.c = r.owner /\ j.id = r.id
               \/ j.at = "delete" /\ j.c = r.owner /\ j.obj.id = r.id
    <3>1. PICK q \in replicas : q.id = r.id /\ q.owner = r.owner
      BY <2>5, Zenon
    <3>2. q.owner \in Of("replica")
      BY <3>1, Zenon DEF Owners
    <3>3. CASE Held(q.owner) /\ cr[q.owner].id = q.id
      BY <2>1, <3>1, <3>2, <3>3, Zenon DEF CrKept, Held
    <3> QED
      BY <2>1, <3>1, <3>3, Zenon DEF Owned
  <2> QED
    <3>1. (j.at \in Creating => Held(j.c) /\ j.pool)'
      BY <2>3, Zenon
    <3>2. (j.at \in Creating \cup {"abort"} =>
              j.obj.id = 0 /\ j.obj.rv <= cr[j.c].rv /\ (j.obj.rv = cr[j.c].rv => cr[j.c].id = 0))'
      BY <2>4, Zenon
    <3>3. (\A r \in replicas : \/ Held(r.owner) /\ cr[r.owner].id = r.id
                               \/ j.at = "record" /\ j.c = r.owner /\ j.id = r.id
                               \/ j.at = "delete" /\ j.c = r.owner /\ j.obj.id = r.id)'
      BY <2>5, Zenon
    <3> QED
      BY <3>1, <3>2, <3>3, Zenon DEF Owned
<1> QED
  BY <1>1, <1>2, Zenon DEF Owned

\* The worker goes where it needs to know nothing.
LEMMA OwnedFree ==
    ASSUME SInv, Owners, Owned, faults' = 0 => faults = 0 /\ CrKept, replicas' = replicas,
           job["replica"].at \notin {"record", "delete"}, job'["replica"].at \notin Creating \cup {"abort", "delete"}
    PROVE  Owners' /\ Owned'
<1>1. Owners'
  BY Zenon DEF Owners
<1>2. ASSUME faults' = 0, NEW r \in replicas
      PROVE  Held(r.owner)' /\ cr'[r.owner].id = r.id
  <2>1. Held(r.owner) /\ cr[r.owner].id = r.id /\ r.owner \in Of("replica") /\ CrKept
    BY <1>2, Zenon DEF Owned, Owners
  <2> QED
    BY <2>1, Zenon DEF CrKept, Held
<1> QED
  BY <1>1, <1>2, Zenon DEF Owned, Held

\* It goes on to create a replica, or to give up.
LEMMA OwnedOn ==
    ASSUME SInv, Owners, Owned,
           faults' = 0 => /\ faults = 0 /\ cr' = cr
                          /\ job'["replica"].pool = job["replica"].pool /\ job'["replica"].obj = job["replica"].obj,
           replicas' = replicas, job["replica"].at \in Creating \ {"record"},
           job'["replica"].at \in (Creating \ {"record"}) \cup {"abort"}, job'["replica"].c = job["replica"].c
    PROVE  Owners' /\ Owned'
<1>1. Owners'
  BY Zenon DEF Owners
<1>2. job["replica"].at \notin {"record", "delete"} /\ job'["replica"].at \notin {"record", "delete"}
  BY Zenon DEF Creating
<1> QED
  BY <1>1, <1>2, Zenon DEF Owned, Held

OInv == OneReplicaPerEntity /\ InOrder /\ Finalizing /\ Owners /\ Owned
Follows == (\A c \in Of("replica") : History(c)) /\ Owners' /\ Owned'

\* Nothing is written.
LEMMA NoHistory ==
    ASSUME UNCHANGED <<cr, news, cache>>
    PROVE  CrKept /\ \A c \in Of("replica") : History(c)
  BY Zenon DEF CrKept, History

\* The steps before a replica is asked for.
LEMMA AsksOwned ==
    ASSUME SInv, OInv, NEW o \in Outcome, PrepareReplica(o) \/ LookupPool(o) \/ GetReplicas(o)
    PROVE  Follows
<1>0. "replica" \in Kind /\ "pool" \in Label /\ "abort" \in Label /\ "post" \in Label /\ "pvc" \in Label
  BY Zenon DEF Kind, Label
<1>1. CASE PrepareReplica(o) \/ GetReplicas(o)
  <2>1. UNCHANGED <<cr, news, cache, replicas>> /\ job["replica"].at \in Creating \ {"record"}
    BY <1>1, Zenon DEF PrepareReplica, GetReplicas, At, api, array, Creating
  <2>2. faults' = 0 => faults = 0
    BY <1>1, FaultsGrow, Zenon DEF PrepareReplica, GetReplicas
  <2>3. \/ Goto("replica", "pool") \/ Goto("replica", "abort") \/ Goto("replica", "post") \/ Goto("replica", "pvc")
        \/ Return("replica")
    BY <1>1, Zenon DEF PrepareReplica, GetReplicas
  <2>4. \/ /\ job'["replica"].at \in {"pool", "post", "abort"} /\ job'["replica"].c = job["replica"].c
           /\ job'["replica"].obj = job["replica"].obj /\ job'["replica"].pool = job["replica"].pool
        \/ job'["replica"].at \in {"idle", "pvc"}
    BY <1>0, <2>3, JobMoves, Zenon
  <2>5. CASE /\ job'["replica"].at \in {"pool", "post", "abort"} /\ job'["replica"].c = job["replica"].c
             /\ job'["replica"].obj = job["replica"].obj /\ job'["replica"].pool = job["replica"].pool
    BY <2>1, <2>2, <2>5, OwnedOn, NoHistory, Zenon DEF Creating, OInv, Follows
  <2>6. CASE job'["replica"].at \in {"idle", "pvc"}
    BY <2>1, <2>2, <2>6, OwnedFree, NoHistory, Zenon DEF Creating, OInv, Follows
  <2> QED
    BY <2>4, <2>5, <2>6, Zenon
<1>2. CASE LookupPool(o)
  <2> DEFINE c == job["replica"].c
             new == WithStatus(c, 0, "error")
             write == ~Ok(o) /\ Current(c, job["replica"].obj)
             obj == IF write THEN Stored(c, new) ELSE job["replica"].obj
             j == [job["replica"] EXCEPT !.at = "list", !.pool = Ok(o), !.obj = obj]
  <2>1. UNCHANGED <<cache, replicas>> /\ job["replica"].at = "pool"
    BY <1>2, Zenon DEF LookupPool, At, array
  <2>2. c \in CR /\ job["replica"] \in Job
    BY <1>0, <2>1, JobResource, Zenon
  <2>3. faults' = 0 => faults = 0 /\ Ok(o)
    BY <1>2, FaultsGrow, Zenon DEF LookupPool
  <2>4. UNCHANGED <<cr, news>> \/ (~Ok(o) /\ Exists(cr[c]) /\ Store(c, new))
    BY <1>2, Zenon DEF LookupPool, Current, api
  <2>5. \A d \in CR : History(d)
    <3> HIDE DEF c
    <3>1. 0 \in Nat /\ "error" \in State
      BY Zenon DEF State
    <3>2. CASE UNCHANGED <<cr, news>>
      BY <2>1, <3>2, Zenon DEF History
    <3>3. CASE Exists(cr[c]) /\ Store(c, new)
      BY <2>1, <2>2, <3>1, <3>3, StatusHistory, Zenon
    <3> QED
      BY <2>4, <3>2, <3>3, Zenon
  <2>6. job' = [job EXCEPT !["replica"] = j]
    BY <1>2, <2>2, Zenon DEF LookupPool, SInv
  <2>7. Ok(o) => obj = job["replica"].obj
    BY Zenon
  <2> HIDE DEF obj, c
  <2>8. j.at = "list" /\ j.c = job["replica"].c /\ j.pool = Ok(o) /\ j.obj = obj
    BY <2>2, Zenon DEF Job
  <2> HIDE DEF j
  <2>9. job'["replica"] = j
    BY <1>0, <2>6, Zenon DEF SInv
  <2>10. faults' = 0 => cr' = cr /\ job["replica"].pool = TRUE
    BY <2>1, <2>3, <2>4, JobResource, <1>0, Zenon DEF OInv, Owned, Creating, Job
  <2>11. Ok(o) \in BOOLEAN /\ (Ok(o) => j.pool = TRUE)
    BY <2>8, Zenon DEF Ok
  <2>12. Owners' /\ Owned'
    BY <2>1, <2>3, <2>7, <2>8, <2>9, <2>10, <2>11, OwnedOn, Zenon DEF OInv, Creating
  <2> QED
    BY <2>5, <2>12, Zenon DEF Follows, Of
<1> QED
  BY <1>1, <1>2, Zenon

\* The steps of a worker whose replica is made.
LEMMA ShowsOwned ==
    ASSUME SInv, OInv, NEW o \in Outcome, GetReplica(o) \/ ReplicaPV(o) \/ ReplicaPVC(o) \/ ReplicaClaims(o) \/ ShowState(o)
    PROVE  Follows
<1>0. "replica" \in Kind /\ "claim" \in Label /\ "error" \in State
  BY Zenon DEF Kind, Label, State
<1> DEFINE c == job["replica"].c
<1>1. cache' = cache /\ replicas' = replicas /\ job["replica"].at \in {"update", "pv", "claim", "pvc", "show"}
  BY Zenon DEF GetReplica, ReplicaPV, ReplicaPVC, ReplicaClaims, ShowState, CreateRemotePV, CreateRemotePVC, RecordState,
               At, array
<1>2. faults' = 0 => faults = 0
  BY FaultsGrow, Zenon DEF GetReplica, ReplicaPV, ReplicaPVC, ReplicaClaims, ShowState, CreateRemotePV, CreateRemotePVC,
               RecordState
<1>3. c \in CR /\ job["replica"] \in Job /\ cr[c].id \in Nat /\ job["replica"].obj.state \in State
  BY <1>0, <1>1, JobResource, Zenon DEF Version, Job
<1>4. \/ UNCHANGED <<cr, news>>
      \/ Exists(cr[c]) /\ Store(c, WithStatus(c, 0, "error")) /\ faults' # 0
      \/ Exists(cr[c]) /\ Store(c, WithStatus(c, cr[c].id, job["replica"].obj.state))
  BY FaultsGrow, Zenon DEF GetReplica, ReplicaPV, ReplicaPVC, ReplicaClaims, ShowState, CreateRemotePV, CreateRemotePVC,
               RecordState, Current, api
<1>5. (faults' = 0 => CrKept) /\ \A d \in Of("replica") : History(d)
  <2>1. CASE UNCHANGED <<cr, news>>
    BY <1>1, <2>1, NoHistory, Zenon
  <2>2. CASE Exists(cr[c]) /\ Store(c, WithStatus(c, 0, "error")) /\ faults' # 0
    BY <1>0, <1>1, <1>3, <2>2, StatusHistory, Zenon DEF Of
  <2>3. CASE Exists(cr[c]) /\ Store(c, WithStatus(c, cr[c].id, job["replica"].obj.state))
    <3>1. /\ Writes(c) /\ cr'[c].phase = cr[c].phase /\ cr'[c].fin = cr[c].fin /\ cr'[c].id = cr[c].id
          /\ \A d \in CR : History(d)
      BY <1>0, <1>1, <1>3, <2>3, StatusHistory, Zenon
    <3>2. CrKept
      BY <3>1, Zenon DEF CrKept, Writes, Held, Exists, Of
    <3> QED
      BY <3>1, <3>2, Zenon DEF Of
  <2> QED
    BY <1>4, <2>1, <2>2, <2>3, Zenon
<1>6. job'["replica"].at \in {"idle", "pv", "claim", "show"}
  <2>1. \/ Return("replica") \/ Retry("replica") \/ Goto("replica", "claim")
        \/ \E x : job' = [job EXCEPT !["replica"].at = "show", !["replica"].obj.state = x]
        \/ \E x : job' = [job EXCEPT !["replica"].at = "pv", !["replica"].rest = x]
    BY Zenon DEF GetReplica, ReplicaPV, ReplicaPVC, ReplicaClaims, ShowState, CreateRemotePV, CreateRemotePVC, RecordState
  <2> QED
    BY <1>0, <1>3, <2>1, JobMoves DEF SInv, Job
<1>7. Owners' /\ Owned'
  BY <1>1, <1>2, <1>5, <1>6, OwnedFree, Zenon DEF OInv, Creating
<1> QED
  BY <1>5, <1>7, Zenon DEF Follows

\* An error path: as long as nothing failed, the status it is written over has
\* no ID.
LEMMA AbortOwned ==
    ASSUME SInv, OInv, NEW o \in Outcome, Abort("replica", o)
    PROVE  Follows
<1>0. "replica" \in Kind /\ "error" \in State /\ 0 \in Nat
  BY Zenon DEF Kind, State
<1> DEFINE c == job["replica"].c
<1>1. cache' = cache /\ replicas' = replicas /\ job["replica"].at = "abort" /\ Retry("replica")
  BY Zenon DEF Abort, At, array
<1>2. faults' = 0 => faults = 0
  BY FaultsGrow, Zenon DEF Abort
<1>3. c \in CR
  BY <1>0, <1>1, JobResource, Zenon
<1>4. UNCHANGED <<cr, news>> \/ (Current(c, job["replica"].obj) /\ Store(c, WithStatus(c, 0, "error")))
  BY Zenon DEF Abort, api
<1>5. (faults' = 0 => CrKept) /\ \A d \in Of("replica") : History(d)
  <2>1. CASE UNCHANGED <<cr, news>>
    BY <1>1, <2>1, NoHistory, Zenon
  <2>2. CASE Current(c, job["replica"].obj) /\ Store(c, WithStatus(c, 0, "error"))
    <3>1. /\ Writes(c) /\ cr'[c].phase = cr[c].phase /\ cr'[c].fin = cr[c].fin /\ cr'[c].id = 0
          /\ \A d \in CR : History(d)
      BY <1>0, <1>1, <1>3, <2>2, StatusHistory, Zenon DEF Current
    <3>2. faults' = 0 => cr[c].id = 0
      BY <1>1, <1>2, <2>2, Zenon DEF OInv, Owned, Current
    <3>3. faults' = 0 => CrKept
      BY <3>1, <3>2, Zenon DEF CrKept, Writes, Held, Exists, Of
    <3> QED
      BY <3>1, <3>3, Zenon DEF Of
  <2> QED
    BY <1>4, <2>1, <2>2, Zenon
<1>6. job'["replica"].at = "idle"
  BY <1>0, <1>1, JobMoves, Zenon
<1>7. Owners' /\ Owned'
  BY <1>1, <1>2, <1>5, <1>6, OwnedFree, Zenon DEF OInv, Creating
<1> QED
  BY <1>5, <1>7, Zenon DEF Follows

\* A replica is made: its ID is in the worker's hands.
LEMMA CreateOwned ==
    ASSUME SInv, OInv, NEW o \in Outcome, CreateReplica(o)
    PROVE  Follows
<1> DEFINE c == job["replica"].c
           new == [id |-> lastId + 1, entity |-> CRSpec[c].entity, state |-> "active", owner |-> c]
<1>0. "replica" \in Kind
  BY Zenon DEF Kind
<1>1. UNCHANGED <<cr, news, cache>> /\ job["replica"].at = "post"
  BY Zenon DEF CreateReplica, At, api
<1>2. faults' = 0 => faults = 0
  BY FaultsGrow, Zenon DEF CreateReplica
<1>3. c \in Of("replica") /\ job["replica"] \in Job
  BY <1>0, <1>1, JobResource, Zenon
<1>4. (replicas' = replicas \/ replicas' = replicas \cup {new})
  BY Zenon DEF CreateReplica, PostReplica, ReplicaSpec
<1>5. Owners'
  BY <1>3, <1>4, SMTT(60) DEF Owners, OInv
<1>6. ASSUME faults' = 0
      PROVE  Owned'
  <2>1. faults = 0 /\ job["replica"].pool
    BY <1>1, <1>2, <1>6, Zenon DEF OInv, Owned, Creating
  <2>2. Ok(o) /\ Done(o)
    BY <1>6, <2>1, FaultsGrow DEF CreateReplica, Ok, Done
  <2>3. replicas' = replicas \cup {new} /\ job' = [job EXCEPT !["replica"].at = "record", !["replica"].id = lastId + 1]
    BY <2>1, <2>2, Zenon DEF CreateReplica, Accepts, PostReplica, ReplicaSpec
  <2>4. /\ job'["replica"].at = "record" /\ job'["replica"].id = lastId + 1 /\ job'["replica"].c = c
        /\ job'["replica"].obj = job["replica"].obj /\ job'["replica"].pool = job["replica"].pool
    BY <1>0, <1>3, <2>3, Zenon DEF SInv, Job
  <2>5. new.owner = c /\ new.id = lastId + 1
    BY Zenon
  <2> HIDE DEF new
  <2> QED
    BY <1>1, <2>1, <2>3, <2>4, <2>5, Zenon DEF OInv, Owned, Held, Creating
<1>7. Owned'
  BY <1>6, Zenon DEF Owned
<1> QED
  BY <1>1, <1>5, <1>7, NoHistory, Zenon DEF Follows

\* The ID is recorded.
LEMMA RecordOwned ==
    ASSUME SInv, OInv, NEW o \in Outcome, RecordReplica(o)
    PROVE  Follows
<1> DEFINE c == job["replica"].c
           i == job["replica"].id
<1>0. "replica" \in Kind /\ "created" \in State
  BY Zenon DEF Kind, State
<1>1. cache' = cache /\ replicas' = replicas /\ job["replica"].at = "record" /\ (Recorded \/ Retry("replica"))
  BY Zenon DEF RecordReplica, Record, At, array
<1>2. faults' = 0 => faults = 0
  BY FaultsGrow, Zenon DEF RecordReplica, Record
<1>3. c \in CR /\ c \in Of("replica") /\ job["replica"] \in Job /\ i \in Nat /\ HasReplica(c, i)
  BY <1>0, <1>1, JobResource, Zenon DEF Working, Job
<1>4. \/ UNCHANGED <<cr, news>> /\ faults' # 0
      \/ Exists(cr[c]) /\ Store(c, WithStatus(c, i, "created"))
  <2>1. Ok(o) => Done(o)
    BY Zenon DEF Ok, Done
  <2> QED
    BY <2>1, FaultsGrow, Zenon DEF RecordReplica, Record, Current, api
<1>5. job'["replica"].at \in {"idle", "pvc"}
  <2>1. Recorded => Return("replica") \/ \E x : job' = [job EXCEPT !["replica"].at = "pvc", !["replica"].obj = x]
    BY Zenon DEF Recorded
  <2> QED
    BY <1>0, <1>1, <1>3, <2>1, JobMoves DEF SInv, Job
<1>6. Owners'
  BY <1>1, Zenon DEF OInv, Owners
<1>7. CASE UNCHANGED <<cr, news>> /\ faults' # 0
  BY <1>1, <1>6, <1>7, NoHistory, Zenon DEF Follows, Owned
<1>8. CASE Exists(cr[c]) /\ Store(c, WithStatus(c, i, "created"))
  <2>1. /\ Writes(c) /\ cr'[c].phase = cr[c].phase /\ cr'[c].fin = cr[c].fin /\ cr'[c].id = i
        /\ \A d \in CR : History(d)
    BY <1>0, <1>1, <1>3, <1>8, StatusHistory, Zenon
  <2>2. ASSUME faults' = 0, NEW r \in replicas
        PROVE  Held(r.owner)' /\ cr'[r.owner].id = r.id
    <3>1. r.owner \in CR /\ r.entity = CRSpec[r.owner].entity
      BY Zenon DEF OInv, Owners, Of
    <3>2. Held(c)
      BY <1>1, <1>2, <2>2, Zenon DEF OInv, Owned, Creating
    <3>3. CASE r.owner = c
      <4>1. r.id = i
        BY <1>3, <3>1, <3>3, Zenon DEF HasReplica, OInv, OneReplicaPerEntity
      <4> QED
        BY <2>1, <3>2, <3>3, <4>1, Zenon DEF Held, Exists
    <3>4. CASE r.owner # c
      <4>1. Held(r.owner) /\ cr[r.owner].id = r.id
        BY <1>1, <1>2, <2>2, <3>4, Zenon DEF OInv, Owned
      <4> QED
        BY <2>1, <3>1, <3>4, <4>1, Zenon DEF Held, Writes
    <3> QED
      BY <3>3, <3>4, Zenon
  <2>3. Owned'
    BY <1>1, <1>5, <2>2, Zenon DEF Owned, Creating, Held
  <2> QED
    BY <1>6, <2>1, <2>3, Zenon DEF Follows, Of
<1> QED
  BY <1>4, <1>7, <1>8, Zenon

\* The replica of a resource that is gone is deleted.
LEMMA DeleteOwned ==
    ASSUME SInv, OInv, NEW o \in Outcome, DeleteReplica(o)
    PROVE  Follows
<1> DEFINE i == job["replica"].obj.id
<1>0. "replica" \in Kind
  BY Zenon DEF Kind
<1>1. UNCHANGED <<cr, news, cache>> /\ job["replica"].at = "delete" /\ (Return("replica") \/ Retry("replica"))
  BY Zenon DEF DeleteReplica, At, api
<1>2. replicas' \subseteq replicas
  BY Zenon DEF DeleteReplica, DropReplica
<1>3. faults' = 0 => faults = 0 /\ Ok(o)
  BY FaultsGrow DEF DeleteReplica, Ok
<1>4. faults' = 0 => \A r \in replicas' : r.id # i
  BY <1>3, Zenon DEF DeleteReplica, DropReplica, FindReplica, Ok, Done
<1>5. job'["replica"].at = "idle"
  BY <1>0, <1>1, JobMoves, Zenon
<1>6. Owners'
  BY <1>2, Zenon DEF OInv, Owners
<1>7. Owned'
  BY <1>1, <1>2, <1>3, <1>4, <1>5, Zenon DEF OInv, Owned, Creating, Held
<1> QED
  BY <1>1, <1>6, <1>7, NoHistory, Zenon DEF Follows

\* A reconcile begins.  A copy that shows the finalizer shows that the
\* resource has it still; a copy without it is written before anything else.
LEMMA ReconcileOwned ==
    ASSUME SInv, OInv, NEW o \in Outcome, NEW c \in Of("replica"), ReplicaReconcile(c, o)
    PROVE  Follows
<1> DEFINE next == ReplicaBranch(cache[c])
           go == [Idle EXCEPT !.at = next, !.c = c, !.obj = cache[c]]
<1>0. "replica" \in Kind /\ c \in CR /\ cache[c] \in Version /\ cr[c] \in Version /\ Known(c, cache[c])
  BY Zenon DEF Kind, SInv, ApiOK, Of, Versions
<1>1. cache' = cache /\ replicas' = replicas /\ job["replica"].at = "idle"
  BY Zenon DEF ReplicaReconcile, Reconcile, At, array
<1>2. faults' = 0 => faults = 0
  BY FaultsGrow, Zenon DEF ReplicaReconcile, Reconcile
<1>3. Owners'
  BY <1>1, Zenon DEF OInv, Owners
<1>4. go.at = next /\ go.c = c /\ go.obj = cache[c] /\ go.pool = TRUE
  BY Zenon DEF Idle
<1>5. /\ next \in {"create", "update", "delete"} /\ (next = "delete" <=> cache[c].phase = "deleting")
      /\ (next = "create" => cache[c].id = 0)
  BY Zenon DEF ReplicaBranch
<1>6. \/ UNCHANGED <<cr, news, job>>
      \/ /\ Exists(cache[c]) /\ ~NeedsFinalizer(cache[c]) /\ UNCHANGED <<cr, news>>
         /\ job' = [job EXCEPT !["replica"] = IF next = "idle" THEN Idle ELSE go]
      \/ /\ Exists(cache[c]) /\ Current(c, cache[c]) /\ Store(c, Finalized(c))
         /\ faults' # 0
      \/ /\ Exists(cache[c]) /\ Current(c, cache[c]) /\ Store(c, Finalized(c))
         /\ job' = [job EXCEPT !["replica"] = IF next = "idle" THEN Idle ELSE go]
  <2> HIDE DEF next, go
  <2>1. Ok(o) => Done(o)
    BY Zenon DEF Ok, Done
  <2>2. ~Ok(o) /\ Charge("Update", o) => faults' # 0
    BY FaultsGrow, Zenon
  <2> QED
    BY <2>1, <2>2, Zenon DEF ReplicaReconcile, Reconcile, api, next, go
<1> HIDE DEF next, go
<1>7. job' = [job EXCEPT !["replica"] = IF next = "idle" THEN Idle ELSE go] => job'["replica"] = go
  BY <1>0, <1>5, Zenon DEF SInv
<1>8. \A r \in replicas : faults' = 0 => Held(r.owner) /\ cr[r.owner].id = r.id
  BY <1>1, <1>2, Zenon DEF OInv, Owned
<1>9. CASE UNCHANGED <<cr, news, job>>
  <2>1. job'["replica"] = job["replica"] /\ CrKept /\ \A d \in Of("replica") : History(d)
    BY <1>1, <1>9, NoHistory, Zenon
  <2> QED
    BY <1>1, <1>2, <2>1, OwnedKept, Zenon DEF OInv, Follows
<1>10. CASE /\ Exists(cache[c]) /\ ~NeedsFinalizer(cache[c]) /\ UNCHANGED <<cr, news>>
            /\ job' = [job EXCEPT !["replica"] = IF next = "idle" THEN Idle ELSE go]
  <2>1. job'["replica"] = go /\ CrKept /\ \A d \in Of("replica") : History(d)
    BY <1>1, <1>7, <1>10, NoHistory, Zenon
  <2>2. cache[c].phase = "live" /\ cache[c].fin
    BY <1>0, <1>10, Zenon DEF Known, NeedsFinalizer, Exists, Version
  <2>3. Held(c)
    <3>1. cr[c].fin /\ cr[c].phase # "gone" /\ cr[c].phase # "none"
      BY <1>0, <2>2, Zenon DEF OInv, Finalizing, Versions, Known
    <3> QED
      BY <1>0, <3>1, Zenon DEF Held, Exists, Version
  <2>4. CASE next = "update"
    <3>1. Owners' /\ Owned'
      BY <1>1, <1>2, <1>4, <2>1, <2>4, OwnedFree DEF OInv, Creating
    <3> QED
      BY <2>1, <3>1, Zenon DEF Follows
  <2>5. CASE next = "create"
    <3>1. cache[c].rv <= cr[c].rv /\ (cache[c].rv = cr[c].rv => cr[c].id = 0)
      BY <1>0, <1>5, <2>5, Zenon DEF Known
    <3>2. Owned'
      BY <1>1, <1>2, <1>4, <1>5, <1>8, <1>10, <2>1, <2>3, <2>5, <3>1, Zenon DEF Owned, Held, Creating
    <3> QED
      BY <1>3, <2>1, <3>2, Zenon DEF Follows
  <2> QED
    BY <1>5, <2>2, <2>4, <2>5, Zenon
<1>11. ASSUME Exists(cache[c]), Current(c, cache[c]), Store(c, Finalized(c))
       PROVE  /\ Writes(c) /\ cr'[c].id = cr[c].id /\ \A d \in CR : History(d)
              /\ IF cr[c].phase = "deleting" THEN cr'[c].phase = "gone" ELSE cr'[c].phase = "live" /\ cr'[c].fin
              /\ cache[c] = cr[c]
  <2>1. Exists(cr[c]) /\ cache[c] = cr[c]
    BY <1>0, <1>11, Zenon DEF Current, Known
  <2> QED
    BY <1>1, <1>11, <2>1, FinalHistory, Zenon DEF OInv
<1>12. CASE Exists(cache[c]) /\ Current(c, cache[c]) /\ Store(c, Finalized(c)) /\ faults' # 0
  BY <1>3, <1>11, <1>12, Zenon DEF Follows, Owned, Of
<1>13. CASE /\ Exists(cache[c]) /\ Current(c, cache[c]) /\ Store(c, Finalized(c))
            /\ job' = [job EXCEPT !["replica"] = IF next = "idle" THEN Idle ELSE go]
  <2>1. job'["replica"] = go
    BY <1>7, <1>13, Zenon
  <2>2. CASE next = "delete"
    <3>1. ASSUME faults' = 0, NEW r \in replicas
          PROVE  \/ Held(r.owner)' /\ cr'[r.owner].id = r.id
                 \/ go.c = r.owner /\ go.obj.id = r.id
      <4>1. r.owner \in CR /\ Held(r.owner) /\ cr[r.owner].id = r.id
        BY <1>8, <3>1, Zenon DEF OInv, Owners, Of
      <4>2. CASE r.owner = c
        BY <1>4, <1>11, <1>13, <4>1, <4>2, Zenon
      <4>3. CASE r.owner # c
        BY <1>11, <1>13, <4>1, <4>3, Zenon DEF Writes, Held
      <4> QED
        BY <4>2, <4>3, Zenon
    <3>2. Owned'
      BY <1>1, <1>4, <2>1, <2>2, <3>1, Zenon DEF Owned, Creating, Held
    <3> QED
      BY <1>3, <1>11, <1>13, <3>2, Zenon DEF Follows, Of
  <2>3. CASE next # "delete"
    <3>1. cr[c].phase # "deleting" /\ cr'[c].phase = "live" /\ cr'[c].fin /\ cr'[c].id = cr[c].id /\ Writes(c) /\ cache[c] = cr[c]
      BY <1>5, <1>11, <1>13, <2>3, Zenon
    <3>2. CrKept
      BY <3>1, Zenon DEF CrKept, Writes, Held, Exists, Of
    <3>3. CASE next = "update"
      <4>1. Owners' /\ Owned'
        BY <1>1, <1>2, <1>4, <2>1, <3>2, <3>3, OwnedFree, Zenon DEF OInv, Creating
      <4> QED
        BY <1>11, <1>13, <4>1, Zenon DEF Follows, Of
    <3>4. CASE next = "create"
      <4>1. cache[c].rv <= cr'[c].rv /\ cr'[c].id = 0
        <5>1. cr[c].rv \in Nat /\ cache[c].rv = cr[c].rv /\ cache[c].id = cr[c].id
          BY <1>0, <3>1, Zenon DEF Version
        <5>2. cr'[c].rv = cr[c].rv \/ cr'[c].rv = cr[c].rv + 1
          BY <3>1, Zenon DEF Writes
        <5> QED
          <6>1. cache[c].rv <= cr'[c].rv
            BY <5>1, <5>2
          <6> QED
            BY <1>5, <3>1, <3>4, <5>1, <6>1, Zenon
      <4>2. ASSUME faults' = 0, NEW r \in replicas PROVE Held(r.owner)' /\ cr'[r.owner].id = r.id
        BY <1>8, <3>2, <4>2, Zenon DEF CrKept, OInv, Owners, Held
      <4>3. Owned'
        BY <1>1, <1>4, <1>5, <2>1, <3>1, <3>4, <4>1, <4>2, Zenon DEF Owned, Held, Exists, Creating
      <4> QED
        BY <1>3, <1>11, <1>13, <4>3, Zenon DEF Follows, Of
    <3> QED
      BY <1>5, <2>3, <3>3, <3>4
  <2> QED
    BY <2>2, <2>3, Zenon
<1> QED
  BY <1>6, <1>9, <1>10, <1>12, <1>13, Zenon

\* The users, the informers, the restarts and the array itself.
LEMMA OtherOwned ==
    ASSUME SInv, OInv, Environment \/ Progress
    PROVE  Follows
<1>0. cr \in [CR -> Version] /\ news \in [CR -> Seq(Version)] /\ cache \in [CR -> Version]
  BY Zenon DEF SInv, ApiOK
<1>1. ASSUME NEW c \in CR, UserCreate(c) \/ UserDelete(c)
      PROVE  Follows
  <2>1. UNCHANGED <<cache, job, replicas, faults>>
    BY <1>1, Zenon DEF UserCreate, UserDelete, array
  <2>2. PICK obj \in Version :
            /\ Store(c, obj)
            /\ \/ cr[c].phase = "none" /\ obj.phase = "live"
               \/ cr[c].phase = "live" /\ cr[c].fin /\ obj.phase = "deleting" /\ obj.fin /\ obj.id = cr[c].id
               \/ cr[c].phase = "live" /\ ~cr[c].fin /\ obj.phase = "gone"
    <3>1. CASE UserCreate(c)
      <4>1. [Absent EXCEPT !.phase = "live"] \in Version /\ [Absent EXCEPT !.phase = "live"].phase = "live"
        BY Zenon DEF Absent, Version, State
      <4> QED
        BY <3>1, <4>1, Zenon DEF UserCreate
    <3>2. CASE UserDelete(c)
      <4> DEFINE new == [cr[c] EXCEPT !.phase = IF cr[c].fin THEN "deleting" ELSE "gone"]
      <4>1. /\ new \in Version /\ new.fin = cr[c].fin /\ new.id = cr[c].id
            /\ new.phase = IF cr[c].fin THEN "deleting" ELSE "gone"
        BY <1>0, Zenon DEF Version
      <4>2. Store(c, new) /\ cr[c].phase = "live"
        BY <3>2, Zenon DEF UserDelete
      <4> HIDE DEF new
      <4> QED
        BY <4>1, <4>2, Zenon
    <3> QED
      BY <1>1, <3>1, <3>2, Zenon
  <2>3. Writes(c) /\ cr'[c].phase = obj.phase /\ cr'[c].fin = obj.fin /\ cr'[c].id = obj.id
    BY <2>2, StoreFields, Zenon
  <2>4. CrKept
    BY <2>2, <2>3, Zenon DEF CrKept, Writes, Held, Exists, Of
  <2>5. ASSUME c \in Of("replica") PROVE History(c)
    <3>1. /\ cr[c] \in Versions(c) /\ (cr[c].phase = "none" => ~cr[c].fin)
          /\ \A x \in Versions(c) : x.fin => cr[c].fin \/ cr[c].phase = "gone"
      BY <2>5, Zenon DEF OInv, Finalizing, Versions
    <3> QED
      BY <2>1, <2>2, <2>3, <3>1, Zenon DEF Writes, History
  <2>6. \A d \in Of("replica") : History(d)
    BY <2>1, <2>3, <2>5, Zenon DEF Writes, History, Of
  <2> QED
    BY <2>1, <2>4, <2>6, OwnedKept, Zenon DEF OInv, Follows
<1>2. CASE (\E k \in Kind : Resync(k)) \/ LinkUp \/ LinkDown
  <2>1. UNCHANGED <<cr, news, cache, job, replicas>>
    BY <1>2, Zenon DEF Resync, LinkUp, LinkDown, array, api
  <2>2. faults' = 0 => faults = 0
    BY <1>2, FaultsGrow, Zenon DEF Resync, LinkUp, LinkDown
  <2> QED
    BY <2>1, <2>2, NoHistory, OwnedKept, Zenon DEF OInv, Follows
<1>3. ASSUME NEW k \in Kind, Crash(k)
      PROVE  Follows
  <2>1. /\ UNCHANGED <<cr, replicas>> /\ faults' # 0
        /\ cache' = [c \in CR |-> IF c \in Of(k) THEN cr[c] ELSE cache[c]]
        /\ news' = [c \in CR |-> IF c \in Of(k) THEN <<>> ELSE news[c]]
    BY <1>3, FaultsGrow, Zenon DEF Crash, array
  <2>2. \A c \in Of("replica") : History(c)
    BY <2>1, Zenon DEF History, Of
  <2> QED
    BY <2>1, <2>2, Zenon DEF OInv, Owners, Owned, Follows
<1>4. ASSUME NEW c \in CR, Deliver(c)
      PROVE  Follows
  <2>1. /\ UNCHANGED <<cr, job, replicas, faults>> /\ news[c] # <<>>
        /\ cache' = [cache EXCEPT ![c] = Head(news[c])]
        /\ news' = [news EXCEPT ![c] = Tail(@)]
    BY <1>4, Zenon DEF Deliver, array
  <2>2. cache'[c] = Head(news[c]) /\ news'[c] = Tail(news[c]) /\ \A d \in CR \ {c} : cache'[d] = cache[d] /\ news'[d] = news[d]
    BY <1>0, <2>1, Zenon
  <2>3. CrKept /\ \A d \in Of("replica") : History(d)
    BY <2>1, <2>2, Zenon DEF CrKept, History, Of
  <2> QED
    BY <2>1, <2>3, OwnedKept, Zenon DEF OInv, Follows
<1>5. ASSUME NEW r \in replicas, Suspended(r)
      PROVE  Follows
  <2>1. UNCHANGED <<cr, news, cache, job, faults>> /\ SetState(r.id, "suspended")
    BY <1>5, Zenon DEF Suspended, api
  <2>2. SameReplicas
    BY <2>1, StateSame, Zenon
  <2> QED
    BY <2>1, <2>2, NoHistory, OwnedKept, Zenon DEF OInv, Follows, SameReplicas
<1> QED
  BY <1>1, <1>2, <1>3, <1>4, <1>5 DEF Environment, Progress

\* Every step keeps the invariant.
LEMMA NextOwned == SInv /\ IInv /\ OInv /\ [Next]_vars => OInv'
<1> SUFFICES ASSUME SInv, IInv, OInv, [Next]_vars
             PROVE  OInv'
  BY Zenon
<1>1. CASE UNCHANGED vars
  <2>1. UNCHANGED <<cr, news, cache, job, replicas, faults>>
    BY <1>1, Zenon DEF vars, api, array
  <2>2. Follows
    BY <2>1, NoHistory, OwnedKept, Zenon DEF OInv, Follows
  <2> QED
    BY <2>1, <2>2, NextSInv, NextIInv, HistoryKept, Zenon DEF OInv, IInv, Follows, SInv
<1>2. ASSUME Next PROVE Follows
  <2>1. ReadOutcome \subseteq Outcome
    BY Zenon DEF ReadOutcome, Outcome
  <2>2. CASE ReplicaStep
    BY <2>1, <2>2, AsksOwned, ShowsOwned, AbortOwned, CreateOwned, RecordOwned, DeleteOwned, ReconcileOwned DEF ReplicaStep
  <2>3. CASE CgStep
    <3>1. /\ \A c \in Of("replica") : History(c) /\ cr'[c] = cr[c]
          /\ job'["replica"] = job["replica"] /\ SameReplicas /\ (faults' = 0 => faults = 0)
      BY <2>3, CgOwn, OthersHistory, Zenon DEF Kind, Own
    <3>2. CrKept
      BY <3>1, Zenon DEF CrKept
    <3> QED
      BY <3>1, <3>2, OwnedKept, Zenon DEF OInv, Follows, SameReplicas
  <2>4. CASE PromoteStep
    <3>1. /\ \A c \in Of("replica") : History(c) /\ cr'[c] = cr[c]
          /\ job'["replica"] = job["replica"] /\ replicas' = replicas /\ (faults' = 0 => faults = 0)
      BY <2>4, PromoteOwn, OthersHistory, Zenon DEF Kind, Own
    <3>2. CrKept
      BY <3>1, Zenon DEF CrKept
    <3> QED
      BY <3>1, <3>2, OwnedKept, Zenon DEF OInv, Follows
  <2> QED
    BY <1>2, <2>2, <2>3, <2>4, OtherOwned, Zenon DEF Next
<1>3. CASE Next
  <2>1. ApiOK' /\ OneReplicaPerEntity'
    BY NextSInv, NextIInv, Zenon DEF SInv, IInv
  <2> QED
    BY <1>2, <1>3, <2>1, HistoryKept, Zenon DEF OInv, Follows
<1> QED
  BY <1>1, <1>3, Zenon

\* At the start a replica is in the status of the resource it was made for.
LEMMA InitOwned == Init => OInv
<1> SUFFICES ASSUME Init
             PROVE  OInv
  BY Zenon
<1>1. OneReplicaPerEntity
  BY InitIInv, Zenon DEF IInv
<1>2. \A c \in CR : news[c] = <<>> /\ cache[c] = cr[c] /\ (cr[c] = Absent \/ (c \in scenario.ready /\ cr[c] = Ready))
  BY Zenon DEF Init
<1>3. InOrder
  <2>1. \A c \in Of("replica") : 1..Len(news[c]) = {}
    BY <1>2 DEF Of
  <2> QED
    BY <2>1, Zenon DEF InOrder
<1>4. Absent.phase = "none" /\ Absent.fin = FALSE /\ Ready.phase = "live" /\ Ready.fin = TRUE /\ Ready.id = 1
  BY Zenon DEF Absent, Ready
<1>5. Finalizing
  BY <1>2, <1>4, SMTT(60) DEF Finalizing, Versions, Of
<1>6. scenario.ready \subseteq Of("replica") /\ scenario.ready \subseteq CR
  BY ScenarioAssumption, Zenon DEF Init, Of
<1>7. \A r \in replicas : \E c \in scenario.ready : r = ReadyReplica(c)
  BY Zenon DEF Init
<1>8. Owners
  BY <1>6, <1>7, SMTT(60) DEF Owners, ReadyReplica
<1>9. job["replica"].at = "idle"
  BY Zenon DEF Init, Idle, Kind
<1>10. \A c \in scenario.ready : cr[c] = Ready
  BY <1>6, Zenon DEF Init
<1>11. \A r \in replicas : Held(r.owner) /\ cr[r.owner].id = r.id
  BY <1>4, <1>7, <1>10, SMTT(60) DEF ReadyReplica, Held, Exists
<1>12. Owned
  BY <1>9, <1>11, Zenon DEF Owned, Creating
<1> QED
  BY <1>1, <1>3, <1>5, <1>8, <1>12, Zenon DEF OInv

\* As long as nothing failed and no stale copy was written, a resource that is
\* gone leaves no replica behind once its last reconcile is over: the worker
\* that removed the finalizer had the ID of the replica in its copy, because
\* the server took the write only from one who had the last version.
THEOREM Removed == Spec => []ReplicaRemoved
<1>1. Init => SInv /\ IInv /\ OInv
  BY InitSInv, InitIInv, InitOwned, Zenon
<1>2. SInv /\ IInv /\ OInv /\ [Next]_vars => (SInv /\ IInv /\ OInv)'
  BY NextSInv, NextIInv, NextOwned, Zenon
<1>3. OInv => ReplicaRemoved
  BY Zenon DEF OInv, Owned, Held, Exists, ReplicaRemoved
<1> QED
  BY <1>1, <1>2, <1>3, PTL DEF Spec
=============================================================================
