-------------------------- MODULE CustomResource ---------------------------
(***************************************************************************)
(* What the three controllers of the driver (iboxreplica, iboxcg and       *)
(* iboxpromote) share: custom resources on the API server, the informer    *)
(* cache a controller reads them from, its work queue and its one worker,  *)
(* and the parts of the array the controllers act on.                      *)
(*                                                                         *)
(* The informer delivers every version of a resource, in order and late;   *)
(* each delivery queues the resource.  A write carries the version it was  *)
(* read at and conflicts when the server has a newer one.  A reconcile     *)
(* that returns an error queues its resource again, one that returns nil   *)
(* does not.                                                               *)
(***************************************************************************)
EXTENDS Naturals, Sequences, FiniteSets, Calls

CONSTANTS
    CR,             \* custom resources
    CRSpec,         \* CRSpec[c]: the spec of resource c
    Link,           \* sequence of the array's replication links
    Volume,         \* volumes of the array
    Group,          \* the consistency group
    Snapshot,       \* snapshots of the array
    Scenarios,      \* what a user does, and what is there at the start
    None

Kind == {"replica", "cg", "promote"}
Of(k) == {c \in CR : CRSpec[c].kind = k}

ASSUME SpecAssumption == \A c \in CR : CRSpec[c].kind \in Kind
ASSUME ScenarioAssumption ==
    Scenarios \subseteq [make : SUBSET CR, drop : SUBSET CR, ready : SUBSET Of("replica"),
                         members : SUBSET Volume, up : BOOLEAN]
\* The array holds at most one replica at the start, the one with ID 1.
ASSUME ReadyAssumption == \A s \in Scenarios : \A c, d \in s.ready : c = d
ASSUME NoneAssumption == None \notin CR \cup Volume \cup Snapshot

VARIABLES
    cr,         \* cr[c]: the resource on the API server
    news,       \* news[c]: versions the informer has not delivered yet
    cache,      \* cache[c]: the version in the informer cache
    queue,      \* queue[k]: work queue of controller k
    job,        \* job[k]: what the worker of controller k is doing
    replicas,   \* the array's replicas
    lastId,     \* the last replica ID the array gave out
    members,    \* members of the consistency group
    masters,    \* snapshots that were promoted
    linkUp,     \* the replication links are up
    pv,         \* volumes with a PersistentVolume for the remote copy
    pvc,        \* volumes with a claim for it
    scenario    \* what the user does, and what was there at the start

api == <<cr, news>>
array == <<replicas, lastId, members, masters, linkUp>>
claims == <<pv, pvc, scenario>>
vars == <<api, cache, queue, job, array, claims, faults>>

\* A version of a resource: resourceVersion, life cycle, finalizer and status.
Absent == [rv |-> 0, phase |-> "none", fin |-> FALSE, id |-> 0, state |-> ""]
Exists(obj) == obj.phase \in {"live", "deleting"}

\* A worker between two reconciles.
Idle == [at |-> "idle", c |-> None, obj |-> Absent, pool |-> TRUE, id |-> 0, seen |-> {}, rest |-> {}]

\* An Iboxreplica that was reconciled before, with its replica.
Ready == [rv |-> 4, phase |-> "live", fin |-> TRUE, id |-> 1, state |-> "active"]
ReadyReplica(c) == [id |-> 1, entity |-> CRSpec[c].entity, state |-> "active", owner |-> c]

Init ==
    /\ scenario \in Scenarios
    /\ cr = [c \in CR |-> IF c \in scenario.ready THEN Ready ELSE Absent]
    /\ news = [c \in CR |-> <<>>]
    /\ cache = cr
    /\ queue = [k \in Kind |-> <<>>]
    /\ job = [k \in Kind |-> Idle]
    /\ replicas = {ReadyReplica(c) : c \in scenario.ready}
    /\ lastId = IF scenario.ready = {} THEN 0 ELSE 1
    /\ members = scenario.members
    /\ masters = {}
    /\ linkUp = scenario.up
    /\ pv = {} /\ pvc = {}
    /\ faults = 0

----------------------------------------------------------------------------
(* The API server *)

\* The server stores obj as the next version of c; an unchanged object keeps
\* its version and makes no event.
Store(c, obj) ==
    IF [obj EXCEPT !.rv = cr[c].rv] = cr[c] THEN UNCHANGED api
    ELSE LET new == [obj EXCEPT !.rv = cr[c].rv + 1]
         IN  /\ cr' = [cr EXCEPT ![c] = new]
             /\ news' = [news EXCEPT ![c] = Append(@, new)]

\* A write of what was read as version old is accepted.
Current(c, old) == Exists(cr[c]) /\ cr[c].rv = old.rv

\* Status().Update: only the status of the stored object changes.
WithStatus(c, id, state) == [cr[c] EXCEPT !.id = id, !.state = state]

\* The version of c after Store(c, obj), as the client sees it in the answer.
Stored(c, obj) == IF [obj EXCEPT !.rv = cr[c].rv] = cr[c] THEN cr[c] ELSE [obj EXCEPT !.rv = cr[c].rv + 1]

\* A user creates a resource, and may delete it later: an object with a
\* finalizer stays until the finalizer is removed.
UserCreate(c) ==
    /\ c \in scenario.make /\ cr[c].phase = "none"
    /\ Store(c, [Absent EXCEPT !.phase = "live"])
    /\ UNCHANGED <<cache, queue, job, array, claims, faults>>

UserDelete(c) ==
    /\ c \in scenario.drop /\ cr[c].phase = "live"
    /\ Store(c, [cr[c] EXCEPT !.phase = IF cr[c].fin THEN "deleting" ELSE "gone"])
    /\ UNCHANGED <<cache, queue, job, array, claims, faults>>

----------------------------------------------------------------------------
(* The controller runtime *)

\* The work queue is served in turn and holds a resource once.
Enqueue(q, cs) ==
    LET new == {c \in cs : \A i \in DOMAIN q : q[i] # c}
    IN  q \o CHOOSE s \in [1..Cardinality(new) -> new] : \A i, j \in DOMAIN s : s[i] = s[j] => i = j

\* The informer of c's controller delivers the next version.
Deliver(c) ==
    /\ news[c] # <<>>
    /\ cache' = [cache EXCEPT ![c] = Head(news[c])]
    /\ news' = [news EXCEPT ![c] = Tail(@)]
    /\ queue' = [queue EXCEPT ![CRSpec[c].kind] = Enqueue(@, {c})]
    /\ UNCHANGED <<cr, job, array, claims, faults>>

\* The informer's resync queues every resource in the cache.  It comes every
\* ten hours: long after the controller has finished with what it knew.
Resync(k) ==
    LET known == {c \in Of(k) : Exists(cache[c])}
    IN  /\ job[k] = Idle /\ queue[k] = <<>> /\ known # {}
        /\ \A c \in Of(k) : news[c] = <<>>
        /\ queue' = [queue EXCEPT ![k] = Enqueue(@, known)]
        /\ UNCHANGED <<api, cache, job, array, claims, faults>>

\* The controller restarts: its reconcile is cut off, the cache is listed anew.
Crash(k) ==
    /\ job[k] # Idle
    /\ Fault("crash")
    /\ job' = [job EXCEPT ![k] = Idle]
    /\ cache' = [c \in CR |-> IF c \in Of(k) THEN cr[c] ELSE cache[c]]
    /\ news' = [c \in CR |-> IF c \in Of(k) THEN <<>> ELSE news[c]]
    /\ queue' = [queue EXCEPT ![k] = Enqueue(<<>>, {c \in Of(k) : Exists(cr[c])})]
    /\ UNCHANGED <<cr, array, claims>>

\* The worker of k goes on at label l; it returns nil; it returns an error.
At(k, l) == job[k].at = l
Goto(k, l) == job' = [job EXCEPT ![k].at = l] /\ UNCHANGED queue
Return(k) == job' = [job EXCEPT ![k] = Idle] /\ UNCHANGED queue
Retry(k) ==
    /\ job' = [job EXCEPT ![k] = Idle]
    /\ queue' = [queue EXCEPT ![k] = Enqueue(@, {job[k].c})]

----------------------------------------------------------------------------
(* The array and its links, apart from the calls of the controllers *)

\* The calls of the REST client.  Replicas are listed, found by their ID,
\* created and deleted; the first replica of the group is looked up by name.
ReplicaOf(e) == {r \in replicas : r.entity = e}
FindReplica(id) == {r \in replicas : r.id = id}
GroupReplica == ReplicaOf(Group)
PostReplica(e, c) ==
    /\ lastId' = lastId + 1
    /\ replicas' = replicas \cup {[id |-> lastId + 1, entity |-> e, state |-> "active", owner |-> c]}
DropReplica(id) == replicas' = replicas \ FindReplica(id)

SetState(id, s) ==
    replicas' = {IF r.id = id THEN [r EXCEPT !.state = s] ELSE r : r \in replicas}

\* A suspension takes its time; one that is asked for again changes nothing.
PostSuspend(id) ==
    IF \E r \in FindReplica(id) : r.state = "active" THEN SetState(id, "suspending") ELSE UNCHANGED replicas
PostResume(id) == SetState(id, "active")

\* Members of the group.
PostMember(v) == members' = members \cup {v}
DropMember(v) == members' = members \ {v}

\* A suspension that was asked for takes effect.
Suspended(r) ==
    /\ r.state = "suspending"
    /\ SetState(r.id, "suspended")
    /\ UNCHANGED <<api, cache, queue, job, lastId, members, masters, linkUp, claims, faults>>

\* The links to the remote systems fail and come back.
LinkDown ==
    /\ linkUp
    /\ Fault("link")
    /\ linkUp' = FALSE
    /\ UNCHANGED <<api, cache, queue, job, replicas, lastId, members, masters, claims>>

LinkUp ==
    /\ ~linkUp
    /\ linkUp' = TRUE
    /\ UNCHANGED <<api, cache, queue, job, replicas, lastId, members, masters, claims, faults>>

----------------------------------------------------------------------------
(* Steps the reconcilers have in common *)

\* handleFinalizer: a new resource gets the finalizer, a deleted one loses it
\* and is gone.  The local copy is passed by value and keeps its version.
NeedsFinalizer(obj) == obj.fin = (obj.phase = "deleting")
Finalized(c) ==
    IF cr[c].phase = "deleting" THEN [cr[c] EXCEPT !.fin = FALSE, !.phase = "gone"]
    ELSE [cr[c] EXCEPT !.fin = TRUE]

\* Reconcile: look c up in the cache, see to the finalizer, and go on at
\* next, the label of the branch the object's status selects.
Reconcile(k, c, o, next) ==
    LET obj == cache[c]
        go == [Idle EXCEPT !.at = next, !.c = c, !.obj = obj]
        run == job' = [job EXCEPT ![k] = IF next = "idle" THEN Idle ELSE go]
        rest == Tail(queue[k])
    IN  /\ At(k, "idle") /\ queue[k] # <<>> /\ c = Head(queue[k])
        /\ \/ /\ ~Exists(obj) /\ o = "ok"
              /\ queue' = [queue EXCEPT ![k] = rest]
              /\ UNCHANGED <<api, job, faults>>
           \/ /\ Exists(obj) /\ ~NeedsFinalizer(obj) /\ o = "ok"
              /\ queue' = [queue EXCEPT ![k] = rest]
              /\ run
              /\ UNCHANGED <<api, faults>>
           \/ /\ Exists(obj) /\ NeedsFinalizer(obj) /\ Current(c, obj)
              /\ Charge("Update", o)
              /\ IF Done(o) THEN Store(c, Finalized(c)) ELSE UNCHANGED api
              /\ queue' = [queue EXCEPT ![k] = IF Ok(o) THEN rest ELSE Append(rest, c)]
              /\ IF Ok(o) THEN run ELSE UNCHANGED job
           \/ /\ Exists(obj) /\ NeedsFinalizer(obj) /\ ~Current(c, obj) /\ o = "ok"
              /\ queue' = [queue EXCEPT ![k] = Append(rest, c)]
              /\ UNCHANGED <<api, job, faults>>
        /\ UNCHANGED <<cache, array, claims>>

\* An error path: Status = {State: err} is written over the status, ID
\* included, a failed write is only logged, and the error is returned.
Abort(k, o) ==
    LET c == job[k].c
    IN  /\ At(k, "abort")
        /\ IF Current(c, job[k].obj)
           THEN /\ Charge("UpdateStatus", o)
                /\ IF Done(o) THEN Store(c, WithStatus(c, 0, "error")) ELSE UNCHANGED api
           ELSE o = "ok" /\ UNCHANGED <<api, faults>>
        /\ Retry(k)
        /\ UNCHANGED <<cache, array, claims>>

\* The work is done: read the resource again, from the cache, and record the
\* ID in its status.  A cache that lags behind makes the write conflict.  The
\* reconcile goes on with done.
Record(k, id, o, done) ==
    LET c == job[k].c
    IN  /\ At(k, "record")
        /\ \/ /\ Current(c, cache[c])
              /\ Charge("UpdateStatus", o)
              /\ IF Done(o) THEN Store(c, WithStatus(c, id, "created")) ELSE UNCHANGED api
              /\ IF Ok(o) THEN done ELSE Retry(k)
           \/ /\ ~Current(c, cache[c]) /\ o = "fail"
              /\ Fault("stale")
              /\ Retry(k)
              /\ UNCHANGED api
        /\ UNCHANGED <<cache, array, claims>>

\* The state shown for a finished resource is written to its status.
RecordState(k, l, state, o) ==
    LET c == job[k].c
    IN  /\ At(k, l)
        /\ \/ /\ Current(c, cache[c])
              /\ Charge("UpdateStatus", o)
              /\ IF Done(o) THEN Store(c, WithStatus(c, cr[c].id, state)) ELSE UNCHANGED api
              /\ IF Ok(o) THEN Return(k) ELSE Retry(k)
           \/ /\ ~Current(c, cache[c]) /\ o = "ok"
              /\ Retry(k)
              /\ UNCHANGED <<api, faults>>
        /\ UNCHANGED <<cache, array, claims>>

\* The annotations name a secret; its array is the one the client talks to.
\* (The lookup of the secret itself is a call that may fail.)
getClientService(s) == s.secret

\* CreateRemotePV and CreateRemotePVC for the next volume of createPVC; an
\* object that exists already is an error, and an error ends createPVC.  For a
\* PersistentVolume on another cluster the secret of the remote array is
\* created there first, when it is missing: no reconcile reads it, and where
\* that fails the PersistentVolume is not created.
NextVolume(k) == CHOOSE v \in job[k].rest : TRUE

CreateRemotePV(k, o, done) ==
    LET v == NextVolume(k)
    IN  /\ At(k, "pv")
        /\ IF v \in pv THEN o = "ok" /\ done /\ UNCHANGED <<pv, faults>>
           ELSE /\ Charge("CreatePV", o)
                /\ pv' = IF Done(o) THEN pv \cup {v} ELSE pv
                /\ IF Ok(o) THEN Goto(k, "claim") ELSE done
        /\ UNCHANGED <<api, cache, array, pvc, scenario>>

CreateRemotePVC(k, o, done) ==
    LET v == NextVolume(k)
    IN  /\ At(k, "claim")
        /\ IF v \in pvc THEN o = "ok" /\ done /\ UNCHANGED <<pvc, faults>>
           ELSE /\ Charge("CreatePVC", o)
                /\ pvc' = IF Done(o) THEN pvc \cup {v} ELSE pvc
                /\ IF Ok(o) /\ job[k].rest # {v}
                   THEN job' = [job EXCEPT ![k].at = "pv", ![k].rest = @ \ {v}] /\ UNCHANGED queue
                   ELSE done
        /\ UNCHANGED <<api, cache, array, pv, scenario>>
=============================================================================
