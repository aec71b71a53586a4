------------------------------ MODULE Handler ------------------------------
(***************************************************************************)
(* What the replication service and the group services share: workers that *)
(* make one gRPC call after another, make a failed call again, and may be   *)
(* restarted in the middle of one; and the state of the arrays.             *)
(*                                                                         *)
(* For the replication service a worker is a cluster with an array of its   *)
(* own, and the calls are about one volume that is kept on several arrays.  *)
(* For the group services the workers are handlers on one array.            *)
(***************************************************************************)
EXTENDS Naturals, Sequences, FiniteSets, Calls

CONSTANTS
    Worker,         \* clusters, or handlers
    Peer,           \* Peer[x]: the array the link of array x leads to
    Volume,         \* volumes that can be in groups
    Request,        \* requests: an operation and its arguments
    Scenarios,      \* the requests each worker makes, and what is set up
    MaxCalls,       \* bound on the calls of a worker
    None

ReplicationOp == {"enable", "disable", "promote", "demote", "resync", "info"}
GroupOp == {"createGroup", "snap", "replicate"}
ById == [modify |-> "cg", deleteGroup |-> "cg", getGroup |-> "cg", deleteSnap |-> "snap", getSnap |-> "snap"]

NoRequest == [op |-> "none"]

ASSUME PeerAssumption == Peer \in [Worker -> Worker]
ASSUME RequestAssumption == \A q \in Request : q.op \in ReplicationOp \cup GroupOp \cup DOMAIN ById
ASSUME ScenarioAssumption ==
    Scenarios \subseteq [requests : [Worker -> SUBSET Request], source : Worker \cup {None}, on : SUBSET Worker,
                         linkUp : BOOLEAN, linkNamed : BOOLEAN, secret : BOOLEAN]
ASSUME NoneAssumption == None \notin Worker \cup Volume
ASSUME MaxCallsAssumption == MaxCalls \in Nat

VARIABLES
    replicas,   \* replicas of the volume, each known to its source and its target
    lastId,     \* the last replica ID given out
    there,      \* arrays that have the volume
    groups,     \* consistency groups and snapshot groups
    lastGroup,  \* the last group ID given out
    volumes,    \* volumes that exist
    resources,  \* volumes with a custom resource for their replication
    job,        \* job[w]: the call worker w is working on
    answer,     \* answer[w]: snapshots in the last answer to worker w
    calls,      \* calls[w]: calls worker w has made so far
    scenario

array == <<replicas, lastId, there>>
cgs == <<groups, lastGroup, volumes, resources>>
rest == <<calls, answer, scenario>>
vars == <<array, cgs, job, rest, faults>>

\* No call under way; otherwise the request, where it is, the ID of the replica
\* or group it is about, the volumes it still has to add, by their positions in
\* the request, and those it has to remove.
Idle == [req |-> NoRequest, at |-> "idle", id |-> 0, add |-> {}, remove |-> {}]

Init ==
    /\ scenario \in Scenarios
    /\ replicas = IF scenario.source = None THEN {}
                  ELSE {[id |-> 1, src |-> scenario.source, dst |-> Peer[scenario.source]]}
    /\ lastId = 1
    /\ there = scenario.on
    /\ groups = {} /\ lastGroup = 0
    /\ volumes = Volume
    /\ resources = {}
    /\ job = [w \in Worker |-> Idle]
    /\ answer = [w \in Worker |-> {}]
    /\ calls = [w \in Worker |-> 0]
    /\ faults = 0

Op(w) == job[w].req.op
At(w, op, l) == Op(w) = op /\ job[w].at = l

\* A worker makes a call.  A call by ID has one that was given out, and that
\* may be the ID of a group which is gone.
Ids(op) == IF op \in DOMAIN ById THEN {g.id : g \in {h \in groups : h.kind = ById[op]}} ELSE {0}
Start(w) ==
    /\ job[w] = Idle /\ calls[w] < MaxCalls
    /\ \E q \in scenario.requests[w] : \E id \in Ids(q.op) :
         job' = [job EXCEPT ![w] = [Idle EXCEPT !.req = q, !.at = "start", !.id = id]]
    /\ calls' = [calls EXCEPT ![w] = @ + 1]
    /\ UNCHANGED <<array, cgs, answer, scenario, faults>>

\* The call goes on; it is answered with success; it fails, and the worker
\* makes it again, with the ID the request came with.
Goto(w, l) == job' = [job EXCEPT ![w].at = l]
Found(w, l, id) == job' = [job EXCEPT ![w].at = l, ![w].id = id]
Answer(w) == job' = [job EXCEPT ![w] = Idle]
Again(w) == [Idle EXCEPT !.req = job[w].req, !.at = "start",
                         !.id = IF Op(w) \in DOMAIN ById THEN job[w].id ELSE 0]
Error(w) == job' = [job EXCEPT ![w] = Again(w)]

\* A call that was refused may be given up, but for a change of roles and for
\* the deletion of a group.
GiveUp(w) ==
    /\ job[w].at = "start" /\ Op(w) \notin {"promote", "demote", "resync", "deleteGroup"}
    /\ Answer(w)
    /\ UNCHANGED <<array, cgs, rest, faults>>

\* The driver restarts in the middle of a call.
Crash(w) ==
    /\ job[w].at \notin {"idle", "start"}
    /\ Fault("crash")
    /\ Error(w)
    /\ UNCHANGED <<array, cgs, rest>>

\* A call that reads: what, if the answer comes; an error otherwise.
Read(call, w, o, what) ==
    /\ Charge(call, o)
    /\ IF Ok(o) THEN what ELSE Error(w)
    /\ UNCHANGED <<array, cgs, rest>>

\* The call of worker w is answered with success in this step (or given up).
Answered(w, op) == Op(w) = op /\ job'[w] = Idle

\* No other worker makes calls.
Alone(w) == \A v \in Worker : v # w => scenario.requests[v] = {}
=============================================================================
