------------------------------ MODULE MCAddons ------------------------------
(***************************************************************************)
(* Instances of Addons.  For replication: two arrays, with a replicated     *)
(* volume that both clusters act on, a volume one cluster enables and       *)
(* disables as well, and set-ups in which the link or the secret is         *)
(* missing.  For groups: two handlers on one array with three volumes, the  *)
(* ID of the first part of that of the last, which is a clone of the second. *)
(***************************************************************************)
EXTENDS Addons

CONSTANTS a, b, v1, v2, v3

MCPeer == [w \in Worker |-> IF w = a THEN b ELSE a]
MCWithin == {<<v1, v3>>}
MCRoot == [v \in Volume |-> IF v = v3 THEN v2 ELSE v]

Calls(ops) == {[op |-> o] : o \in ops}
CreateGroup(name, vols) == [op |-> "createGroup", name |-> name, vols |-> vols]
Modify(vols) == [op |-> "modify", vols |-> vols]
Snap(name, vols) == [op |-> "snap", name |-> name, cg |-> "cg", vols |-> vols]
GetSnap(vols) == [op |-> "getSnap", snaps |-> vols]
Replicate(v, cg, complete) == [op |-> "replicate", vol |-> v, cg |-> cg, complete |-> complete]

Both(qs) == [w \in Worker |-> qs]
OnlyA(qs) == [w \in Worker |-> IF w = a THEN qs ELSE {}]
Two(p, q) == [w \in Worker |-> IF w = a THEN p ELSE q]

Swap == {"promote", "demote", "disable"}
Failover == [requests |-> Both(Calls({"promote", "demote"})), source |-> a, on |-> Worker,
             linkUp |-> TRUE, linkNamed |-> TRUE, secret |-> TRUE]
ReplicationScenarios ==
    {Failover,
     [Failover EXCEPT !.requests = Both(Calls(Swap))],
     [Failover EXCEPT !.requests = Both(Calls({"promote", "enable"}))],
     [Failover EXCEPT !.requests = OnlyA(Calls(ReplicationOp)), !.source = None, !.on = {a}],
     [Failover EXCEPT !.requests = OnlyA(Calls(ReplicationOp)), !.source = None, !.on = {a}, !.linkUp = FALSE],
     [Failover EXCEPT !.requests = Both(Calls(Swap)), !.secret = FALSE],
     [Failover EXCEPT !.requests = Both(Calls({"promote"})), !.linkNamed = FALSE]}

Grouping == [Failover EXCEPT !.source = None, !.on = {}]
Resize == {CreateGroup("cg", <<v1, v2>>), Modify(<<v2, v3>>), Modify(<<>>)}
GroupScenarios ==
    {[Grouping EXCEPT !.requests = OnlyA(Resize \cup Calls({"deleteGroup", "getGroup"}))],
     [Grouping EXCEPT !.requests = Two(Resize, Calls({"deleteGroup"}))],
     [Grouping EXCEPT !.requests = OnlyA({Snap("s1", <<v1, v2>>), GetSnap({v1, v2}), GetSnap({v1})}
                                               \cup Calls({"deleteSnap"}))],
     [Grouping EXCEPT !.requests = Two({Snap("s1", <<v1, v2>>)}, {Modify(<<v2, v3>>)})],
     [Grouping EXCEPT !.requests = Two({Snap("s1", <<v1, v2>>)}, {Snap("s2", <<v1, v2>>)})],
     [Grouping EXCEPT !.requests = Two({Snap("s1", <<v1, v3>>)}, {CreateGroup("cg", <<v2, v3>>)} \cup Calls({"deleteGroup"}))],
     [Grouping EXCEPT !.requests = Two({Replicate(v1, "cg", TRUE), Replicate(v2, None, TRUE)},
                                       {CreateGroup("cg", <<v3>>)})],
     [Grouping EXCEPT !.requests = OnlyA({Replicate(v1, None, FALSE)})]}

MCScenarios == ReplicationScenarios \cup GroupScenarios
MCRequest == UNION {s.requests[w] : s \in MCScenarios, w \in Worker}

MCFailing ==
    {"crash", "GetVolume", "GetReplicas", "GetReplica", "GetSecret", "CreateReplica", "DeleteReplica",
     "GetGroup", "GetGroupByName", "GetMembers", "GetLinks", "CreateGroup", "AddMember", "RemoveMember",
     "DeleteGroup", "CreateSnapshot", "CreateResource"}
=============================================================================
