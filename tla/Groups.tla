------------------------------- MODULE Groups -------------------------------
(***************************************************************************)
(* The group services: the volume groups of csi-addons, the group snapshots *)
(* of CSI, both consistency groups (CGs) of the array, and the custom       *)
(* resource that CreateVolume makes when its StorageClass asks for a        *)
(* replica.  The handlers hold no lock: any number of them run at once.     *)
(***************************************************************************)
EXTENDS Handler, Functions

CONSTANTS
    Root,       \* the first volume of a volume's family: its own, but for a clone
    Within,     \* <<v, u>>: the digits of v's ID are in those of u's
    Looks       \* bound on the looks for a group (10 in the code)

ASSUME RootAssumption == Root \in [Volume -> Volume]
ASSUME LooksAssumption == Looks \in Nat
ASSUME SnapAssumption == \A q \in Request : q.op = "snap" => q.vols \in Seq(Volume)

----------------------------------------------------------------------------
(* The array's groups.  Names are unique; a volume is in one CG at most.  A *)
(* group that is deleted keeps its record, for the IDs of stale requests.   *)

Live == {g \in groups : g.live}
LiveId(id) == {g \in Live : g.id = id}
Named(name) == {g \in Live : g.name = name}
InGroup(v) == \E g \in Live : g.kind = "cg" /\ v \in g.members

PostGroup(name, kind, members) ==
    /\ lastGroup' = lastGroup + 1
    /\ groups' = groups \cup {[id |-> lastGroup + 1, name |-> name, kind |-> kind, members |-> members, live |-> TRUE]}
    /\ UNCHANGED <<volumes, resources>>

SetMembers(id, members) ==
    /\ groups' = {IF g.id = id THEN [g EXCEPT !.members = members] ELSE g : g \in groups}
    /\ UNCHANGED <<lastGroup, volumes, resources>>

\* The members go with the group: volumes with a CG, snapshots with theirs.
DropGroup(id) ==
    /\ groups' = {IF g.id = id THEN [g EXCEPT !.live = FALSE] ELSE g : g \in groups}
    /\ volumes' = volumes \ UNION {g.members : g \in {h \in LiveId(id) : h.kind = "cg"}}
    /\ UNCHANGED <<lastGroup, resources>>

\* A call that changes a group.  The array refuses it, or the handler goes no
\* further, unless it can be done; next says how to go on.
Change(call, w, o, can, effect, next) ==
    /\ IF can
       THEN /\ Charge(call, o)
            /\ IF Done(o) THEN effect ELSE UNCHANGED cgs
            /\ IF Ok(o) THEN next ELSE Error(w)
       ELSE o = "ok" /\ Error(w) /\ UNCHANGED <<cgs, faults>>
    /\ UNCHANGED <<array, rest>>

Create(w, o, name, label) ==
    Change("CreateGroup", w, o, Named(name) = {}, PostGroup(name, "cg", {}),
           job' = [job EXCEPT ![w].at = label, ![w].id = lastGroup + 1, ![w].add = DOMAIN job[w].req.vols])

\* The next volume of the request joins the group; a volume leaves it.
CanAdd(id, v) == v \in volumes /\ ~InGroup(v) /\ LiveId(id) # {}
AddMember(w, o) ==
    LET id == job[w].id
    IN  \E i \in job[w].add :
          LET v == job[w].req.vols[i]
          IN  /\ \A k \in job[w].add : i <= k
              /\ Change("AddMember", w, o, CanAdd(id, v),
                        \E g \in LiveId(id) : SetMembers(id, g.members \cup {v}),
                        job' = [job EXCEPT ![w].add = @ \ {i}])

RemoveMember(w, o) ==
    LET id == job[w].id
    IN  \E v \in job[w].remove :
          Change("RemoveMember", w, o, \E g \in LiveId(id) : v \in g.members,
                 \E g \in LiveId(id) : SetMembers(id, g.members \ {v}),
                 job' = [job EXCEPT ![w].remove = @ \ {v}])

DeleteGroup(w, o) ==
    Change("DeleteGroup", w, o, LiveId(job[w].id) # {}, DropGroup(job[w].id), Answer(w))

\* A lookup by name takes an error answer of the array for "not found".
LookOutcome == {"ok", "fail", "refused"}
Look(w, o, name, found, missing) ==
    /\ Charge("GetGroupByName", o)
    /\ CASE o = "fail" -> Error(w)
         [] o = "refused" \/ Named(name) = {} -> missing
         [] OTHER -> found
    /\ UNCHANGED <<array, cgs, rest>>

----------------------------------------------------------------------------
(* The volume groups of csi-addons *)

\* The group is made, then its volumes are added one by one; nothing is undone
\* when one of them fails.
CreateVolumeGroup(w, o) == At(w, "createGroup", "start") /\ Create(w, o, job[w].req.name, "add")

CreateAdd(w, o) == At(w, "createGroup", "add") /\ AddMember(w, o)

CreateDone(w) ==
    /\ At(w, "createGroup", "add") /\ job[w].add = {}
    /\ Answer(w)
    /\ UNCHANGED <<array, cgs, rest, faults>>

\* Any error of the lookup is success.
GetOrError(w, o) == Read("GetGroup", w, o, IF LiveId(job[w].id) = {} THEN Error(w) ELSE Goto(w, "delete"))
GetOrSuccess(w, o) ==
    /\ Charge("GetGroup", o)
    /\ IF Ok(o) /\ LiveId(job[w].id) # {} THEN Goto(w, "delete") ELSE Answer(w)
    /\ UNCHANGED <<array, cgs, rest>>

DeleteVolumeGroup(w, o) == At(w, "deleteGroup", "start") /\ GetOrSuccess(w, o)

DeleteConfirmed(w, o) == At(w, "deleteGroup", "delete") /\ DeleteGroup(w, o)

\* The members are read once; what is to be added and removed follows from it.
\* A request without volumes has its answer without a second look.
volumesToAdd(vols, members) == {i \in DOMAIN vols : vols[i] \notin members}
volumesKept(vols, members) == {}
volumesToRemove(vols, members) == members \ Range(vols)

ModifyVolumeGroupMembership(w, o) ==
    /\ At(w, "modify", "start")
    /\ Read("GetGroup", w, o,
            IF LiveId(job[w].id) = {} THEN Error(w)
            ELSE \E g \in LiveId(job[w].id) :
                   LET vols == job[w].req.vols
                   IN  job' = [job EXCEPT ![w].at = IF vols = <<>> /\ g.members # {} THEN "clear" ELSE "change",
                                          ![w].add = volumesToAdd(vols, g.members),
                                          ![w].remove = volumesToRemove(vols, g.members)])

ModifyAdd(w, o) == At(w, "modify", "change") /\ AddMember(w, o)

\* Volumes are removed when all were added.  (A volume that is gone is in no
\* group, so that its lookup and its removal fail alike.)
ModifyRemove(w, o) ==
    /\ At(w, "modify", "change") \/ At(w, "modify", "clear")
    /\ job[w].add = {}
    /\ RemoveMember(w, o)

ModifyDone(w, o) ==
    /\ job[w].add = {} /\ job[w].remove = {}
    /\ \/ /\ At(w, "modify", "change")
          /\ Read("GetMembers", w, o, IF LiveId(job[w].id) = {} THEN Error(w) ELSE Answer(w))
       \/ /\ At(w, "modify", "clear") /\ o = "ok"
          /\ Answer(w)
          /\ UNCHANGED <<array, cgs, rest, faults>>

ControllerGetVolumeGroup(w, o) ==
    /\ At(w, "getGroup", "start")
    /\ Read("GetGroup", w, o, IF LiveId(job[w].id) = {} THEN Error(w) ELSE Answer(w))

----------------------------------------------------------------------------
(* The group snapshots of CSI *)

\* The CG the class names is taken as it is, or made.
CreateVolumeGroupSnapshot(w, o) ==
    /\ At(w, "snap", "start")
    /\ Look(w, o, job[w].req.cg, \E g \in Named(job[w].req.cg) : Found(w, "name", g.id), Goto(w, "volumes"))

createCG(w, o) ==
    /\ At(w, "snap", "volumes")
    /\ Read("GetVolume", w, o, IF Range(job[w].req.vols) \subseteq volumes THEN Goto(w, "create") ELSE Error(w))

CreateCGPost(w, o) == At(w, "snap", "create") /\ Create(w, o, job[w].req.cg, "add")

CreateCGAdd(w, o) == At(w, "snap", "add") /\ AddMember(w, o)

CreateCGDone(w) ==
    /\ At(w, "snap", "add") /\ job[w].add = {}
    /\ Goto(w, "name")
    /\ UNCHANGED <<array, cgs, rest, faults>>

\* A snapshot group of the name is refused, whoever made it.
SnapshotName(w, o) ==
    /\ At(w, "snap", "name")
    /\ Look(w, o, job[w].req.name, Error(w), Goto(w, "snapshot"))

CreateSnapshotGroup(w, o) ==
    LET from == LiveId(job[w].id)
        name == job[w].req.name
    IN  /\ At(w, "snap", "snapshot")
        /\ Change("CreateSnapshot", w, o, from # {} /\ Named(name) = {},
                  \E g \in from : PostGroup(name, "snap", g.members),
                  Found(w, "members", lastGroup + 1))

\* The source of a snapshot is the last volume of the request whose ID has the
\* digits of the member's family ID in it, which for a clone is the ID of the
\* first volume of the family.  A member without a source is an error.
MatchesProtocol(vols, v) == DOMAIN vols
Matches(vols, v) ==
    LET r == Root[v]
    IN  {i \in DOMAIN vols : <<r, vols[i]>> \in Within \/ r = vols[i]}
SourceVolume(vols, v) == vols[CHOOSE i \in Matches(vols, v) : \A k \in Matches(vols, v) : k <= i]
Sourced(vols, members) == \A v \in members : Matches(vols, v) # {}

SnapshotAnswer(w, o) ==
    LET vols == job[w].req.vols
    IN  /\ At(w, "snap", "members")
        /\ Charge("GetMembers", o)
        /\ IF Ok(o) /\ \E g \in LiveId(job[w].id) : Sourced(vols, g.members)
           THEN /\ \E g \in LiveId(job[w].id) :
                     answer' = [answer EXCEPT ![w] = {[of |-> v, source |-> SourceVolume(vols, v)] : v \in g.members}]
                /\ Answer(w)
           ELSE Error(w) /\ UNCHANGED answer
        /\ UNCHANGED <<array, cgs, calls, scenario>>

\* A snapshot group that is gone is an error.
DeleteVolumeGroupSnapshot(w, o) == At(w, "deleteSnap", "start") /\ DeleteGroup(w, o)

\* The request lists the IDs of snapshots, here by the volumes they are of.  A
\* member of the group that is not in the list is an error.
Listed(w) == \E g \in LiveId(job[w].id) : g.members \subseteq job[w].req.snaps
GetVolumeGroupSnapshot(w, o) ==
    /\ At(w, "getSnap", "start")
    /\ Read("GetMembers", w, o, IF Listed(w) THEN Answer(w) ELSE Error(w))

----------------------------------------------------------------------------
(* The replica a StorageClass asks for *)

verifyLinkExists == scenario.linkNamed
handleCreatePVC(q) == q.complete

\* The last part of CreateVolume: the parameters, the link and the secrets are
\* looked at; the CG is looked for a number of times; then the resource is made.
handleSCReplica(w, o) ==
    /\ At(w, "replicate", "start")
    /\ Read("GetLinks", w, o,
            IF verifyLinkExists /\ scenario.secret /\ handleCreatePVC(job[w].req)
            THEN Goto(w, IF job[w].req.cg = None THEN "resource" ELSE "look") ELSE Error(w))

verifyCGExists(w, o) ==
    LET missing == IF job[w].id + 1 < Looks THEN Found(w, "look", job[w].id + 1) ELSE Error(w)
    IN  /\ At(w, "replicate", "look")
        /\ \/ o = "ok" /\ Look(w, o, job[w].req.cg, Goto(w, "resource"), missing)
           \/ o = "fail" /\ Charge("GetGroupByName", o) /\ missing /\ UNCHANGED <<array, cgs, rest>>

CreateResource(w, o) ==
    /\ At(w, "replicate", "resource")
    /\ Change("CreateResource", w, o, job[w].req.vol \notin resources,
              resources' = resources \cup {job[w].req.vol} /\ UNCHANGED <<groups, lastGroup, volumes>>, Answer(w))

----------------------------------------------------------------------------
GroupStep(w) ==
    \/ \E o \in ReadOutcome :
         \/ DeleteVolumeGroup(w, o) \/ ModifyVolumeGroupMembership(w, o) \/ ModifyDone(w, o)
         \/ ControllerGetVolumeGroup(w, o) \/ createCG(w, o) \/ SnapshotAnswer(w, o)
         \/ GetVolumeGroupSnapshot(w, o) \/ handleSCReplica(w, o) \/ verifyCGExists(w, o)
    \/ \E o \in LookOutcome : CreateVolumeGroupSnapshot(w, o) \/ SnapshotName(w, o)
    \/ \E o \in Outcome :
         \/ CreateVolumeGroup(w, o) \/ CreateAdd(w, o) \/ DeleteConfirmed(w, o)
         \/ ModifyAdd(w, o) \/ ModifyRemove(w, o)
         \/ CreateCGPost(w, o) \/ CreateCGAdd(w, o) \/ CreateSnapshotGroup(w, o)
         \/ DeleteVolumeGroupSnapshot(w, o) \/ CreateResource(w, o)
    \/ CreateDone(w) \/ CreateCGDone(w)

----------------------------------------------------------------------------
(* Properties *)

\* When nobody else makes calls, a CreateVolumeGroup or a
\* ModifyVolumeGroupMembership that answers with success leaves the group with
\* just the volumes of the request, whatever part of it had been done by calls
\* before that failed or whose answers were lost.
MembershipReached ==
    [][\A w \in Worker :
         Alone(w) /\ job[w].at \in {"add", "change", "clear"} /\ (Answered(w, "createGroup") \/ Answered(w, "modify")) =>
            \E g \in Live' : g.id = job[w].id /\ g.members = Range(job[w].req.vols)]_vars

\* A snapshot CreateVolumeGroupSnapshot answers with names its own source, which
\* is a volume of the request, also when the CG was there before and another
\* call changes its members; unless the ID of the source is part of the ID of
\* another volume of the request.  This is so of volumes that are the first of
\* their family only: the snapshot of a clone names the first volume of the
\* family where the request has that one.
SnapshotSources ==
    [][\A w \in Worker :
         LET vols == job[w].req.vols
         IN  Answered(w, "snap") /\ job[w].at = "members" =>
               \A s \in answer'[w] :
                 Root[s.of] = s.of /\ (\A u \in Range(vols) : <<s.of, u>> \notin Within) =>
                    s.of \in Range(vols) /\ s.source = s.of]_vars

\* The deletion of a group that is empty, or that is gone, is answered with
\* success in the end, whatever fails, is lost or is deleted by another call on
\* the way.  (A group with volumes is deleted as well, and its volumes with it,
\* where the comment on DeleteVolumeGroup promises FAILED_PRECONDITION; so
\* nothing is said of it here.)
GroupDeletionEnds ==
    <>[](\A w \in Worker : Op(w) = "deleteGroup" => \E g \in LiveId(job[w].id) : g.members # {})
=============================================================================
