---------------------------- MODULE AddonsProofs ----------------------------
(***************************************************************************)
(* Proofs about replication and groups, for any number of arrays, clusters  *)
(* and handlers, any requests, faults and scenarios.                        *)
(*                                                                         *)
(* OneReplica is not inductive: a promotion that has deleted the replica    *)
(* creates one whatever it finds.  It holds because the right to create is  *)
(* a token: it is with the replica itself, or with the one promotion or     *)
(* demotion whose DeleteReplica was accepted, or with an                    *)
(* EnableVolumeReplication that found no replica and has no competitor.     *)
(*                                                                         *)
(* MembershipReached: midway through its changes, the members of the group  *)
(* less those to be removed and with those to be added are the volumes of   *)
(* the request.                                                             *)
(***************************************************************************)
EXTENDS Addons, TLAPS

\* An EnableVolumeReplication that found no replica, and who has the token.
Enabling(x) == At(x, "enable", "create")
Holds(x) == Swapping(x) \/ Enabling(x)

\* What a call under way is: a request of the scenario, or none.
Fields == {"req", "at", "id", "add", "remove"}
Shape ==
    /\ DOMAIN job = Worker
    /\ \A x \in Worker : Fields \subseteq DOMAIN job[x]
    /\ \A x \in Worker : job[x].req = NoRequest \/ job[x].req \in scenario.requests[x]

\* The right to create a replica is in one place at most, and a cluster that
\* may enable replication sees the replica there is.
Token ==
    /\ \A r, s \in replicas : r = s
    /\ \A x \in Worker : Holds(x) => replicas = {}
    /\ \A x, y \in Worker : Holds(x) /\ Holds(y) => x = y
    /\ \A r \in replicas, x \in Worker : Enables(x) => x \in {r.src, r.dst}

IInv == Shape /\ (NoRace => Token)

----------------------------------------------------------------------------
(* How a step changes the job of its worker *)

Moves(w) ==
    /\ DOMAIN job' = Worker
    /\ \A x \in Worker : x # w => job'[x] = job[x]
    /\ Fields \subseteq DOMAIN job'[w]
    /\ job'[w] = Idle \/ job'[w].req = job[w].req
    /\ UNCHANGED scenario

Goes(w, l) == Moves(w) /\ job'[w].req = job[w].req /\ job'[w].at = l
Ends(w) == Moves(w) /\ job'[w] = Idle

\* The job of w after Goto, Found, Answer and Error.
LEMMA JobSteps ==
    ASSUME Shape, NEW w \in Worker, NEW l, NEW id, UNCHANGED scenario
    PROVE  /\ Goto(w, l) => Goes(w, l)
           /\ Found(w, l, id) => Goes(w, l)
           /\ Answer(w) => Ends(w)
           /\ Error(w) => Goes(w, "start")
<1>1. Goto(w, l) => Goes(w, l)
  BY DEF Goto, Shape, Goes, Moves
<1>2. Found(w, l, id) => Goes(w, l)
  BY DEF Found, Shape, Goes, Moves
<1>3. Answer(w) => Ends(w)
  BY Zenon DEF Answer, Shape, Ends, Moves, Idle, Fields
<1>4. Error(w) => Goes(w, "start")
  BY DEF Error, Again, Idle, Shape, Goes, Moves, Fields
<1> QED
  BY <1>1, <1>2, <1>3, <1>4, Zenon

\* The record of a worker without a call.
LEMMA IdleFacts == Idle.at = "idle" /\ Idle.req = NoRequest /\ NoRequest.op = "none"
BY Zenon DEF Idle, NoRequest

\* Where the job of w is after Goto, Found, Answer and Error.
LEMMA AtAfter ==
    ASSUME Shape, NEW w \in Worker
    PROVE  /\ Error(w) => job'[w].at = "start"
           /\ Answer(w) => job'[w].at = "idle"
           /\ \A l : Goto(w, l) => job'[w].at = l
           /\ \A l, id : Found(w, l, id) => job'[w].at = l
<1>1. DOMAIN job = Worker /\ "at" \in DOMAIN job[w]
  BY Zenon DEF Shape, Fields
<1>2. Again(w).at = "start"
  BY Zenon DEF Again, Idle
<1>3. Error(w) => job'[w].at = "start"
  BY <1>1, <1>2, Zenon DEF Error
<1>4. Answer(w) => job'[w].at = "idle"
  BY <1>1, IdleFacts, Zenon DEF Answer
<1>5. \A l : Goto(w, l) => job'[w].at = l
  BY <1>1, Zenon DEF Goto
<1>6. \A l, id : Found(w, l, id) => job'[w].at = l
  BY <1>1, Zenon DEF Found
<1> QED
  BY <1>3, <1>4, <1>5, <1>6, Zenon

\* A step of w leaves it with its request or with none.
LEMMA StillAsked ==
    ASSUME NEW w, Moves(w)
    PROVE  Op(w)' = Op(w) \/ (Op(w)' = "none" /\ job'[w].at = "idle")
BY IdleFacts, Zenon DEF Moves, Op

\* A job that ended has no request; such a worker holds nothing.
LEMMA EndsHoldsNot ==
    ASSUME NEW w \in Worker, Ends(w)
    PROVE  ~Holds(w)'
BY DEF Ends, Holds, Swapping, Enabling, At, Op, Idle, NoRequest

----------------------------------------------------------------------------
(* The four ways of the token *)

\* No worker gets the token, and no replica is made.
LEMMA Harmless ==
    ASSUME IInv, NEW w \in Worker, Moves(w), ~Holds(w)', replicas' \subseteq replicas
    PROVE  IInv'
<1>1. Shape'
  BY DEF IInv, Shape, Moves, Idle
<1>2. NoRace' => NoRace
  BY Zenon DEF NoRace, Alone, Enables, Moves
<1>3. \A x \in Worker : Holds(x)' => Holds(x)
  BY Zenon DEF Moves, Holds, Swapping, Enabling, At, Op
<1>4. \A x \in Worker : Enables(x)' => Enables(x)
  BY Zenon DEF Moves, Enables
<1>5. Token => Token'
  BY <1>3, <1>4, Zenon DEF Token
<1> QED
  BY <1>1, <1>2, <1>5, Zenon DEF IInv

\* Worker w has the token and keeps it.
LEMMA Keeps ==
    ASSUME IInv, NEW w \in Worker, Moves(w), Holds(w), UNCHANGED replicas
    PROVE  IInv'
<1>1. Shape'
  BY DEF IInv, Shape, Moves, Idle
<1>2. NoRace' => NoRace
  BY Zenon DEF NoRace, Alone, Enables, Moves
<1>3. \A x \in Worker : Holds(x)' => Holds(x)
  BY Zenon DEF Moves, Holds, Swapping, Enabling, At, Op
<1>4. \A x \in Worker : Enables(x)' => Enables(x)
  BY Zenon DEF Moves, Enables
<1>5. Token => Token'
  BY <1>3, <1>4, Zenon DEF Token
<1> QED
  BY <1>1, <1>2, <1>5, Zenon DEF IInv

\* Worker w takes the token: it deleted the replica, or nobody else is there.
LEMMA Takes ==
    ASSUME IInv, NEW w \in Worker, Moves(w), replicas' = {},
           NoRace /\ Token => \A x \in Worker : x # w => ~Holds(x)
    PROVE  IInv'
<1>1. Shape'
  BY DEF IInv, Shape, Moves, Idle
<1>2. NoRace' => NoRace
  BY Zenon DEF NoRace, Alone, Enables, Moves
<1>3. \A x \in Worker : x # w /\ Holds(x)' => Holds(x)
  BY Zenon DEF Moves, Holds, Swapping, Enabling, At, Op
<1>4. NoRace /\ Token => Token'
  BY <1>3, Zenon DEF Token
<1> QED
  BY <1>1, <1>2, <1>4, Zenon DEF IInv

\* Worker w uses the token up: the replica that is made is its own.
LEMMA Uses ==
    ASSUME IInv, NEW w \in Worker, Moves(w), Holds(w), ~Holds(w)',
           NEW r, w \in {r.src, r.dst}, replicas' = replicas \cup {r}
    PROVE  IInv'
<1>1. Shape'
  BY DEF IInv, Shape, Moves, Idle
<1>2. NoRace' => NoRace
  BY Zenon DEF NoRace, Alone, Enables, Moves
<1>3. \A x \in Worker : x # w /\ Holds(x)' => Holds(x)
  BY Zenon DEF Moves, Holds, Swapping, Enabling, At, Op
<1>4. job[w].req # NoRequest
  BY DEF Holds, Swapping, Enabling, At, Op, NoRequest
<1>5. NoRace => \A x \in Worker : Enables(x)' => x = w
  BY <1>4, Zenon DEF IInv, Shape, NoRace, Alone, Enables, Moves
<1>6. Token => replicas' = {r} /\ \A x \in Worker : ~Holds(x)'
  BY <1>3, Zenon DEF Token
<1>7. NoRace /\ Token => Token'
  BY <1>5, <1>6, Zenon DEF Token
<1> QED
  BY <1>1, <1>2, <1>7, Zenon DEF IInv

----------------------------------------------------------------------------
(* The steps of the replication service *)

\* A job at another place than these has not got the token.
LEMMA ElsewhereHoldsNot ==
    ASSUME NEW w \in Worker, NEW l, Goes(w, l),
           Op(w) = "enable" => l # "create",
           Op(w) \in {"promote", "demote"} => l \notin {"remote", "create"}
    PROVE  ~Holds(w)'
BY Zenon DEF Goes, Holds, Swapping, Enabling, At, Op

\* Goes to a place without the token, or ends, with no replica made.
LEMMA GoesSafely ==
    ASSUME IInv, NEW w \in Worker, NEW l,
           Op(w) = "enable" => l # "create",
           Op(w) \in {"promote", "demote"} => l \notin {"remote", "create"},
           Goes(w, l) \/ Goes(w, "start") \/ Ends(w), replicas' \subseteq replicas
    PROVE  IInv'
<1>1. ~Holds(w)'
  <2>1. CASE Goes(w, l)
    BY <2>1, ElsewhereHoldsNot, Zenon
  <2>2. CASE Goes(w, "start")
    <3>1. "start" \notin {"remote", "create"}
      BY Zenon
    <3> QED
      BY <2>2, <3>1, ElsewhereHoldsNot, Zenon
  <2>3. CASE Ends(w)
    BY <2>3, EndsHoldsNot, Zenon
  <2> QED
    BY <2>1, <2>2, <2>3, Zenon
<1>2. Moves(w)
  BY Zenon DEF Goes, Ends
<1> QED
  BY <1>1, <1>2, Harmless, Zenon

\* The steps that only read.
LEMMA ReadSteps ==
    ASSUME IInv, NEW w \in Worker, NEW o \in ReadOutcome,
           \/ EnableVolume(w, o) \/ DisableVolume(w, o)
           \/ PromoteVolume(w, o) \/ PromoteLink(w, o) \/ PromoteSource(w, o)
           \/ DemoteVolume(w, o) \/ DemoteLink(w, o) \/ GetVolumeReplicationInfo(w, o)
           \/ ResyncVolume(w)
    PROVE  IInv'
<1> USE DEF IInv
<1>1. CASE EnableVolume(w, o)
  <2>1. UNCHANGED <<replicas, scenario>> /\ (Goto(w, "list") \/ Error(w))
    BY <1>1, Zenon DEF EnableVolume, Read, array, rest
  <2>2. Goes(w, "list") \/ Goes(w, "start")
    BY <2>1, JobSteps, Zenon
  <2>3. Op(w) = "enable"
    BY <1>1, Zenon DEF EnableVolume, At
  <2> QED
    BY <2>1, <2>2, <2>3, GoesSafely, Zenon
<1>2. CASE DisableVolume(w, o)
  <2>1. UNCHANGED <<replicas, scenario>> /\ ((\E id : Found(w, "delete", id)) \/ Error(w))
    BY <1>2, Zenon DEF DisableVolume, Read, array, rest
  <2>2. Goes(w, "delete") \/ Goes(w, "start")
    BY <2>1, JobSteps, Zenon
  <2>3. Op(w) = "disable"
    BY <1>2, Zenon DEF DisableVolume, At
  <2> QED
    BY <2>1, <2>2, <2>3, GoesSafely, Zenon
<1>3. CASE PromoteVolume(w, o)
  <2>1. UNCHANGED <<replicas, scenario>> /\ (Goto(w, "link") \/ Answer(w) \/ Error(w))
    BY <1>3, Zenon DEF PromoteVolume, Read, NotReplicated, array, rest
  <2>2. Goes(w, "link") \/ Goes(w, "start") \/ Ends(w)
    BY <2>1, JobSteps, Zenon
  <2>3. Op(w) = "promote"
    BY <1>3, Zenon DEF PromoteVolume, At
  <2> QED
    BY <2>1, <2>2, <2>3, GoesSafely, Zenon
<1>4. CASE PromoteLink(w, o)
  <2>1. UNCHANGED <<replicas, scenario>> /\ (Goto(w, "source") \/ Error(w))
    BY <1>4, Zenon DEF PromoteLink, Read, array, rest
  <2>2. Goes(w, "source") \/ Goes(w, "start")
    BY <2>1, JobSteps, Zenon
  <2>3. Op(w) = "promote"
    BY <1>4, Zenon DEF PromoteLink, At
  <2> QED
    BY <2>1, <2>2, <2>3, GoesSafely, Zenon
<1>5. CASE PromoteSource(w, o)
  <2>1. UNCHANGED <<replicas, scenario>> /\ ((\E id : Found(w, "delete", id)) \/ Error(w))
    BY <1>5, Zenon DEF PromoteSource, Read, array, rest
  <2>2. Goes(w, "delete") \/ Goes(w, "start")
    BY <2>1, JobSteps, Zenon
  <2>3. Op(w) = "promote"
    BY <1>5, Zenon DEF PromoteSource, At
  <2> QED
    BY <2>1, <2>2, <2>3, GoesSafely, Zenon
<1>6. CASE DemoteVolume(w, o)
  <2>1. UNCHANGED <<replicas, scenario>> /\ ((\E id : Found(w, "link", id)) \/ Answer(w) \/ Error(w))
    BY <1>6, Zenon DEF DemoteVolume, Read, array, rest
  <2>2. Goes(w, "link") \/ Goes(w, "start") \/ Ends(w)
    BY <2>1, JobSteps, Zenon
  <2>3. Op(w) = "demote"
    BY <1>6, Zenon DEF DemoteVolume, At
  <2> QED
    BY <2>1, <2>2, <2>3, GoesSafely, Zenon
<1>7. CASE DemoteLink(w, o)
  <2>1. UNCHANGED <<replicas, scenario>> /\ (Goto(w, "delete") \/ Error(w))
    BY <1>7, Zenon DEF DemoteLink, Read, array, rest
  <2>2. Goes(w, "delete") \/ Goes(w, "start")
    BY <2>1, JobSteps, Zenon
  <2>3. Op(w) = "demote"
    BY <1>7, Zenon DEF DemoteLink, At
  <2> QED
    BY <2>1, <2>2, <2>3, GoesSafely, Zenon
<1>8. CASE GetVolumeReplicationInfo(w, o)
  <2>1. UNCHANGED <<replicas, scenario>> /\ (Answer(w) \/ Error(w))
    BY <1>8, Zenon DEF GetVolumeReplicationInfo, Read, array, rest
  <2>2. Goes(w, "start") \/ Ends(w)
    BY <2>1, JobSteps, Zenon
  <2>3. Op(w) = "info"
    BY <1>8, Zenon DEF GetVolumeReplicationInfo, At
  <2> QED
    BY <2>1, <2>2, <2>3, GoesSafely, Zenon
<1>9. CASE ResyncVolume(w)
  <2>1. UNCHANGED <<replicas, scenario>> /\ Answer(w)
    BY <1>9, Zenon DEF ResyncVolume, array, rest
  <2>2. Ends(w)
    BY <2>1, JobSteps, Zenon
  <2>3. Op(w) = "resync"
    BY <1>9, Zenon DEF ResyncVolume, At
  <2> QED
    BY <2>1, <2>2, <2>3, GoesSafely, Zenon
<1> QED
  BY <1>1, <1>2, <1>3, <1>4, <1>5, <1>6, <1>7, <1>8, <1>9, Zenon

\* EnableVolumeReplication finds no replica: nobody else may hold the token.
LEMMA EnableListStep ==
    ASSUME IInv, NEW w \in Worker, NEW o \in ReadOutcome, EnableList(w, o)
    PROVE  IInv'
<1>1. Shape /\ Op(w) = "enable" /\ UNCHANGED <<replicas, scenario>>
  BY Zenon DEF IInv, EnableList, At, Read, array, rest
<1>2. CASE Error(w)
  <2>1. Goes(w, "start")
    BY <1>1, <1>2, JobSteps, Zenon
  <2> QED
    BY <1>1, <2>1, GoesSafely, Zenon
<1>3. CASE ~Error(w)
  <2>1. Goto(w, "create") /\ Known(w) = {}
    BY <1>3, Zenon DEF EnableList, Read, Replicated
  <2>2. Goes(w, "create")
    BY <1>1, <2>1, JobSteps, Zenon
  <2>3. Enables(w)
    BY <1>1 DEF Shape, Enables, Op, NoRequest
  <2>4. NoRace /\ Token => replicas = {}
    BY <2>1, <2>3, Zenon DEF Token, Known
  <2>5. NoRace => \A x \in Worker : x # w => ~Holds(x)
    <3>1. NoRace => \A x \in Worker : x # w => job[x].req = NoRequest
      BY <1>1, <2>3, Zenon DEF NoRace, Alone, Shape
    <3> QED
      BY <3>1 DEF Holds, Swapping, Enabling, At, Op, NoRequest
  <2>6. CASE NoRace
    BY <1>1, <2>2, <2>4, <2>5, <2>6, Takes, Zenon DEF IInv, Goes
  <2>7. CASE ~NoRace
    <3>1. Shape'
      BY <1>1, <2>2, Zenon DEF Shape, Goes, Moves, Idle
    <3>2. ~NoRace'
      BY <1>1, <2>7, Zenon DEF NoRace, Alone, Enables
    <3> QED
      BY <3>1, <3>2, Zenon DEF IInv
  <2> QED
    BY <2>6, <2>7, Zenon
<1> QED
  BY <1>2, <1>3, Zenon

\* DeleteReplica: if it is accepted, w has the token.
LEMMA DeleteStep ==
    ASSUME IInv, NEW w \in Worker, NEW o \in Outcome, NEW l, NEW ACTION next,
           Delete(w, o, next),
           next /\ UNCHANGED scenario => Goes(w, l) \/ Ends(w)
    PROVE  IInv'
<1>1. Shape /\ UNCHANGED scenario
  BY Zenon DEF IInv, Delete, rest
<1>2. replicas' \subseteq replicas
  BY Zenon DEF Delete, DropReplica, array
<1>3. CASE Error(w)
  <2>1. Goes(w, "start")
    BY <1>1, <1>3, JobSteps, Zenon
  <2>2. "start" \notin {"remote", "create"}
    BY Zenon
  <2> QED
    BY <1>2, <2>1, <2>2, GoesSafely, Zenon
<1>4. CASE ~Error(w)
  <2>1. next /\ Ok(o) /\ ~Gone(job[w].id)
    BY <1>4, Zenon DEF Delete
  <2>2. DropReplica(job[w].id)
    BY <2>1, Zenon DEF Delete, Ok, Done
  <2>3. Moves(w)
    BY <1>1, <2>1, Zenon DEF Goes, Ends
  <2>4. Token => replicas # {} /\ replicas' = {}
    BY <2>1, <2>2, Zenon DEF Token, Gone, DropReplica
  <2>5. Token => \A x \in Worker : ~Holds(x)
    BY <2>4, Zenon DEF Token
  <2>6. CASE NoRace
    BY <2>3, <2>4, <2>5, <2>6, Takes, Zenon DEF IInv
  <2>7. CASE ~NoRace
    <3>1. Shape'
      BY <1>1, <2>3 DEF Shape, Moves, Idle
    <3>2. ~NoRace'
      BY <1>1, <2>7, Zenon DEF NoRace, Alone, Enables
    <3> QED
      BY <3>1, <3>2, Zenon DEF IInv
  <2> QED
    BY <2>6, <2>7, Zenon
<1> QED
  BY <1>3, <1>4, Zenon

\* CreateReplica by the worker with the token.
LEMMA CreateStep ==
    ASSUME IInv, NEW w \in Worker, NEW o \in Outcome, Holds(w), NEW x \in Worker, NEW y \in Worker, w \in {x, y},
           IF Done(o) THEN PostReplica(x, y) ELSE UNCHANGED array,
           Answer(w) \/ Error(w), UNCHANGED scenario
    PROVE  IInv'
<1>1. Goes(w, "start") \/ Ends(w)
  BY JobSteps, Zenon DEF IInv
<1>2. ~Holds(w)'
  <2>1. "start" \notin {"remote", "create"}
    BY Zenon
  <2> QED
    BY <1>1, <2>1, EndsHoldsNot, ElsewhereHoldsNot, Zenon
<1>3. Moves(w)
  BY <1>1, Zenon DEF Goes, Ends
<1>4. CASE Done(o)
  <2>1. PICK r : r = [id |-> lastId + 1, src |-> x, dst |-> y]
    BY Zenon
  <2>2. replicas' = replicas \cup {r} /\ w \in {r.src, r.dst}
    BY <1>4, <2>1, Zenon DEF PostReplica
  <2> QED
    BY <1>2, <1>3, <2>2, Uses, SMTT(60)
<1>5. CASE ~Done(o)
  <2>1. replicas' \subseteq replicas
    BY <1>5, Zenon DEF array
  <2> QED
    BY <1>2, <1>3, <2>1, Harmless, Zenon
<1> QED
  BY <1>4, <1>5, Zenon

\* Every step of the replication service keeps the invariant.
LEMMA ReplicationSteps ==
    ASSUME IInv, NEW w \in Worker, ReplicationStep(w)
    PROVE  IInv'
<1> USE DEF IInv
<1>1. ASSUME NEW o \in ReadOutcome, EnableList(w, o) PROVE IInv'
  BY <1>1, EnableListStep, Zenon
<1>2. ASSUME NEW o \in ReadOutcome, DemoteRemote(w, o) PROVE IInv'
  <2>1. Op(w) = "demote" /\ job[w].at = "remote" /\ UNCHANGED <<replicas, scenario>>
    BY <1>2, Zenon DEF DemoteRemote, At, Read, array, rest
  <2>2. Goto(w, "create") \/ Error(w)
    BY <1>2, Zenon DEF DemoteRemote, Read
  <2>3. Goes(w, "create") \/ Goes(w, "start")
    BY <2>1, <2>2, JobSteps, Zenon
  <2>4. Moves(w) /\ Holds(w)
    BY <2>1, <2>3, Zenon DEF Goes, Holds, Swapping
  <2> QED
    BY <2>1, <2>4, Keeps, Zenon
<1>3. ASSUME NEW o \in Outcome, EnableCreate(w, o) PROVE IInv'
  <2>1. Holds(w) /\ UNCHANGED scenario /\ (Answer(w) \/ Error(w))
    BY <1>3, Zenon DEF EnableCreate, Holds, Enabling, rest
  <2>2. IF Done(o) THEN PostReplica(w, Peer[w]) ELSE UNCHANGED array
    BY <1>3, Zenon DEF EnableCreate
  <2> QED
    BY <2>1, <2>2, CreateStep, PeerAssumption, Zenon
<1>4. ASSUME NEW o \in Outcome, DisableDelete(w, o) PROVE IInv'
  <2>1. Delete(w, o, Answer(w))
    BY <1>4, Zenon DEF DisableDelete
  <2>2. Answer(w) /\ UNCHANGED scenario => Ends(w)
    BY JobSteps, Zenon
  <2> QED
    BY <2>1, <2>2, DeleteStep
<1>5. ASSUME NEW o \in Outcome, PromoteDelete(w, o) PROVE IInv'
  <2>1. Delete(w, o, Goto(w, "create"))
    BY <1>5, Zenon DEF PromoteDelete
  <2>2. Goto(w, "create") /\ UNCHANGED scenario => Goes(w, "create")
    BY JobSteps, Zenon
  <2> QED
    BY <2>1, <2>2, DeleteStep
<1>6. ASSUME NEW o \in Outcome, DemoteDelete(w, o) PROVE IInv'
  <2>1. Delete(w, o, Goto(w, "remote"))
    BY <1>6, Zenon DEF DemoteDelete
  <2>2. Goto(w, "remote") /\ UNCHANGED scenario => Goes(w, "remote")
    BY JobSteps, Zenon
  <2> QED
    BY <2>1, <2>2, DeleteStep
<1>7. ASSUME NEW o \in Outcome, PromoteCreate(w, o) PROVE IInv'
  <2>1. Holds(w) /\ UNCHANGED scenario
    BY <1>7, Zenon DEF PromoteCreate, Holds, Swapping, At, rest
  <2>2. CASE scenario.linkNamed
    <3>1. Answer(w) \/ Error(w)
      BY <1>7, <2>2, Zenon DEF PromoteCreate
    <3>2. IF Done(o) THEN PostReplica(w, Peer[w]) ELSE UNCHANGED array
      BY <1>7, <2>2, Zenon DEF PromoteCreate
    <3> QED
      BY <2>1, <3>1, <3>2, CreateStep, PeerAssumption, Zenon
  <2>3. CASE ~scenario.linkNamed
    <3>1. Error(w) /\ UNCHANGED replicas
      BY <1>7, <2>3, Zenon DEF PromoteCreate, array
    <3>2. Moves(w)
      BY <2>1, <3>1, JobSteps, Zenon DEF Goes
    <3> QED
      BY <2>1, <3>1, <3>2, Keeps, Zenon
  <2> QED
    BY <2>2, <2>3, Zenon
<1>8. ASSUME NEW o \in Outcome, DemoteCreate(w, o) PROVE IInv'
  <2>1. Holds(w) /\ UNCHANGED scenario /\ (Answer(w) \/ Error(w))
    BY <1>8, Zenon DEF DemoteCreate, Holds, Swapping, At, rest
  <2>2. IF Done(o) THEN PostReplica(Peer[w], w) ELSE UNCHANGED array
    BY <1>8, Zenon DEF DemoteCreate
  <2> QED
    BY <2>1, <2>2, CreateStep, PeerAssumption, Zenon
<1>9. CASE ResyncVolume(w)
  <2>1. "ok" \in ReadOutcome
    BY Zenon DEF ReadOutcome
  <2> QED
    BY <1>9, <2>1, ReadSteps, Zenon
<1> QED
  BY <1>1, <1>2, <1>3, <1>4, <1>5, <1>6, <1>7, <1>8, <1>9, ReadSteps, Zenon DEF ReplicationStep

----------------------------------------------------------------------------
(* The steps of the group services leave the replicas alone *)

\* The calls that make or delete a replica.
Replicating == {"enable", "disable", "promote", "demote"}

\* A step of a call that is not about replication.
LEMMA OtherStep ==
    ASSUME IInv, NEW w \in Worker, Moves(w), UNCHANGED replicas, Op(w) \notin Replicating
    PROVE  IInv'
<1>1. ~Holds(w)'
  BY SMTT(60) DEF Moves, Holds, Swapping, Enabling, At, Op, Idle, NoRequest, Replicating
<1> QED
  BY <1>1, Harmless, Zenon

\* How the steps of the group services go on.
LEMMA GroupMoves ==
    ASSUME Shape, NEW w \in Worker, UNCHANGED scenario, NEW l, NEW id, NEW add, NEW remove
    PROVE  /\ Goto(w, l) \/ Found(w, l, id) \/ Answer(w) \/ Error(w) => Moves(w)
           /\ job' = [job EXCEPT ![w].at = l, ![w].id = id, ![w].add = add] => Moves(w)
           /\ job' = [job EXCEPT ![w].add = add] => Moves(w)
           /\ job' = [job EXCEPT ![w].remove = remove] => Moves(w)
<1>1. Goto(w, l) \/ Found(w, l, id) \/ Answer(w) \/ Error(w) => Moves(w)
  BY JobSteps, Zenon DEF Goes, Ends
<1>2. job' = [job EXCEPT ![w].at = l, ![w].id = id, ![w].add = add] => Moves(w)
  BY DEF Shape, Moves
<1>3. job' = [job EXCEPT ![w].add = add] => Moves(w)
  BY DEF Shape, Moves
<1>4. job' = [job EXCEPT ![w].remove = remove] => Moves(w)
  BY DEF Shape, Moves
<1> QED
  BY <1>1, <1>2, <1>3, <1>4, Zenon

\* The calls that change a group.
LEMMA GroupCalls ==
    ASSUME Shape, NEW w \in Worker, NEW o, NEW l, NEW name,
           Create(w, o, name, l) \/ AddMember(w, o) \/ RemoveMember(w, o) \/ DeleteGroup(w, o)
    PROVE  Moves(w) /\ UNCHANGED replicas
<1>1. CASE Create(w, o, name, l)
  <2>1. UNCHANGED <<replicas, scenario>>
    BY <1>1, Zenon DEF Create, Change, array, rest
  <2>2. job' = [job EXCEPT ![w].at = l, ![w].id = lastGroup + 1, ![w].add = DOMAIN job[w].req.vols] \/ Error(w)
    BY <1>1, Zenon DEF Create, Change
  <2> QED
    BY <2>1, <2>2, GroupMoves, Zenon
<1>2. CASE AddMember(w, o)
  <2>1. UNCHANGED <<replicas, scenario>>
    BY <1>2, Zenon DEF AddMember, Change, array, rest
  <2>2. (\E i : job' = [job EXCEPT ![w].add = job[w].add \ {i}]) \/ Error(w)
    BY <1>2, Zenon DEF AddMember, Change
  <2> QED
    BY <2>1, <2>2, GroupMoves, Zenon
<1>3. CASE RemoveMember(w, o)
  <2>1. UNCHANGED <<replicas, scenario>>
    BY <1>3, Zenon DEF RemoveMember, Change, array, rest
  <2>2. (\E v : job' = [job EXCEPT ![w].remove = job[w].remove \ {v}]) \/ Error(w)
    BY <1>3, Zenon DEF RemoveMember, Change
  <2> QED
    BY <2>1, <2>2, GroupMoves, Zenon
<1>4. CASE DeleteGroup(w, o)
  <2>1. UNCHANGED <<replicas, scenario>> /\ (Answer(w) \/ Error(w))
    BY <1>4, Zenon DEF DeleteGroup, Change, array, rest
  <2> QED
    BY <2>1, GroupMoves, Zenon
<1> QED
  BY <1>1, <1>2, <1>3, <1>4, Zenon

\* What every step of the group services leaves alone.
LEMMA GroupFrame ==
    ASSUME Shape, NEW w \in Worker, GroupStep(w)
    PROVE  Moves(w) /\ UNCHANGED replicas /\ Op(w) \notin Replicating
<1>0. Shape
  BY Zenon
<1> USE DEF Replicating
<1>1. ASSUME NEW o \in Outcome,
             \/ CreateVolumeGroup(w, o) \/ CreateAdd(w, o) \/ DeleteConfirmed(w, o)
             \/ ModifyAdd(w, o) \/ ModifyRemove(w, o)
             \/ CreateCGPost(w, o) \/ CreateCGAdd(w, o) \/ DeleteVolumeGroupSnapshot(w, o)
      PROVE  Moves(w) /\ UNCHANGED replicas /\ Op(w) \notin Replicating
  <2>1. (\E name, l : Create(w, o, name, l)) \/ AddMember(w, o) \/ RemoveMember(w, o) \/ DeleteGroup(w, o)
    BY <1>1, Zenon DEF CreateVolumeGroup, CreateAdd, DeleteConfirmed, ModifyAdd, ModifyRemove, CreateCGPost, CreateCGAdd,
                DeleteVolumeGroupSnapshot
  <2>2. Op(w) \in {"createGroup", "deleteGroup", "modify", "snap", "deleteSnap"}
    BY <1>1, Zenon DEF CreateVolumeGroup, CreateAdd, DeleteConfirmed, ModifyAdd, ModifyRemove, CreateCGPost, CreateCGAdd,
                DeleteVolumeGroupSnapshot, At
  <2> QED
    BY <1>0, <2>1, <2>2, GroupCalls, Zenon
<1>2. ASSUME NEW o \in Outcome, CreateSnapshotGroup(w, o) \/ CreateResource(w, o)
      PROVE  Moves(w) /\ UNCHANGED replicas /\ Op(w) \notin Replicating
  <2>1. UNCHANGED <<replicas, scenario>> /\ Op(w) \in {"snap", "replicate"}
    BY <1>2, Zenon DEF CreateSnapshotGroup, CreateResource, Change, At, array, rest
  <2>2. Found(w, "members", lastGroup + 1) \/ Answer(w) \/ Error(w)
    BY <1>2, Zenon DEF CreateSnapshotGroup, CreateResource, Change
  <2> QED
    BY <1>0, <2>1, <2>2, GroupMoves, Zenon
<1>3. ASSUME NEW o \in ReadOutcome,
             \/ DeleteVolumeGroup(w, o) \/ ModifyDone(w, o) \/ ControllerGetVolumeGroup(w, o)
             \/ createCG(w, o) \/ GetVolumeGroupSnapshot(w, o) \/ handleSCReplica(w, o)
      PROVE  Moves(w) /\ UNCHANGED replicas /\ Op(w) \notin Replicating
  <2>1. UNCHANGED <<replicas, scenario>> /\ Op(w) \in {"deleteGroup", "modify", "getGroup", "snap", "getSnap", "replicate"}
    BY <1>3, Zenon DEF DeleteVolumeGroup, GetOrSuccess, ModifyDone, ControllerGetVolumeGroup, createCG,
                GetVolumeGroupSnapshot, handleSCReplica, Read, At, array, rest
  <2>2. (\E l : Goto(w, l)) \/ Answer(w) \/ Error(w)
    BY <1>3, Zenon DEF DeleteVolumeGroup, GetOrSuccess, ModifyDone, ControllerGetVolumeGroup, createCG,
                GetVolumeGroupSnapshot, handleSCReplica, Read
  <2> QED
    BY <1>0, <2>1, <2>2, GroupMoves, Zenon
<1>4. ASSUME NEW o \in ReadOutcome, ModifyVolumeGroupMembership(w, o)
      PROVE  Moves(w) /\ UNCHANGED replicas /\ Op(w) \notin Replicating
  <2>1. UNCHANGED <<replicas, scenario>> /\ Op(w) = "modify"
    BY <1>4, Zenon DEF ModifyVolumeGroupMembership, Read, At, array, rest
  <2>2. \/ \E l, add, remove : job' = [job EXCEPT ![w].at = l, ![w].add = add, ![w].remove = remove]
        \/ Error(w)
    BY <1>4, Zenon DEF ModifyVolumeGroupMembership, Read
  <2>3. ASSUME NEW l, NEW add, NEW remove, job' = [job EXCEPT ![w].at = l, ![w].add = add, ![w].remove = remove]
        PROVE  Moves(w)
    BY <1>0, <2>1, <2>3 DEF Shape, Moves
  <2>4. Error(w) => Moves(w)
    BY <1>0, <2>1, GroupMoves, Zenon
  <2> QED
    BY <2>1, <2>2, <2>3, <2>4, Zenon
<1>5. ASSUME NEW o \in ReadOutcome, SnapshotAnswer(w, o)
      PROVE  Moves(w) /\ UNCHANGED replicas /\ Op(w) \notin Replicating
  <2>1. UNCHANGED <<replicas, scenario>> /\ Op(w) = "snap"
    BY <1>5, Zenon DEF SnapshotAnswer, At, array
  <2>2. Answer(w) \/ Error(w)
    BY <1>5, Zenon DEF SnapshotAnswer
  <2> QED
    BY <1>0, <2>1, <2>2, GroupMoves, Zenon
<1>6. ASSUME NEW o, verifyCGExists(w, o) \/ CreateVolumeGroupSnapshot(w, o) \/ SnapshotName(w, o)
      PROVE  Moves(w) /\ UNCHANGED replicas /\ Op(w) \notin Replicating
  <2>1. UNCHANGED <<replicas, scenario>> /\ Op(w) \in {"snap", "replicate"}
    BY <1>6, Zenon DEF verifyCGExists, CreateVolumeGroupSnapshot, SnapshotName, Look, At, array, rest
  <2>2. (\E l : Goto(w, l)) \/ (\E l, id : Found(w, l, id)) \/ Error(w)
    BY <1>6, Zenon DEF verifyCGExists, CreateVolumeGroupSnapshot, SnapshotName, Look
  <2> QED
    BY <1>0, <2>1, <2>2, GroupMoves, Zenon
<1>7. ASSUME CreateDone(w) \/ CreateCGDone(w)
      PROVE  Moves(w) /\ UNCHANGED replicas /\ Op(w) \notin Replicating
  <2>1. UNCHANGED <<replicas, scenario>> /\ Op(w) \in {"createGroup", "snap"}
    BY <1>7, Zenon DEF CreateDone, CreateCGDone, At, array, rest
  <2>2. Goto(w, "name") \/ Answer(w)
    BY <1>7, Zenon DEF CreateDone, CreateCGDone
  <2> QED
    BY <1>0, <2>1, <2>2, GroupMoves, Zenon
<1> QED
  BY <1>1, <1>2, <1>3, <1>4, <1>5, <1>6, <1>7, Zenon DEF GroupStep

\* Every step of the group services keeps the invariant.
LEMMA GroupSteps ==
    ASSUME IInv, NEW w \in Worker, GroupStep(w)
    PROVE  IInv'
BY GroupFrame, OtherStep, Zenon DEF IInv

----------------------------------------------------------------------------
(* The invariant, and what follows from it *)

\* A call is made or given up, or the driver restarts in the middle of one.
LEMMA WorkerSteps ==
    ASSUME IInv, NEW w \in Worker, Start(w) \/ GiveUp(w) \/ Crash(w)
    PROVE  IInv'
<1>0. Shape
  BY Zenon DEF IInv
<1>1. CASE GiveUp(w)
  <2>1. UNCHANGED <<replicas, scenario>> /\ Answer(w)
    BY <1>1, Zenon DEF GiveUp, array, rest
  <2>2. Ends(w)
    BY <1>0, <2>1, JobSteps, Zenon
  <2> QED
    BY <2>1, <2>2, EndsHoldsNot, Harmless, Zenon DEF Ends
<1>2. CASE Crash(w)
  <2>1. UNCHANGED <<replicas, scenario>> /\ Error(w)
    BY <1>2, Zenon DEF Crash, array, rest
  <2>2. Goes(w, "start")
    BY <1>0, <2>1, JobSteps, Zenon
  <2>3. "start" \notin {"remote", "create"}
    BY Zenon
  <2> QED
    BY <2>1, <2>2, <2>3, ElsewhereHoldsNot, Harmless, Zenon DEF Goes
<1>3. CASE Start(w)
  <2>1. UNCHANGED <<replicas, scenario>>
    BY <1>3, Zenon DEF Start, array
  <2>2. PICK q \in scenario.requests[w], id \in UNION {Ids(p.op) : p \in scenario.requests[w]} :
          job' = [job EXCEPT ![w] = [Idle EXCEPT !.req = q, !.at = "start", !.id = id]]
    BY <1>3, Zenon DEF Start
  <2>3. /\ DOMAIN job' = Worker /\ \A x \in Worker : x # w => job'[x] = job[x]
        /\ Fields \subseteq DOMAIN job'[w] /\ job'[w].req = q /\ job'[w].at = "start"
    BY <1>0, <2>2, Zenon DEF Shape, Idle, Fields
  <2>4. Shape'
    BY <1>0, <2>1, <2>3, Zenon DEF Shape
  <2>5. \A x \in Worker : Holds(x)' => Holds(x)
    BY <2>3, Zenon DEF Holds, Swapping, Enabling, At, Op
  <2>6. NoRace' => NoRace
    BY <2>1, Zenon DEF NoRace, Alone, Enables
  <2>7. Token => Token'
    BY <2>1, <2>5, Zenon DEF Token, Enables
  <2> QED
    BY <2>4, <2>6, <2>7, Zenon DEF IInv
<1> QED
  BY <1>1, <1>2, <1>3, Zenon

\* The initial states have the invariant.
LEMMA InitIInv == Init => IInv
<1> SUFFICES ASSUME Init PROVE IInv
  BY Zenon
<1>1. Shape
  BY Zenon DEF Init, Shape, Idle, Fields
<1>2. \A x \in Worker : ~Holds(x)
  BY Zenon DEF Init, Holds, Swapping, Enabling, At, Op, Idle, NoRequest
<1>3. CASE scenario.source = None
  BY <1>1, <1>2, <1>3, Zenon DEF Init, IInv, Token
<1>4. CASE scenario.source # None
  <2>1. PICK r : r = [id |-> 1, src |-> scenario.source, dst |-> Peer[scenario.source]]
    BY Zenon
  <2>2. replicas = {r} /\ r.src = scenario.source /\ r.dst = Peer[scenario.source]
    BY <1>4, <2>1, Zenon DEF Init
  <2>3. NoRace => \A x \in Worker : Enables(x) => x \in {r.src, r.dst}
    BY <1>4, <2>2, Zenon DEF NoRace
  <2> QED
    BY <1>1, <1>2, <2>2, <2>3, Zenon DEF IInv, Token
<1> QED
  BY <1>3, <1>4, Zenon

\* Every step keeps the invariant.
LEMMA NextIInv == IInv /\ [Next]_vars => IInv'
<1> SUFFICES ASSUME IInv, [Next]_vars PROVE IInv'
  BY Zenon
<1>1. CASE UNCHANGED vars
  <2>1. job' = job /\ scenario' = scenario /\ replicas' = replicas
    BY <1>1, Zenon DEF vars, array, rest
  <2>2. NoRace' = NoRace
    BY <2>1, Zenon DEF NoRace, Alone, Enables
  <2>3. Shape' = Shape
    BY <2>1, Zenon DEF Shape
  <2>4. \A x \in Worker : Holds(x)' = Holds(x) /\ Enables(x)' = Enables(x)
    BY <2>1, Zenon DEF Holds, Swapping, Enabling, At, Op, Enables
  <2>5. Token => Token'
    BY <2>1, <2>4, Zenon DEF Token
  <2> QED
    BY <2>2, <2>3, <2>5, Zenon DEF IInv
<1>2. CASE Next
  BY <1>2, WorkerSteps, ReplicationSteps, GroupSteps, Zenon DEF Next
<1> QED
  BY <1>1, <1>2, Zenon

\* For any number of arrays, with promotions, demotions, EnableVolumeReplication
\* and DisableVolumeReplication on all of them at once, failed calls, lost
\* answers, restarts and retries, the volume never has two replicas, unless
\* replication is enabled while another cluster may make calls.
THEOREM OneReplicaAlways == Spec => []OneReplica
<1>1. Init => IInv
  BY InitIInv, Zenon
<1>2. IInv /\ [Next]_vars => IInv'
  BY NextIInv, Zenon
<1>3. IInv => OneReplica
  BY Zenon DEF IInv, Token, OneReplica
<1> QED
  BY <1>1, <1>2, <1>3, PTL DEF Spec

----------------------------------------------------------------------------
(* DisableVolumeReplication is final *)

\* A step of the replication service moves the job of its worker only.
LEMMA ReplicationFrame ==
    ASSUME Shape, NEW w \in Worker, ReplicationStep(w)
    PROVE  Moves(w)
<1>1. UNCHANGED scenario
  BY Zenon DEF ReplicationStep, EnableVolume, EnableList, DisableVolume, PromoteVolume, PromoteLink, PromoteSource,
         DemoteVolume, DemoteLink, DemoteRemote, GetVolumeReplicationInfo, EnableCreate, DisableDelete,
         PromoteDelete, PromoteCreate, DemoteDelete, DemoteCreate, ResyncVolume, Read, Delete, rest
<1>2. (\E l : Goto(w, l)) \/ (\E l, id : Found(w, l, id)) \/ Answer(w) \/ Error(w)
  <2>1. ASSUME NEW o, \/ EnableVolume(w, o) \/ EnableList(w, o) \/ DisableVolume(w, o)
                     \/ PromoteVolume(w, o) \/ PromoteLink(w, o) \/ PromoteSource(w, o)
        PROVE  (\E l : Goto(w, l)) \/ (\E l, id : Found(w, l, id)) \/ Answer(w) \/ Error(w)
    BY <2>1, Zenon DEF EnableVolume, EnableList, DisableVolume, PromoteVolume, PromoteLink, PromoteSource,
                Read, NotReplicated
  <2>2. ASSUME NEW o, \/ DemoteVolume(w, o) \/ DemoteLink(w, o) \/ DemoteRemote(w, o)
                     \/ GetVolumeReplicationInfo(w, o)
        PROVE  (\E l : Goto(w, l)) \/ (\E l, id : Found(w, l, id)) \/ Answer(w) \/ Error(w)
    BY <2>2, Zenon DEF DemoteVolume, DemoteLink, DemoteRemote, GetVolumeReplicationInfo, Read
  <2>3. ASSUME NEW o, \/ EnableCreate(w, o) \/ DisableDelete(w, o) \/ PromoteDelete(w, o)
                     \/ PromoteCreate(w, o) \/ DemoteDelete(w, o) \/ DemoteCreate(w, o)
        PROVE  (\E l : Goto(w, l)) \/ (\E l, id : Found(w, l, id)) \/ Answer(w) \/ Error(w)
    BY <2>3, Zenon DEF EnableCreate, DisableDelete, PromoteDelete, PromoteCreate, DemoteDelete, DemoteCreate, Delete
  <2>4. ResyncVolume(w) => Answer(w)
    BY Zenon DEF ResyncVolume
  <2> QED
    BY <2>1, <2>2, <2>3, <2>4, Zenon DEF ReplicationStep
<1> QED
  BY <1>1, <1>2, GroupMoves, Zenon

\* Only its own DeleteReplica ends a DisableVolumeReplication that has read the
\* replica.
LEMMA DisableEnds ==
    ASSUME Shape, Next, NEW x \in Worker, Answered(x, "disable"), job[x].at = "delete"
    PROVE  \E o \in Outcome : DisableDelete(x, o)
<1>1. job'[x] # job[x] /\ job'[x].at = "idle"
  BY DEF Answered, Idle
<1>2. PICK w \in Worker : Start(w) \/ GiveUp(w) \/ Crash(w) \/ ReplicationStep(w) \/ GroupStep(w)
  BY Zenon DEF Next
<1>3. CASE Start(w)
  <2>1. job[w] = Idle /\ \E new : job' = [job EXCEPT ![w] = new]
    BY <1>3, Zenon DEF Start
  <2>2. w # x
    BY <2>1, SMTT(60) DEF Idle
  <2> QED
    BY <1>1, <2>1, <2>2, Zenon DEF Shape
<1>4. CASE GiveUp(w)
  <2>1. job[w].at = "start" /\ job' = [job EXCEPT ![w] = Idle]
    BY <1>4, Zenon DEF GiveUp, Answer
  <2> QED
    BY <1>1, <2>1, Zenon DEF Shape
<1>5. CASE Crash(w)
  <2>1. UNCHANGED scenario /\ Error(w)
    BY <1>5, Zenon DEF Crash, rest
  <2>2. Goes(w, "start")
    BY <2>1, JobSteps, Zenon
  <2> QED
    BY <1>1, <2>2, Zenon DEF Goes, Moves
<1>6. CASE GroupStep(w)
  <2>1. Moves(w) /\ Op(w) \notin Replicating
    BY <1>6, GroupFrame, Zenon
  <2> QED
    BY <1>1, <2>1, Zenon DEF Moves, Answered, Replicating
<1>7. CASE ReplicationStep(w)
  <2>1. w = x
    BY <1>1, <1>7, ReplicationFrame, Zenon DEF Moves
  <2>2. Op(x) = "disable" /\ job[x].at = "delete"
    BY Zenon DEF Answered
  <2> QED
    BY <1>7, <2>1, <2>2, Zenon DEF ReplicationStep, EnableVolume, EnableList, DisableVolume, PromoteVolume, PromoteLink,
       PromoteSource, DemoteVolume, DemoteLink, DemoteRemote, GetVolumeReplicationInfo, EnableCreate,
       PromoteDelete, PromoteCreate, DemoteDelete, DemoteCreate, ResyncVolume, At
<1> QED
  BY <1>2, <1>3, <1>4, <1>5, <1>6, <1>7, Zenon

\* For any number of arrays and clusters, a DisableVolumeReplication that is
\* answered with success after its DeleteReplica leaves no replica, and no
\* promotion or demotion that is about to create one.
THEOREM DisableFinal == Spec => DisabledForGood
<1>1. ASSUME IInv, Next, NoRace, NEW x \in Worker, Answered(x, "disable"), job[x].at = "delete"
      PROVE  replicas' = {} /\ \A y \in Worker : ~Swapping(y)'
  <2>1. Shape /\ Token
    BY <1>1, Zenon DEF IInv
  <2>2. PICK o \in Outcome : DisableDelete(x, o)
    BY <1>1, <2>1, DisableEnds, Zenon
  <2>3. UNCHANGED scenario /\ Delete(x, o, Answer(x))
    BY <2>2, Zenon DEF DisableDelete, Delete, rest
  <2>4. ~Error(x)
    BY <1>1, <2>1, AtAfter, IdleFacts, Zenon DEF Answered
  <2>5. Answer(x) /\ Ok(o) /\ ~Gone(job[x].id)
    BY <2>3, <2>4, Zenon DEF Delete
  <2>6. DropReplica(job[x].id)
    BY <2>3, <2>5, Zenon DEF Delete, Ok, Done
  <2>7. replicas # {} /\ replicas' = {}
    BY <2>1, <2>5, <2>6, Zenon DEF Token, Gone, DropReplica
  <2>8. Ends(x)
    BY <2>1, <2>3, <2>5, JobSteps, Zenon
  <2>9. \A y \in Worker : y # x => (Swapping(y)' => Swapping(y))
    BY <2>8, Zenon DEF Ends, Moves, Swapping, Op
  <2>10. \A y \in Worker : ~Swapping(y)
    BY <2>1, <2>7, Zenon DEF Token, Holds
  <2>11. ~Swapping(x)'
    BY <2>8, EndsHoldsNot, Zenon DEF Holds
  <2> QED
    BY <2>7, <2>9, <2>10, <2>11, Zenon
<1>2. IInv /\ [Next]_vars =>
        [NoRace => \A x \in Worker :
           Answered(x, "disable") /\ job[x].at = "delete" =>
             replicas' = {} /\ \A y \in Worker : ~Swapping(y)']_vars
  BY <1>1, Zenon
<1> QED
  BY <1>2, InitIInv, NextIInv, PTL DEF Spec, DisabledForGood

----------------------------------------------------------------------------
(* A replicated volume stays replicated *)

\* A call that may make a replica has found the volume on its array.
Active(x) == Op(x) \in {"enable", "promote", "demote"} /\ job[x].at # "start"

\* CreateReplica makes a replica from x to y.
Posts(x, y) ==
    \E i : replicas' = replicas \cup {[id |-> i, src |-> x, dst |-> y]} /\ there' = there \cup {y}

\* What a step of the replication service does to the arrays.
RepStep(w) ==
    /\ Moves(w)
    /\ Active(w)' => Active(w) \/ w \in there
    /\ \/ UNCHANGED <<replicas, there>>
       \/ replicas' \subseteq replicas /\ there' = there /\ job[w].at = "delete"
       \/ Active(w) /\ job[w].at = "create" /\ (Posts(w, Peer[w]) \/ Posts(Peer[w], w))

\* The steps that only read.
LEMMA RepReads ==
    ASSUME Shape, NEW w \in Worker, NEW o,
           \/ EnableVolume(w, o) \/ EnableList(w, o) \/ DisableVolume(w, o)
           \/ PromoteVolume(w, o) \/ PromoteLink(w, o) \/ PromoteSource(w, o)
           \/ DemoteVolume(w, o) \/ DemoteLink(w, o) \/ DemoteRemote(w, o)
           \/ GetVolumeReplicationInfo(w, o) \/ ResyncVolume(w),
           Moves(w)
    PROVE  RepStep(w)
<1>1. UNCHANGED <<replicas, there>>
  BY Zenon DEF EnableVolume, EnableList, DisableVolume, PromoteVolume, PromoteLink, PromoteSource,
         DemoteVolume, DemoteLink, DemoteRemote, GetVolumeReplicationInfo, ResyncVolume, Read, array
<1>2. UNCHANGED scenario
  BY Zenon DEF Moves
<1>3. ASSUME Op(w) \in {"enable", "promote", "demote"}, job[w].at = "start", w \notin there
      PROVE  job'[w] = Idle \/ job'[w].at = "start"
  <2>1. Error(w) \/ Answer(w)
    BY <1>3, Zenon DEF EnableVolume, EnableList, DisableVolume, PromoteVolume, PromoteLink, PromoteSource,
         DemoteVolume, DemoteLink, DemoteRemote, GetVolumeReplicationInfo, ResyncVolume, Read, At
  <2> QED
    BY <1>2, <2>1, JobSteps, Zenon DEF Goes, Ends
<1>4. Active(w)' => Active(w) \/ w \in there
  <2>1. Op(w)' = Op(w) \/ Op(w)' = "none"
    BY StillAsked, Zenon
  <2>2. Idle.req.op = "none"
    BY IdleFacts, Zenon
  <2> QED
    BY <1>3, <2>1, <2>2, Zenon DEF Active, Op
<1> QED
  BY <1>1, <1>4, Zenon DEF RepStep

\* The steps that delete or create a replica.
LEMMA RepWrites ==
    ASSUME Shape, NEW w \in Worker, NEW o \in Outcome,
           \/ EnableCreate(w, o) \/ DisableDelete(w, o) \/ PromoteDelete(w, o)
           \/ PromoteCreate(w, o) \/ DemoteDelete(w, o) \/ DemoteCreate(w, o),
           Moves(w)
    PROVE  RepStep(w)
<1>1. job[w].at # "start"
  BY Zenon DEF EnableCreate, DisableDelete, PromoteDelete, PromoteCreate, DemoteDelete, DemoteCreate, At
<1>2. Active(w)' => Active(w)
  BY <1>1, StillAsked, Zenon DEF Active
<1>3. CASE DisableDelete(w, o) \/ PromoteDelete(w, o) \/ DemoteDelete(w, o)
  <2>1. job[w].at = "delete" /\ (DropReplica(job[w].id) \/ UNCHANGED array)
    BY <1>3, Zenon DEF DisableDelete, PromoteDelete, DemoteDelete, Delete, At
  <2>2. replicas' \subseteq replicas /\ there' = there
    BY <2>1, Zenon DEF DropReplica, array
  <2> QED
    BY <1>2, <2>1, <2>2, Zenon DEF RepStep
<1>4. CASE EnableCreate(w, o) \/ PromoteCreate(w, o) \/ DemoteCreate(w, o)
  <2>1. Active(w) /\ job[w].at = "create"
    BY <1>4, Zenon DEF EnableCreate, PromoteCreate, DemoteCreate, At, Active
  <2>2. PostReplica(w, Peer[w]) \/ PostReplica(Peer[w], w) \/ UNCHANGED array
    BY <1>4, Zenon DEF EnableCreate, PromoteCreate, DemoteCreate
  <2>3. \A x, y : PostReplica(x, y) => Posts(x, y)
    BY Zenon DEF PostReplica, Posts
  <2>4. UNCHANGED array => UNCHANGED <<replicas, there>>
    BY Zenon DEF array
  <2> QED
    BY <1>2, <2>1, <2>2, <2>3, <2>4, Zenon DEF RepStep
<1> QED
  BY <1>3, <1>4, Zenon

\* Every step of the service is one of these.
LEMMA RepEffect ==
    ASSUME Shape, NEW w \in Worker, ReplicationStep(w)
    PROVE  RepStep(w)
<1>1. Moves(w)
  BY ReplicationFrame, Zenon
<1> QED
  BY <1>1, RepReads, RepWrites, Zenon DEF ReplicationStep

\* What a step without a fault does to the replication of the volume.
KeptStep(w) ==
    /\ Swapping(w) /\ ~Swapping(w)' =>
          replicas' # {} \/ ~scenario.linkNamed \/ Peer[w] \notin there
    /\ replicas # {} /\ replicas' = {} => Swapping(w)' \/ Op(w) = "disable"

\* The steps of a promotion or a demotion that has deleted the replica, and
\* those that delete it.
LEMMA KeptEffect ==
    ASSUME Shape, NEW w \in Worker, ReplicationStep(w), faults \in Nat, faults' = 0
    PROVE  KeptStep(w) /\ faults = 0
<1>0. (\A c : ~Fault(c)) /\ \A c, o : Charge(c, o) => Ok(o) /\ faults' = faults
  <2>1. \A c : ~Fault(c)
    BY DEF Fault
  <2> QED
    BY <2>1, Zenon DEF Charge
<1>1. RepStep(w) /\ Moves(w)
  BY RepEffect, Zenon DEF RepStep
<1>2. UNCHANGED scenario
  BY <1>1, Zenon DEF Moves
<1>3. ASSUME UNCHANGED replicas, ~Swapping(w) PROVE KeptStep(w)
  BY <1>3, Zenon DEF KeptStep
<1>4. ASSUME NEW o, \/ EnableVolume(w, o) \/ EnableList(w, o) \/ DisableVolume(w, o)
                    \/ PromoteVolume(w, o) \/ PromoteLink(w, o) \/ PromoteSource(w, o)
                    \/ DemoteVolume(w, o) \/ DemoteLink(w, o)
                    \/ GetVolumeReplicationInfo(w, o) \/ ResyncVolume(w)
      PROVE  KeptStep(w) /\ faults = 0
  <2>1. UNCHANGED replicas
    BY <1>4, Zenon DEF EnableVolume, EnableList, DisableVolume, PromoteVolume, PromoteLink, PromoteSource,
         DemoteVolume, DemoteLink, GetVolumeReplicationInfo, ResyncVolume, Read, array
  <2>2. ~Swapping(w)
    BY <1>4, Zenon DEF EnableVolume, EnableList, DisableVolume, PromoteVolume, PromoteLink, PromoteSource,
         DemoteVolume, DemoteLink, GetVolumeReplicationInfo, ResyncVolume, Swapping, At
  <2>3. faults' = faults
    BY <1>0, <1>4, Zenon DEF EnableVolume, EnableList, DisableVolume, PromoteVolume, PromoteLink, PromoteSource,
         DemoteVolume, DemoteLink, GetVolumeReplicationInfo, ResyncVolume, Read
  <2> QED
    BY <1>3, <2>1, <2>2, <2>3, Zenon
<1>5. ASSUME NEW o, DemoteRemote(w, o)
      PROVE  KeptStep(w) /\ faults = 0
  <2>1. UNCHANGED replicas /\ faults' = faults
    BY <1>0, <1>5, Zenon DEF DemoteRemote, Read, array
  <2>2. IF Peer[w] \in there THEN Goto(w, "create") ELSE Error(w)
    BY <1>0, <1>5, Zenon DEF DemoteRemote, Read
  <2>3. Op(w) = "demote"
    BY <1>5, Zenon DEF DemoteRemote, At
  <2>4. Peer[w] \in there => Goes(w, "create")
    BY <1>2, <2>2, JobSteps, Zenon
  <2>5. Peer[w] \in there => Swapping(w)'
    BY <2>3, <2>4, Zenon DEF Goes, Swapping, Op
  <2> QED
    BY <2>1, <2>5, Zenon DEF KeptStep
<1>6. ASSUME NEW o \in Outcome, DisableDelete(w, o)
      PROVE  KeptStep(w) /\ faults = 0
  <2>1. faults' = faults
    BY <1>0, <1>6, Zenon DEF DisableDelete, Delete
  <2>2. Op(w) = "disable" /\ ~Swapping(w)
    BY <1>6, Zenon DEF DisableDelete, At, Swapping
  <2> QED
    BY <2>1, <2>2, Zenon DEF KeptStep
<1>7. ASSUME NEW o \in Outcome, PromoteDelete(w, o) \/ DemoteDelete(w, o)
      PROVE  KeptStep(w) /\ faults = 0
  <2>1. faults' = faults /\ Ok(o)
    BY <1>0, <1>7, SMTT(60) DEF PromoteDelete, DemoteDelete, Delete, Ok
  <2>2. Op(w) \in {"promote", "demote"} /\ ~Swapping(w)
    BY <1>7, Zenon DEF PromoteDelete, DemoteDelete, At, Swapping
  <2>3. CASE Gone(job[w].id)
    <3>1. DropReplica(job[w].id)
      BY <1>7, <2>1, Zenon DEF PromoteDelete, DemoteDelete, Delete, Ok, Done
    <3>2. replicas' = replicas
      BY <2>3, <3>1, Zenon DEF Gone, DropReplica
    <3> QED
      BY <1>3, <2>1, <2>2, <3>2, Zenon
  <2>4. CASE ~Gone(job[w].id)
    <3>1. Goto(w, "create") \/ Goto(w, "remote")
      BY <1>7, <2>1, <2>4, Zenon DEF PromoteDelete, DemoteDelete, Delete
    <3>2. Goes(w, "create") \/ Goes(w, "remote")
      BY <1>2, <3>1, JobSteps, Zenon
    <3>3. Swapping(w)'
      BY <2>2, <3>2, Zenon DEF Goes, Swapping, Op
    <3> QED
      BY <2>1, <2>2, <3>3, Zenon DEF KeptStep
  <2> QED
    BY <2>3, <2>4, Zenon
<1>8. ASSUME NEW o \in Outcome, EnableCreate(w, o) \/ PromoteCreate(w, o) \/ DemoteCreate(w, o)
      PROVE  KeptStep(w) /\ faults = 0
  <2>1. faults' = faults
    BY <1>0, <1>8, Zenon DEF EnableCreate, PromoteCreate, DemoteCreate
  <2>2. Ok(o) => Done(o)
    BY Zenon DEF Ok, Done
  <2>3. PostReplica(w, Peer[w]) \/ PostReplica(Peer[w], w) \/ (~scenario.linkNamed /\ UNCHANGED array)
    BY <1>0, <1>8, <2>2, Zenon DEF EnableCreate, PromoteCreate, DemoteCreate
  <2>4. \A x, y : PostReplica(x, y) => replicas' # {}
    BY Zenon DEF PostReplica
  <2>5. UNCHANGED array => replicas' = replicas
    BY Zenon DEF array
  <2> QED
    BY <2>1, <2>3, <2>4, <2>5, Zenon DEF KeptStep
<1> QED
  BY <1>4, <1>5, <1>6, <1>7, <1>8, Zenon DEF ReplicationStep

\* Every step counts its faults.
LEMMA FaultsStep ==
    ASSUME faults \in Nat, [Next]_vars
    PROVE  faults' \in Nat /\ (faults' = 0 => faults = 0)
<1>1. ASSUME NEW c, NEW o, UNCHANGED faults \/ Fault(c) \/ Charge(c, o)
      PROVE  faults' \in Nat /\ (faults' = 0 => faults = 0)
  BY <1>1 DEF Fault, Charge
<1>2. ASSUME NEW w \in Worker, Start(w) \/ GiveUp(w) \/ Crash(w)
      PROVE  \E c, o : UNCHANGED faults \/ Fault(c) \/ Charge(c, o)
  BY <1>2, Zenon DEF Start, GiveUp, Crash
<1>3. ASSUME NEW w \in Worker, ReplicationStep(w)
      PROVE  \E c, o : UNCHANGED faults \/ Fault(c) \/ Charge(c, o)
  BY <1>3, Zenon DEF ReplicationStep, EnableVolume, EnableList, DisableVolume, PromoteVolume, PromoteLink, PromoteSource,
         DemoteVolume, DemoteLink, DemoteRemote, GetVolumeReplicationInfo, EnableCreate, DisableDelete,
         PromoteDelete, PromoteCreate, DemoteDelete, DemoteCreate, ResyncVolume, Read, Delete
<1>4. ASSUME NEW w \in Worker, GroupStep(w)
      PROVE  \E c, o : UNCHANGED faults \/ Fault(c) \/ Charge(c, o)
  <2>1. ASSUME NEW o, \/ DeleteVolumeGroup(w, o) \/ ModifyVolumeGroupMembership(w, o) \/ ModifyDone(w, o)
                      \/ ControllerGetVolumeGroup(w, o) \/ createCG(w, o) \/ SnapshotAnswer(w, o)
                      \/ GetVolumeGroupSnapshot(w, o) \/ handleSCReplica(w, o)
                      \/ CreateVolumeGroupSnapshot(w, o) \/ SnapshotName(w, o)
        PROVE  \E c, p : UNCHANGED faults \/ Fault(c) \/ Charge(c, p)
    BY <2>1, Zenon DEF DeleteVolumeGroup, ModifyVolumeGroupMembership, ModifyDone, ControllerGetVolumeGroup, createCG,
           SnapshotAnswer, GetVolumeGroupSnapshot, handleSCReplica, CreateVolumeGroupSnapshot, SnapshotName,
           GetOrSuccess, Read, Look
  <2>2. ASSUME NEW o, \/ CreateVolumeGroup(w, o) \/ CreateAdd(w, o) \/ DeleteConfirmed(w, o)
                      \/ ModifyAdd(w, o) \/ ModifyRemove(w, o)
                      \/ CreateCGPost(w, o) \/ CreateCGAdd(w, o) \/ CreateSnapshotGroup(w, o)
                      \/ DeleteVolumeGroupSnapshot(w, o) \/ CreateResource(w, o)
        PROVE  \E c, p : UNCHANGED faults \/ Fault(c) \/ Charge(c, p)
    BY <2>2, Zenon DEF CreateVolumeGroup, CreateAdd, DeleteConfirmed, ModifyAdd, ModifyRemove, CreateCGPost, CreateCGAdd,
           CreateSnapshotGroup, DeleteVolumeGroupSnapshot, CreateResource, Create, AddMember, RemoveMember, DeleteGroup, Change
  <2>3. ASSUME NEW o, verifyCGExists(w, o)
        PROVE  \E c, p : UNCHANGED faults \/ Fault(c) \/ Charge(c, p)
    BY <2>3, Zenon DEF verifyCGExists, Look
  <2>4. CASE CreateDone(w) \/ CreateCGDone(w)
    BY <2>4, Zenon DEF CreateDone, CreateCGDone
  <2> QED
    BY <1>4, <2>1, <2>2, <2>3, <2>4, Zenon DEF GroupStep
<1>5. UNCHANGED vars => UNCHANGED faults
  BY Zenon DEF vars
<1> QED
  BY <1>1, <1>2, <1>3, <1>4, <1>5, Zenon DEF Next

\* The steps that are not of the replication service.
LEMMA OtherFrame ==
    ASSUME Shape, NEW w \in Worker, Start(w) \/ GiveUp(w) \/ Crash(w) \/ GroupStep(w)
    PROVE  /\ UNCHANGED <<replicas, there, scenario>>
           /\ \A x \in Worker : x # w => job'[x] = job[x]
           /\ ~Active(w)' /\ ~Swapping(w)' /\ (Swapping(w) => Crash(w))
<1>1. CASE GroupStep(w)
  <2>1. Moves(w) /\ UNCHANGED replicas /\ Op(w) \notin Replicating
    BY <1>1, GroupFrame, Zenon
  <2>2. there' = there
    BY <1>1, Zenon DEF GroupStep, DeleteVolumeGroup, ModifyVolumeGroupMembership, ModifyDone, ControllerGetVolumeGroup, createCG,
           SnapshotAnswer, GetVolumeGroupSnapshot, handleSCReplica, CreateVolumeGroupSnapshot, SnapshotName, verifyCGExists,
           GetOrSuccess, Read, Look, CreateVolumeGroup, CreateAdd, DeleteConfirmed, ModifyAdd, ModifyRemove, CreateCGPost,
           CreateCGAdd, CreateSnapshotGroup, DeleteVolumeGroupSnapshot, CreateResource, Create, AddMember, RemoveMember,
           DeleteGroup, Change, CreateDone, CreateCGDone, array
  <2>3. ~Active(w)' /\ ~Swapping(w)' /\ ~Swapping(w)
    <3>1. Op(w) \notin {"enable", "promote", "demote"}
      BY <2>1, Zenon DEF Replicating
    <3>2. Op(w)' \notin {"enable", "promote", "demote"}
      BY <2>1, <3>1, StillAsked, Zenon
    <3> QED
      BY <3>1, <3>2, Zenon DEF Active, Swapping
  <2> QED
    BY <2>1, <2>2, <2>3, Zenon DEF Moves
<1>2. CASE GiveUp(w)
  <2>1. UNCHANGED <<replicas, there, scenario>> /\ Answer(w) /\ job[w].at = "start"
    BY <1>2, Zenon DEF GiveUp, array, rest
  <2>2. Ends(w)
    BY <2>1, JobSteps, Zenon
  <2> QED
    <3>1. Op(w)' = "none" /\ \A x \in Worker : x # w => job'[x] = job[x]
      BY <2>2, IdleFacts, Zenon DEF Ends, Moves, Op
    <3> QED
      BY <2>1, <3>1, Zenon DEF Active, Swapping
<1>3. CASE Crash(w)
  <2>1. UNCHANGED <<replicas, there, scenario>> /\ Error(w)
    BY <1>3, Zenon DEF Crash, array, rest
  <2>2. Goes(w, "start")
    BY <2>1, JobSteps, Zenon
  <2> QED
    BY <1>3, <2>1, <2>2, Zenon DEF Goes, Moves, Active, Swapping
<1>4. CASE Start(w)
  <2>1. UNCHANGED <<replicas, there, scenario>> /\ job[w] = Idle
    BY <1>4, Zenon DEF Start, array
  <2>2. PICK q \in scenario.requests[w], id \in UNION {Ids(p.op) : p \in scenario.requests[w]} :
          job' = [job EXCEPT ![w] = [Idle EXCEPT !.req = q, !.at = "start", !.id = id]]
    BY <1>4, Zenon DEF Start
  <2>3. (\A x \in Worker : x # w => job'[x] = job[x]) /\ job'[w].at = "start"
    BY <2>2, Zenon DEF Shape, Idle
  <2> QED
    BY <2>1, <2>3, SMTT(60) DEF Active, Swapping, Idle
<1> QED
  BY <1>1, <1>2, <1>3, <1>4, Zenon

\* The volume is on the arrays that the links of its arrays lead to.
Closed == \A s \in Scenarios : s.source # None => \A x \in s.on : Peer[x] \in s.on

\* Who may make a replica is on an array that has the volume, and so is the
\* array its link leads to.
KeptInv ==
    /\ Shape /\ faults \in Nat
    /\ scenario.source # None =>
          /\ \A x \in there : Peer[x] \in there
          /\ \A x \in Worker : Active(x) => x \in there
    /\ ReplicationKept

\* Every step keeps this.
LEMMA NextKept ==
    ASSUME KeptInv, IInv, [Next]_vars
    PROVE  KeptInv'
<1>1. Shape' /\ faults' \in Nat /\ (faults' = 0 => faults = 0)
  BY NextIInv, FaultsStep, Zenon DEF IInv, KeptInv
<1>2. CASE UNCHANGED vars
  <2>1. UNCHANGED <<replicas, there, scenario, job, faults>>
    BY <1>2, Zenon DEF vars, array, rest
  <2> QED
    BY <1>1, <2>1, Zenon DEF KeptInv, ReplicationKept, Active, Swapping, Op
<1>3. ASSUME NEW w \in Worker, Start(w) \/ GiveUp(w) \/ Crash(w) \/ GroupStep(w)
      PROVE  KeptInv'
  <2>1. /\ UNCHANGED <<replicas, there, scenario>>
        /\ \A x \in Worker : x # w => job'[x] = job[x]
        /\ ~Active(w)' /\ ~Swapping(w)' /\ (Swapping(w) => Crash(w))
    BY <1>3, OtherFrame, Zenon DEF KeptInv
  <2>2. \A x \in Worker : Active(x)' => Active(x)
    BY <2>1, Zenon DEF Active, Op
  <2>3. faults' = 0 => \A x \in Worker : Swapping(x) => Swapping(x)'
    <3>1. Crash(w) => faults' # 0
      BY SMTT(60) DEF Crash, Fault, KeptInv
    <3> QED
      BY <2>1, <3>1, Zenon DEF Swapping, Op
  <2>4. ReplicationKept'
    BY <1>1, <2>1, <2>3, Zenon DEF ReplicationKept, KeptInv
  <2> QED
    BY <1>1, <2>1, <2>2, <2>4, Zenon DEF KeptInv
<1>4. ASSUME NEW w \in Worker, ReplicationStep(w)
      PROVE  KeptInv'
  <2>1. RepStep(w)
    BY <1>4, RepEffect, Zenon DEF KeptInv
  <2>2. UNCHANGED scenario /\ \A x \in Worker : x # w => job'[x] = job[x]
    BY <2>1, Zenon DEF RepStep, Moves
  <2>3. ASSUME scenario.source # None
        PROVE  there' = there /\ \A x \in Worker : Active(x)' => x \in there
    <3>1. (\A x \in there : Peer[x] \in there) /\ \A x \in Worker : Active(x) => x \in there
      BY <2>3, Zenon DEF KeptInv
    <3>2. there' = there
      BY <3>1, <2>1, Zenon DEF RepStep, Posts
    <3>3. \A x \in Worker : x # w => (Active(x)' => Active(x))
      BY <2>2, Zenon DEF Active, Op
    <3>4. Active(w)' => w \in there
      BY <2>1, <3>1, Zenon DEF RepStep
    <3> QED
      BY <3>1, <3>2, <3>3, <3>4, Zenon
  <2>4. ReplicationKept'
    <3> SUFFICES ASSUME faults' = 0, scenario.source # None, scenario.linkNamed, replicas' = {},
                        \A x \in Worker : \A q \in scenario.requests[x] : q.op # "disable"
                 PROVE  \E x \in Worker : Swapping(x)'
      BY <2>2, Zenon DEF ReplicationKept
    <3>1. KeptStep(w) /\ faults = 0
      BY <1>4, KeptEffect, Zenon DEF KeptInv
    <3>2. replicas # {} \/ \E x \in Worker : Swapping(x)
      BY <3>1, Zenon DEF KeptInv, ReplicationKept
    <3>3. \A x \in Worker : x # w => (Swapping(x) => Swapping(x)')
      BY <2>2, Zenon DEF Swapping, Op
    <3>4. Op(w) # "disable"
      BY DEF KeptInv, Shape, Op, NoRequest
    <3>5. Swapping(w) => Peer[w] \in there
      <4>1. Swapping(w) => Active(w)
        BY Zenon DEF Swapping, Active
      <4> QED
        BY <4>1, Zenon DEF KeptInv
    <3> QED
      BY <3>1, <3>2, <3>3, <3>4, <3>5, Zenon DEF KeptStep
  <2> QED
    BY <1>1, <2>2, <2>3, <2>4, Zenon DEF KeptInv
<1> QED
  BY <1>2, <1>3, <1>4, Zenon DEF Next

\* For any number of arrays and clusters, with promotions, demotions and
\* EnableVolumeReplication on all of them at once: while nothing fails, nothing
\* is disabled and the links are named for the systems they lead to, there is a
\* replica or somebody who deleted one is about to create it anew.
THEOREM ReplicationStays ==
    ASSUME Closed
    PROVE  Spec => []ReplicationKept
<1>1. Init => KeptInv
  <2> SUFFICES ASSUME Init PROVE KeptInv
    BY Zenon
  <2>1. Shape
    BY InitIInv, Zenon DEF IInv
  <2>2. \A x \in Worker : ~Active(x)
    BY Zenon DEF Init, Active, Op, Idle, NoRequest
  <2>3. scenario.source # None => \A x \in there : Peer[x] \in there
    BY Zenon DEF Init, Closed
  <2>4. ReplicationKept
    BY Zenon DEF Init, ReplicationKept
  <2>5. faults \in Nat
    BY Zenon DEF Init
  <2> QED
    BY <2>1, <2>2, <2>3, <2>4, <2>5, Zenon DEF KeptInv
<1>2. KeptInv /\ IInv /\ [Next]_vars => KeptInv'
  BY NextKept, Zenon
<1>3. KeptInv => ReplicationKept
  BY Zenon DEF KeptInv
<1> QED
  BY <1>1, <1>2, <1>3, InitIInv, NextIInv, PTL DEF Spec

----------------------------------------------------------------------------
(* A promotion or demotion that is answered with success has its role *)

\* The volume is on the two arrays of a link, which leads both ways.
Paired ==
    /\ \A x \in Worker : Peer[x] # x
    /\ \A s \in Scenarios : s.source # None =>
          s.on \subseteq {s.source, Peer[s.source]} /\ Peer[Peer[s.source]] = s.source

Pair == {scenario.source, Peer[scenario.source]}

\* The replica is between these two arrays; without one at the start there is
\* one only if a cluster, the only one to make calls, enables replication.
PairInv ==
    /\ scenario \in Scenarios
    /\ NoRace =>
          /\ scenario.source = None /\ (replicas # {} \/ \E x \in Worker : Swapping(x)) =>
                \E y \in Worker : Enables(y)
          /\ scenario.source # None =>
                /\ there \subseteq Pair
                /\ \A x \in Worker : Active(x) => x \in there
                /\ \A r \in replicas : Pair \subseteq {r.src, r.dst}

\* Only who had a replica to delete is between its calls.
LEMMA SwapsFrom ==
    ASSUME Shape, NEW w \in Worker, ReplicationStep(w), Swapping(w)'
    PROVE  Swapping(w) \/ replicas # {}
<1>1. Moves(w)
  BY ReplicationFrame, Zenon
<1>2. UNCHANGED scenario /\ Op(w) \in {"promote", "demote"} /\ job'[w].at \in {"remote", "create"}
  <2>1. UNCHANGED scenario
    BY <1>1, Zenon DEF Moves
  <2>2. Op(w)' \in {"promote", "demote"} /\ job'[w].at \in {"remote", "create"}
    BY Zenon DEF Swapping
  <2> QED
    BY <1>1, <2>1, <2>2, StillAsked, Zenon
<1>3. ~Error(w) /\ ~Answer(w) /\ ~Goto(w, "link") /\ ~Goto(w, "source") /\ ~Goto(w, "delete")
  <2>1. ~Error(w) /\ ~Answer(w)
    BY <1>2, AtAfter, Zenon
  <2>2. \A l \in {"link", "source", "delete"} : ~Goto(w, l)
    BY <1>2, JobSteps, Zenon DEF Goes
  <2> QED
    BY <2>1, <2>2, Zenon
<1>4. \A id : ~Found(w, "link", id) /\ ~Found(w, "delete", id)
  BY <1>2, AtAfter, Zenon
<1>5. CASE \E o : PromoteVolume(w, o) \/ PromoteLink(w, o) \/ PromoteSource(w, o) \/ DemoteVolume(w, o) \/ DemoteLink(w, o)
  BY <1>3, <1>4, <1>5, Zenon DEF PromoteVolume, PromoteLink, PromoteSource, DemoteVolume, DemoteLink, Read, NotReplicated
<1>6. CASE \E o : DemoteRemote(w, o)
  BY <1>6, Zenon DEF DemoteRemote, At, Swapping
<1>7. CASE \E o : PromoteDelete(w, o) \/ DemoteDelete(w, o)
  BY <1>3, <1>7, Zenon DEF PromoteDelete, DemoteDelete, Delete, Gone
<1>8. CASE \E o : PromoteCreate(w, o) \/ DemoteCreate(w, o)
  BY <1>3, <1>8, Zenon DEF PromoteCreate, DemoteCreate
<1> QED
  BY <1>2, <1>5, <1>6, <1>7, <1>8, Zenon DEF ReplicationStep, EnableVolume, EnableList, DisableVolume, GetVolumeReplicationInfo,
       EnableCreate, DisableDelete, ResyncVolume, At

\* Every step keeps this.
LEMMA NextPair ==
    ASSUME PairInv, IInv, Paired, [Next]_vars
    PROVE  PairInv'
<1>0. Shape
  BY Zenon DEF IInv
<1>1. CASE UNCHANGED vars
  <2>1. UNCHANGED <<replicas, there, scenario, job>>
    BY <1>1, Zenon DEF vars, array, rest
  <2> QED
    BY <2>1, Zenon DEF PairInv, NoRace, Alone, Enables, Pair, Active, Swapping, Op
<1>2. ASSUME NEW w \in Worker, Start(w) \/ GiveUp(w) \/ Crash(w) \/ GroupStep(w)
      PROVE  PairInv'
  <2>1. /\ UNCHANGED <<replicas, there, scenario>>
        /\ \A x \in Worker : x # w => job'[x] = job[x]
        /\ ~Active(w)' /\ ~Swapping(w)'
    BY <1>0, <1>2, OtherFrame, Zenon
  <2>2. \A x \in Worker : (Active(x)' => Active(x)) /\ (Swapping(x)' => Swapping(x))
    BY <2>1, Zenon DEF Active, Swapping, Op
  <2> QED
    BY <2>1, <2>2, Zenon DEF PairInv, NoRace, Alone, Enables, Pair
<1>3. ASSUME NEW w \in Worker, ReplicationStep(w)
      PROVE  PairInv'
  <2>1. RepStep(w)
    BY <1>0, <1>3, RepEffect, Zenon
  <2>2. UNCHANGED scenario /\ \A x \in Worker : x # w => job'[x] = job[x]
    BY <2>1, Zenon DEF RepStep, Moves
  <2>3. \A x \in Worker : x # w => (Active(x)' => Active(x)) /\ (Swapping(x)' => Swapping(x))
    BY <2>2, Zenon DEF Active, Swapping, Op
  <2>4. (NoRace' <=> NoRace) /\ Pair' = Pair /\ \A x \in Worker : Enables(x)' <=> Enables(x)
    BY <2>2, Zenon DEF NoRace, Alone, Enables, Pair
  <2>5. ASSUME NoRace, scenario.source = None, replicas' # {} \/ \E x \in Worker : Swapping(x)'
        PROVE  \E y \in Worker : Enables(y)
    <3>1. Active(w) /\ job[w].at = "create" => Enables(w) \/ Swapping(w)
      BY <1>0, SMTT(60) DEF Active, Swapping, Shape, Enables, Op, NoRequest
    <3>2. replicas' # {} => replicas # {} \/ (Active(w) /\ job[w].at = "create")
      BY <2>1, Zenon DEF RepStep
    <3>3. \A x \in Worker : Swapping(x)' => Swapping(x) \/ replicas # {}
      BY <1>0, <1>3, <2>3, SwapsFrom, Zenon
    <3> QED
      BY <2>5, <3>1, <3>2, <3>3, Zenon DEF PairInv
  <2>6. ASSUME NoRace, scenario.source # None
        PROVE  /\ there' \subseteq Pair
               /\ \A x \in Worker : Active(x)' => x \in there'
               /\ \A r \in replicas' : Pair \subseteq {r.src, r.dst}
    <3>1. /\ there \subseteq Pair /\ (\A x \in Worker : Active(x) => x \in there)
          /\ \A r \in replicas : Pair \subseteq {r.src, r.dst}
      BY <2>6, Zenon DEF PairInv
    <3>2. Active(w)' => w \in there
      BY <2>1, <3>1, Zenon DEF RepStep
    <3>3. CASE replicas' \subseteq replicas /\ there' = there
      BY <2>3, <3>1, <3>2, <3>3, Zenon
    <3>4. ASSUME Active(w), Posts(w, Peer[w]) \/ Posts(Peer[w], w)
          PROVE  /\ there \subseteq there' /\ there' \subseteq Pair
                 /\ \A r \in replicas' : Pair \subseteq {r.src, r.dst}
      <4>1. w \in Pair
        BY <3>1, <3>4, Zenon
      <4>2. Peer[Peer[scenario.source]] = scenario.source
        BY <2>6, Zenon DEF PairInv, Paired
      <4>3. {w, Peer[w]} = Pair
        BY <4>1, <4>2, Zenon DEF Pair
      <4>4. ASSUME NEW x, NEW y, {x, y} = Pair, Posts(x, y)
            PROVE  /\ there \subseteq there' /\ there' \subseteq Pair
                   /\ \A r \in replicas' : Pair \subseteq {r.src, r.dst}
        <5>1. PICK i : replicas' = replicas \cup {[id |-> i, src |-> x, dst |-> y]} /\ there' = there \cup {y}
          BY <4>4, Zenon DEF Posts
        <5> QED
          BY <3>1, <4>4, <5>1, SMTT(60)
      <4>5. {Peer[w], w} = Pair
        BY <4>3, Zenon
      <4> QED
        BY <3>4, <4>3, <4>4, <4>5, Zenon
    <3> QED
      BY <2>1, <2>3, <3>1, <3>2, <3>3, <3>4, Zenon DEF RepStep
  <2> QED
    BY <2>2, <2>4, <2>5, <2>6, Zenon DEF PairInv
<1> QED
  BY <1>1, <1>2, <1>3, Zenon DEF Next

\* Only its own step answers a promotion or a demotion.
LEMMA RoleEnds ==
    ASSUME Shape, Next, NEW x \in Worker, NEW op \in {"promote", "demote"}, Answered(x, op)
    PROVE  ReplicationStep(x)
<1>1. job'[x] # job[x] /\ job'[x].at = "idle" /\ Op(x) \in {"promote", "demote"} /\ job'[x].req.op = "none"
  BY SMTT(60) DEF Answered, Idle, Op, NoRequest
<1>2. PICK w \in Worker : Start(w) \/ GiveUp(w) \/ Crash(w) \/ ReplicationStep(w) \/ GroupStep(w)
  BY Zenon DEF Next
<1>3. CASE Start(w)
  <2>1. job[w] = Idle /\ \E new : job' = [job EXCEPT ![w] = new]
    BY <1>3, Zenon DEF Start
  <2>2. w # x
    BY <1>1, <2>1, SMTT(60) DEF Op, Idle, NoRequest
  <2> QED
    BY <1>1, <2>1, <2>2, Zenon DEF Shape
<1>4. CASE GiveUp(w)
  <2>1. Op(w) \notin {"promote", "demote"} /\ job' = [job EXCEPT ![w] = Idle]
    BY <1>4, Zenon DEF GiveUp, Answer
  <2> QED
    BY <1>1, <2>1, Zenon DEF Shape
<1>5. CASE Crash(w)
  <2>1. UNCHANGED scenario /\ Error(w)
    BY <1>5, Zenon DEF Crash, rest
  <2>2. Goes(w, "start")
    BY <2>1, JobSteps, Zenon
  <2> QED
    BY <1>1, <2>2, Zenon DEF Goes, Moves
<1>6. CASE GroupStep(w)
  <2>1. Moves(w) /\ Op(w) \notin Replicating
    BY <1>6, GroupFrame, Zenon
  <2> QED
    BY <1>1, <2>1, Zenon DEF Moves, Replicating
<1>7. CASE ReplicationStep(w)
  BY <1>1, <1>7, ReplicationFrame, Zenon DEF Moves
<1> QED
  BY <1>2, <1>3, <1>4, <1>5, <1>6, <1>7, Zenon

\* How a promotion is answered: there is no replica, there is one from here, or
\* it was created.
LEMMA PromoteEnds ==
    ASSUME Shape, NEW x \in Worker, ReplicationStep(x), Answered(x, "promote")
    PROVE  \/ replicas' = replicas /\ x \in there /\ Known(x) = {}
           \/ replicas' = replicas /\ \E r \in replicas : r.src = x
           \/ Swapping(x) /\ Posts(x, Peer[x])
<1>1. UNCHANGED scenario /\ Moves(x)
  BY ReplicationFrame, Zenon DEF Moves
<1>2. ~Error(x) /\ \A l \in {"link", "source", "create"} : ~Goto(x, l)
  <2>1. job'[x].at = "idle"
    BY IdleFacts, Zenon DEF Answered
  <2>2. ~Error(x)
    BY <1>1, <2>1, JobSteps, Zenon DEF Goes, Answered, Idle
  <2>3. \A l \in {"link", "source", "create"} : ~Goto(x, l)
    BY <2>1, AtAfter, Zenon
  <2> QED
    BY <2>2, <2>3, Zenon
<1>3. \A id : ~Found(x, "delete", id)
  BY AtAfter, IdleFacts, Zenon DEF Answered
<1>4. Op(x) = "promote"
  BY Zenon DEF Answered
<1>5. CASE \E o : PromoteVolume(x, o)
  <2>1. replicas' = replicas
    BY <1>5, Zenon DEF PromoteVolume, Read, array
  <2>2. x \in there /\ (Known(x) = {} \/ \E r \in Known(x) : AlreadyPrimary(x, r))
    BY <1>2, <1>5, Zenon DEF PromoteVolume, Read
  <2>3. (\E r \in Known(x) : AlreadyPrimary(x, r)) => \E r \in replicas : r.src = x
    BY Zenon DEF Known, AlreadyPrimary, Role
  <2> QED
    BY <2>1, <2>2, <2>3, Zenon
<1>6. CASE \E o : PromoteLink(x, o) \/ PromoteSource(x, o)
  BY <1>2, <1>3, <1>6, Zenon DEF PromoteLink, PromoteSource, Read
<1>7. CASE \E o : PromoteDelete(x, o)
  BY <1>2, <1>7, Zenon DEF PromoteDelete, Delete
<1>8. CASE \E o : PromoteCreate(x, o)
  <2>1. Swapping(x)
    BY <1>8, Zenon DEF PromoteCreate, Swapping, At
  <2>2. PICK o : PromoteCreate(x, o)
    BY <1>8, Zenon
  <2>3. Ok(o) /\ PostReplica(x, Peer[x])
    BY <1>2, <2>2, Zenon DEF PromoteCreate, Ok, Done
  <2>4. Posts(x, Peer[x])
    BY <2>3, Zenon DEF PostReplica, Posts
  <2> QED
    BY <2>1, <2>4, Zenon
<1> QED
  BY <1>4, <1>5, <1>6, <1>7, <1>8, Zenon DEF ReplicationStep, EnableVolume, EnableList, DisableVolume, GetVolumeReplicationInfo,
       EnableCreate, DisableDelete, DemoteVolume, DemoteLink, DemoteRemote, DemoteDelete, DemoteCreate, ResyncVolume, At

\* How a demotion is answered.
LEMMA DemoteEnds ==
    ASSUME Shape, NEW x \in Worker, ReplicationStep(x), Answered(x, "demote")
    PROVE  \/ replicas' = replicas /\ Known(x) = {}
           \/ replicas' = replicas /\ \E r \in replicas : r.src # x
           \/ Swapping(x) /\ Posts(Peer[x], x)
<1>1. UNCHANGED scenario /\ Moves(x)
  BY ReplicationFrame, Zenon DEF Moves
<1>2. ~Error(x) /\ \A l \in {"delete", "remote", "create"} : ~Goto(x, l)
  <2>1. job'[x].at = "idle"
    BY IdleFacts, Zenon DEF Answered
  <2>2. ~Error(x)
    BY <1>1, <2>1, JobSteps, Zenon DEF Goes, Answered, Idle
  <2>3. \A l \in {"delete", "remote", "create"} : ~Goto(x, l)
    BY <1>1, <2>1, JobSteps, Zenon DEF Goes
  <2> QED
    BY <2>2, <2>3, Zenon
<1>3. \A id : ~Found(x, "link", id)
  BY AtAfter, IdleFacts, Zenon DEF Answered
<1>4. Op(x) = "demote"
  BY Zenon DEF Answered
<1>5. CASE \E o : DemoteVolume(x, o)
  <2>1. replicas' = replicas
    BY <1>5, Zenon DEF DemoteVolume, Read, array
  <2>2. Known(x) = {} \/ \E r \in Known(x) : AlreadySecondary(x, r)
    BY <1>2, <1>3, <1>5, Zenon DEF DemoteVolume, Read
  <2>3. (\E r \in Known(x) : AlreadySecondary(x, r)) => \E r \in replicas : r.src # x
    BY Zenon DEF Known, AlreadySecondary, Role
  <2> QED
    BY <2>1, <2>2, <2>3, Zenon
<1>6. CASE \E o : DemoteLink(x, o) \/ DemoteRemote(x, o)
  BY <1>2, <1>6, Zenon DEF DemoteLink, DemoteRemote, Read
<1>7. CASE \E o : DemoteDelete(x, o)
  BY <1>2, <1>7, Zenon DEF DemoteDelete, Delete
<1>8. CASE \E o : DemoteCreate(x, o)
  <2>1. Swapping(x)
    BY <1>8, Zenon DEF DemoteCreate, Swapping, At
  <2>2. PICK o : DemoteCreate(x, o)
    BY <1>8, Zenon
  <2>3. Ok(o) /\ PostReplica(Peer[x], x)
    BY <1>2, <2>2, Zenon DEF DemoteCreate, Ok, Done
  <2>4. Posts(Peer[x], x)
    BY <2>3, Zenon DEF PostReplica, Posts
  <2> QED
    BY <2>1, <2>4, Zenon
<1> QED
  BY <1>4, <1>5, <1>6, <1>7, <1>8, Zenon DEF ReplicationStep, EnableVolume, EnableList, DisableVolume, GetVolumeReplicationInfo,
       EnableCreate, DisableDelete, PromoteVolume, PromoteLink, PromoteSource, PromoteDelete, PromoteCreate, ResyncVolume, At

\* For a volume that is kept on the two arrays of a link, with calls of both
\* clusters at any point, failed calls, lost answers and restarts: a promotion
\* that succeeds leaves no replica to this array, a demotion none from it.
THEOREM RoleTaken ==
    ASSUME Paired
    PROVE  Spec => RoleReached
<1> DEFINE Taken ==
      NoRace => \A x \in Worker :
         /\ Answered(x, "promote") => \A r \in replicas' : r.src = x
         /\ Answered(x, "demote") => \A r \in replicas' : r.src # x
<1>1. ASSUME PairInv, IInv, Next PROVE Taken
  <2> SUFFICES ASSUME NoRace, NEW x \in Worker
               PROVE  /\ Answered(x, "promote") => \A r \in replicas' : r.src = x
                      /\ Answered(x, "demote") => \A r \in replicas' : r.src # x
    BY Zenon
  <2>1. Shape /\ Token
    BY <1>1, Zenon DEF IInv
  <2>2. Swapping(x) => replicas = {}
    BY <2>1, Zenon DEF Token, Holds
  <2>3. ASSUME NEW y, NEW z, Swapping(x), Posts(y, z)
        PROVE  \A r \in replicas' : r.src = y
    BY <2>2, <2>3 DEF Posts
  <2>4. ASSUME Answered(x, "promote") PROVE \A r \in replicas' : r.src = x
    <3>1. ReplicationStep(x)
      BY <1>1, <2>1, <2>4, RoleEnds, Zenon
    <3>2. CASE replicas' = replicas /\ x \in there /\ Known(x) = {}
      <4>1. CASE scenario.source # None
        <5>1. \A r \in replicas : x \in {r.src, r.dst}
          BY <1>1, <3>2, <4>1, Zenon DEF PairInv
        <5> QED
          BY <3>2, <5>1, Zenon DEF Known
      <4>2. CASE scenario.source = None
        <5>1. replicas # {} => \E y \in Worker : Enables(y)
          BY <1>1, <4>2, Zenon DEF PairInv
        <5>2. scenario.requests[x] # {}
          BY <2>1, <2>4, SMTT(60) DEF Shape, Answered, Op, NoRequest
        <5>3. replicas # {} => Enables(x)
          BY <5>1, <5>2, Zenon DEF NoRace, Alone
        <5>4. \A r \in replicas : x \in {r.src, r.dst}
          BY <2>1, <5>3, Zenon DEF Token
        <5> QED
          BY <3>2, <5>4, Zenon DEF Known
      <4> QED
        BY <4>1, <4>2, Zenon
    <3>3. CASE replicas' = replicas /\ \E r \in replicas : r.src = x
      BY <2>1, <3>3, Zenon DEF Token
    <3>4. CASE Swapping(x) /\ Posts(x, Peer[x])
      BY <2>3, <3>4, Zenon
    <3> QED
      BY <2>1, <2>4, <3>1, <3>2, <3>3, <3>4, PromoteEnds, Zenon
  <2>5. ASSUME Answered(x, "demote") PROVE \A r \in replicas' : r.src # x
    <3>1. ReplicationStep(x)
      BY <1>1, <2>1, <2>5, RoleEnds, Zenon
    <3>2. CASE replicas' = replicas /\ Known(x) = {}
      BY <3>2, Zenon DEF Known
    <3>3. CASE replicas' = replicas /\ \E r \in replicas : r.src # x
      BY <2>1, <3>3, Zenon DEF Token
    <3>4. CASE Swapping(x) /\ Posts(Peer[x], x)
      <4>1. Peer[x] # x
        BY Zenon DEF Paired
      <4> QED
        BY <2>3, <3>4, <4>1, Zenon
    <3> QED
      BY <2>1, <2>5, <3>1, <3>2, <3>3, <3>4, DemoteEnds, Zenon
  <2> QED
    BY <2>4, <2>5, Zenon
<1>2. PairInv /\ IInv /\ [Next]_vars => [Taken]_vars
  BY <1>1, Zenon
<1>3. Init => PairInv
  <2> SUFFICES ASSUME Init PROVE PairInv
    BY Zenon
  <2>1. \A x \in Worker : ~Active(x) /\ ~Swapping(x)
    BY Zenon DEF Init, Active, Swapping, Op, Idle, NoRequest
  <2>2. scenario \in Scenarios /\ there = scenario.on /\ (scenario.source = None => replicas = {})
    BY Zenon DEF Init
  <2>3. scenario.source # None => there \subseteq Pair
    BY <2>2, Zenon DEF Paired, Pair
  <2>4. scenario.source # None => \A r \in replicas : Pair \subseteq {r.src, r.dst}
    BY SMTT(60) DEF Init, Pair
  <2> QED
    BY <2>1, <2>2, <2>3, <2>4, Zenon DEF PairInv
<1>4. PairInv /\ IInv /\ [Next]_vars => PairInv'
  BY NextPair, Zenon
<1> HIDE DEF Taken
<1>5. Spec => [][Taken]_vars
  BY <1>2, <1>3, <1>4, InitIInv, NextIInv, PTL DEF Spec
<1> QED
  BY <1>5, Zenon DEF Taken, RoleReached

----------------------------------------------------------------------------
(* The members of a group are those of the request *)

\* What is known of the records of groups: an ID is given out once.
GroupFields == {"id", "name", "kind", "members", "live"}
Given ==
    /\ lastGroup \in Nat
    /\ \A g \in groups : GroupFields \subseteq DOMAIN g /\ g.id \in Nat /\ g.id <= lastGroup
    /\ \A g, h \in groups : g.id = h.id => g = h

\* A call is between its changes of a group; the volumes it has still to add.
Midway(w) == Op(w) \in {"createGroup", "modify"} /\ job[w].at \in {"add", "change", "clear"}
Adds(w) == {job[w].req.vols[i] : i \in job[w].add}

\* The members of the group, less those to be removed and with those to be
\* added, are the volumes of the request.
Progress(w) ==
    Alone(w) =>
      /\ Op(w) = "createGroup" => job[w].remove = {}
      /\ Midway(w) =>
         /\ job[w].remove \cap Range(job[w].req.vols) = {}
         /\ \E g \in LiveId(job[w].id) : (g.members \ job[w].remove) \cup Adds(w) = Range(job[w].req.vols)

\* What a step can do to the groups.
GroupsChange ==
    \/ UNCHANGED <<groups, lastGroup>>
    \/ \E name, kind, members : PostGroup(name, kind, members)
    \/ \E id, members : SetMembers(id, members)
    \/ \E id : DropGroup(id)

\* A step of the group services does one of these.
LEMMA GroupWrites ==
    ASSUME NEW w \in Worker, GroupStep(w)
    PROVE  GroupsChange
<1>1. ASSUME NEW o, \/ CreateVolumeGroup(w, o) \/ CreateAdd(w, o) \/ DeleteConfirmed(w, o) \/ ModifyAdd(w, o)
                    \/ ModifyRemove(w, o) \/ CreateCGPost(w, o) \/ CreateCGAdd(w, o) \/ DeleteVolumeGroupSnapshot(w, o)
      PROVE  GroupsChange
  <2>1. (\E name, l : Create(w, o, name, l)) \/ AddMember(w, o) \/ RemoveMember(w, o) \/ DeleteGroup(w, o)
    BY <1>1, Zenon DEF CreateVolumeGroup, CreateAdd, DeleteConfirmed, ModifyAdd, ModifyRemove, CreateCGPost, CreateCGAdd,
                DeleteVolumeGroupSnapshot
  <2>2. UNCHANGED cgs => UNCHANGED <<groups, lastGroup>>
    BY Zenon DEF cgs
  <2>3. (\E name, l : Create(w, o, name, l)) => GroupsChange
    BY <2>2, Zenon DEF Create, Change, GroupsChange
  <2>4. AddMember(w, o) => GroupsChange
    BY <2>2, Zenon DEF AddMember, Change, GroupsChange
  <2>5. RemoveMember(w, o) => GroupsChange
    BY <2>2, Zenon DEF RemoveMember, Change, GroupsChange
  <2>6. DeleteGroup(w, o) => GroupsChange
    BY <2>2, Zenon DEF DeleteGroup, Change, GroupsChange
  <2> QED
    BY <2>1, <2>3, <2>4, <2>5, <2>6, Zenon
<1>2. ASSUME NEW o, CreateSnapshotGroup(w, o) \/ CreateResource(w, o)
      PROVE  GroupsChange
  <2>1. UNCHANGED cgs => UNCHANGED <<groups, lastGroup>>
    BY Zenon DEF cgs
  <2> QED
    BY <1>2, <2>1, Zenon DEF CreateSnapshotGroup, CreateResource, Change, GroupsChange
<1>3. ASSUME UNCHANGED cgs PROVE GroupsChange
  BY <1>3, Zenon DEF cgs, GroupsChange
<1>4. ASSUME NEW o, \/ DeleteVolumeGroup(w, o) \/ ModifyVolumeGroupMembership(w, o) \/ ModifyDone(w, o)
                    \/ ControllerGetVolumeGroup(w, o) \/ createCG(w, o) \/ SnapshotAnswer(w, o)
                    \/ GetVolumeGroupSnapshot(w, o) \/ handleSCReplica(w, o) \/ verifyCGExists(w, o)
                    \/ CreateVolumeGroupSnapshot(w, o) \/ SnapshotName(w, o)
      PROVE  UNCHANGED cgs
  BY <1>4, Zenon DEF DeleteVolumeGroup, GetOrSuccess, ModifyVolumeGroupMembership, ModifyDone, ControllerGetVolumeGroup,
         createCG, SnapshotAnswer, GetVolumeGroupSnapshot, handleSCReplica, verifyCGExists, CreateVolumeGroupSnapshot,
         SnapshotName, Read, Look
<1>5. CreateDone(w) \/ CreateCGDone(w) => UNCHANGED cgs
  BY Zenon DEF CreateDone, CreateCGDone
<1> QED
  BY <1>1, <1>2, <1>3, <1>4, <1>5, Zenon DEF GroupStep

\* No such change gives an ID out twice.
LEMMA GivenKept ==
    ASSUME Given, GroupsChange
    PROVE  Given'
<1> USE DEF Given, GroupFields
<1>1. CASE UNCHANGED <<groups, lastGroup>>
  BY <1>1, Zenon
<1>2. ASSUME NEW name, NEW kind, NEW members, PostGroup(name, kind, members)
      PROVE  Given'
  <2>1. PICK new : /\ new = [id |-> lastGroup + 1, name |-> name, kind |-> kind, members |-> members, live |-> TRUE]
                   /\ groups' = groups \cup {new} /\ lastGroup' = lastGroup + 1
    BY <1>2, Zenon DEF PostGroup
  <2>2. new.id = lastGroup + 1 /\ GroupFields \subseteq DOMAIN new
    BY <2>1, Zenon
  <2>3. \A g \in groups' : GroupFields \subseteq DOMAIN g /\ g.id \in Nat /\ g.id <= lastGroup'
    BY <2>1, <2>2, SMTT(60)
  <2>4. \A g \in groups : g.id # new.id
    BY <2>2
  <2>5. \A g, h \in groups' : g.id = h.id => g = h
    BY <2>1, <2>4, Zenon
  <2> QED
    BY <2>1, <2>3, <2>5, SMTT(60)
<1>3. ASSUME NEW id, NEW members, SetMembers(id, members)
      PROVE  Given'
  <2>1. /\ groups' = {IF g.id = id THEN [g EXCEPT !.members = members] ELSE g : g \in groups}
        /\ lastGroup' = lastGroup
    BY <1>3, Zenon DEF SetMembers
  <2>2. \A g \in groups : [g EXCEPT !.members = members].id = g.id /\ DOMAIN [g EXCEPT !.members = members] = DOMAIN g
    BY Zenon
  <2>3. \A h \in groups' : \E g \in groups : h.id = g.id /\ DOMAIN h = DOMAIN g
                                          /\ h = IF g.id = id THEN [g EXCEPT !.members = members] ELSE g
    BY <2>1, <2>2, Zenon
  <2>4. \A g, h \in groups' : g.id = h.id => g = h
    BY <2>3
  <2>5. \A g \in groups' : GroupFields \subseteq DOMAIN g /\ g.id \in Nat /\ g.id <= lastGroup'
    BY <2>1, <2>3
  <2> QED
    BY <2>1, <2>4, <2>5, Zenon
<1>4. ASSUME NEW id, DropGroup(id)
      PROVE  Given'
  <2>1. /\ groups' = {IF g.id = id THEN [g EXCEPT !.live = FALSE] ELSE g : g \in groups}
        /\ lastGroup' = lastGroup
    BY <1>4, Zenon DEF DropGroup
  <2>2. \A g \in groups : [g EXCEPT !.live = FALSE].id = g.id /\ DOMAIN [g EXCEPT !.live = FALSE] = DOMAIN g
    BY Zenon
  <2>3. \A h \in groups' : \E g \in groups : h.id = g.id /\ DOMAIN h = DOMAIN g
                                          /\ h = IF g.id = id THEN [g EXCEPT !.live = FALSE] ELSE g
    BY <2>1, <2>2, Zenon
  <2>4. \A g, h \in groups' : g.id = h.id => g = h
    <3> SUFFICES ASSUME NEW h1 \in groups', NEW h2 \in groups', h1.id = h2.id PROVE h1 = h2
      BY Zenon
    <3>1. PICK g1 \in groups : h1.id = g1.id /\ h1 = IF g1.id = id THEN [g1 EXCEPT !.live = FALSE] ELSE g1
      BY <2>3, Zenon
    <3>2. PICK g2 \in groups : h2.id = g2.id /\ h2 = IF g2.id = id THEN [g2 EXCEPT !.live = FALSE] ELSE g2
      BY <2>3, Zenon
    <3>3. g1 = g2
      BY <3>1, <3>2, Zenon
    <3> QED
      BY <3>1, <3>2, <3>3, Zenon
  <2>5. \A g \in groups' : GroupFields \subseteq DOMAIN g /\ g.id \in Nat /\ g.id <= lastGroup'
    BY <2>1, <2>3
  <2> QED
    BY <2>1, <2>4, <2>5, Zenon
<1> QED
  BY <1>1, <1>2, <1>3, <1>4, Zenon DEF GroupsChange

\* The members of a group are what they were set to.
LEMMA MembersSet ==
    ASSUME Given, NEW id, NEW g \in LiveId(id), NEW members, SetMembers(id, members)
    PROVE  \E h \in groups' : h.live /\ h.id = id /\ h.members = members
<1>1. g \in groups /\ g.live /\ g.id = id /\ {"id", "members", "live"} \subseteq DOMAIN g
  BY Zenon DEF Given, LiveId, Live, GroupFields
<1>2. [g EXCEPT !.members = members] \in groups'
  BY <1>1, Zenon DEF SetMembers
<1>3. [g EXCEPT !.members = members].live /\ [g EXCEPT !.members = members].id = id
      /\ [g EXCEPT !.members = members].members = members
  BY <1>1, Zenon
<1> QED
  BY <1>2, <1>3, Zenon

\* A call that fails or is answered is not midway.
LEMMA NotMidway ==
    ASSUME Shape, NEW w \in Worker, Error(w) \/ Answer(w), UNCHANGED scenario
    PROVE  Progress(w)'
<1>1. CASE Error(w)
  <2>1. job'[w].at = "start" /\ job'[w].remove = {}
    BY <1>1, Zenon DEF Error, Again, Idle, Shape
  <2> QED
    BY <2>1, Zenon DEF Progress, Midway
<1>2. CASE Answer(w)
  <2>1. job'[w] = Idle
    BY <1>2, Zenon DEF Answer, Shape
  <2>2. Op(w)' = "none"
    BY <2>1, SMTT(60) DEF Op, Idle, NoRequest
  <2> QED
    BY <2>2, Zenon DEF Progress, Midway
<1> QED
  BY <1>1, <1>2, Zenon

\* The group is made, without members.
LEMMA CreateProgress ==
    ASSUME Shape, Given, NEW w \in Worker, Progress(w), Alone(w), NEW o, CreateVolumeGroup(w, o)
    PROVE  Progress(w)'
<1>0. UNCHANGED scenario
  BY Zenon DEF CreateVolumeGroup, Create, Change, rest
<1>1. CASE Error(w)
  BY <1>0, <1>1, NotMidway, Zenon
<1>2. CASE ~Error(w)
  <2>1. /\ Ok(o) /\ PostGroup(job[w].req.name, "cg", {}) /\ Op(w) = "createGroup"
        /\ job' = [job EXCEPT ![w].at = "add", ![w].id = lastGroup + 1, ![w].add = DOMAIN job[w].req.vols]
    BY <1>2, Zenon DEF CreateVolumeGroup, Create, Change, Done, Ok, At
  <2>2. /\ job'[w].at = "add" /\ job'[w].id = lastGroup + 1 /\ job'[w].add = DOMAIN job[w].req.vols
        /\ job'[w].req = job[w].req /\ job'[w].remove = {}
    BY <2>1, Zenon DEF Shape, Fields, Progress
  <2>3. PICK new : /\ new = [id |-> lastGroup + 1, name |-> job[w].req.name, kind |-> "cg", members |-> {}, live |-> TRUE]
                   /\ groups' = groups \cup {new}
    BY <2>1, Zenon DEF PostGroup
  <2>4. new \in groups' /\ new.live /\ new.id = job'[w].id /\ new.members = {}
    BY <2>2, <2>3, Zenon
  <2>5. Adds(w)' = Range(job'[w].req.vols)
    BY <2>2, Zenon DEF Adds, Range
  <2>6. (new.members \ job'[w].remove) \cup Adds(w)' = Range(job'[w].req.vols)
    BY <2>2, <2>4, <2>5, Zenon
  <2> QED
    BY <2>2, <2>4, <2>6, Zenon DEF Progress, LiveId, Live
<1> QED
  BY <1>1, <1>2, Zenon

\* A volume of the request is added.
LEMMA AddProgress ==
    ASSUME Shape, Given, NEW w \in Worker, Progress(w), Alone(w), Midway(w), NEW o, AddMember(w, o)
    PROVE  Progress(w)'
<1>0. UNCHANGED scenario
  BY Zenon DEF AddMember, Change, rest
<1>1. CASE Error(w)
  BY <1>0, <1>1, NotMidway, Zenon
<1>2. CASE ~Error(w)
  <2>1. PICK i \in job[w].add, g \in LiveId(job[w].id) :
           /\ SetMembers(job[w].id, g.members \cup {job[w].req.vols[i]})
           /\ job' = [job EXCEPT ![w].add = job[w].add \ {i}]
    BY <1>2, Zenon DEF AddMember, Change, Done, Ok
  <2> DEFINE v == job[w].req.vols[i]
  <2>2. /\ job'[w].add = job[w].add \ {i} /\ job'[w].remove = job[w].remove /\ job'[w].req = job[w].req
        /\ job'[w].id = job[w].id
    BY <2>1, Zenon DEF Shape, Fields
  <2>3. PICK h \in groups' : h.live /\ h.id = job[w].id /\ h.members = g.members \cup {v}
    BY <2>1, MembersSet
  <2>4. /\ job[w].remove \cap Range(job[w].req.vols) = {}
        /\ (g.members \ job[w].remove) \cup Adds(w) = Range(job[w].req.vols)
    BY <2>1, Zenon DEF Progress, Given, LiveId, Live
  <2>5. v \in Adds(w) /\ Adds(w) = Adds(w)' \cup {v}
    BY <2>2, Zenon DEF Adds
  <2>6. v \notin job[w].remove
    BY <2>4, <2>5, Zenon
  <2>7. (h.members \ job'[w].remove) \cup Adds(w)' = Range(job'[w].req.vols)
    BY <2>2, <2>3, <2>4, <2>5, <2>6, Zenon
  <2>8. h \in LiveId(job[w].id)'
    BY <2>2, <2>3, Zenon DEF LiveId, Live
  <2> QED
    BY <2>2, <2>4, <2>7, <2>8, Zenon DEF Progress, Op
<1> QED
  BY <1>1, <1>2, Zenon

\* A volume that is not of the request is removed.
LEMMA RemoveProgress ==
    ASSUME Shape, Given, NEW w \in Worker, Progress(w), Alone(w), Midway(w), NEW o, RemoveMember(w, o)
    PROVE  Progress(w)'
<1>0. UNCHANGED scenario
  BY Zenon DEF RemoveMember, Change, rest
<1>1. CASE Error(w)
  BY <1>0, <1>1, NotMidway, Zenon
<1>2. CASE ~Error(w)
  <2>1. PICK v \in job[w].remove, g \in LiveId(job[w].id) :
           /\ SetMembers(job[w].id, g.members \ {v})
           /\ job' = [job EXCEPT ![w].remove = job[w].remove \ {v}]
    BY <1>2, Zenon DEF RemoveMember, Change, Done, Ok
  <2>2. /\ job'[w].remove = job[w].remove \ {v} /\ job'[w].add = job[w].add /\ job'[w].req = job[w].req
        /\ job'[w].id = job[w].id
    BY <2>1, Zenon DEF Shape, Fields
  <2>3. PICK h \in groups' : h.live /\ h.id = job[w].id /\ h.members = g.members \ {v}
    BY <2>1, MembersSet
  <2>4. /\ job[w].remove \cap Range(job[w].req.vols) = {}
        /\ (g.members \ job[w].remove) \cup Adds(w) = Range(job[w].req.vols)
    BY <2>1, Zenon DEF Progress, Given, LiveId, Live
  <2>5. Adds(w)' = Adds(w)
    BY <2>2, Zenon DEF Adds
  <2>6. (h.members \ job'[w].remove) \cup Adds(w)' = Range(job'[w].req.vols)
    BY <2>1, <2>2, <2>3, <2>4, <2>5
  <2>7. h \in LiveId(job[w].id)'
    BY <2>2, <2>3, Zenon DEF LiveId, Live
  <2>8. Op(w) = "createGroup" => job'[w].remove = {}
    BY <2>2, Zenon DEF Progress
  <2>9. job'[w].remove \cap Range(job'[w].req.vols) = {}
    BY <2>2, <2>4, Zenon
  <2> QED
    BY <2>2, <2>6, <2>7, <2>8, <2>9, Zenon DEF Progress, Op
<1> QED
  BY <1>1, <1>2, Zenon

\* The members are read, and what is to be added and removed follows from them.
LEMMA ReadProgress ==
    ASSUME Shape, NEW w \in Worker, NEW o, ModifyVolumeGroupMembership(w, o)
    PROVE  Progress(w)'
<1>0. UNCHANGED <<scenario, groups>> /\ Op(w) = "modify"
  BY Zenon DEF ModifyVolumeGroupMembership, Read, rest, cgs, At
<1>1. CASE Error(w)
  BY <1>0, <1>1, NotMidway, Zenon
<1>2. CASE ~Error(w)
  <2>1. PICK g \in LiveId(job[w].id) : \E l :
           job' = [job EXCEPT ![w].at = l, ![w].add = volumesToAdd(job[w].req.vols, g.members),
                              ![w].remove = volumesToRemove(job[w].req.vols, g.members)]
    BY <1>2, Zenon DEF ModifyVolumeGroupMembership, Read
  <2>2. /\ job'[w].add = volumesToAdd(job[w].req.vols, g.members) /\ job'[w].req = job[w].req
        /\ job'[w].remove = volumesToRemove(job[w].req.vols, g.members) /\ job'[w].id = job[w].id
    BY <2>1 DEF Shape, Fields
  <2>3. g \in LiveId(job[w].id)'
    BY <1>0, <2>1, <2>2, Zenon DEF LiveId, Live
  <2>4. job'[w].remove = g.members \ Range(job[w].req.vols)
    BY <2>2, Zenon DEF volumesToRemove
  <2>5. Adds(w)' = Range(job[w].req.vols) \ g.members
    BY <2>2, Zenon DEF Adds, volumesToAdd, Range
  <2>6. (g.members \ job'[w].remove) \cup Adds(w)' = Range(job'[w].req.vols)
    BY <2>2, <2>4, <2>5, Zenon
  <2>7. job'[w].remove \cap Range(job'[w].req.vols) = {}
    BY <2>2, <2>4, Zenon
  <2> QED
    BY <1>0, <2>2, <2>3, <2>6, <2>7, Zenon DEF Progress, Op
<1> QED
  BY <1>1, <1>2, Zenon

\* Every step of the worker's own keeps this.
LEMMA OwnProgress ==
    ASSUME Shape, Given, NEW w \in Worker, Progress(w), Alone(w), GroupStep(w)
    PROVE  Progress(w)'
<1>1. Moves(w)
  BY GroupFrame, Zenon
<1>2. CASE Op(w) \notin {"createGroup", "modify"}
  <2>1. Op(w)' \notin {"createGroup", "modify"}
    BY <1>1, <1>2, SMTT(60) DEF Moves, Op, Idle, NoRequest
  <2> QED
    BY <2>1, Zenon DEF Progress, Midway
<1>3. CASE Op(w) = "createGroup"
  <2>1. \/ \E o : CreateVolumeGroup(w, o) \/ CreateAdd(w, o)
        \/ CreateDone(w)
    BY <1>3, Zenon DEF GroupStep, DeleteVolumeGroup, ModifyVolumeGroupMembership, ModifyDone, ControllerGetVolumeGroup, createCG,
           SnapshotAnswer, GetVolumeGroupSnapshot, handleSCReplica, verifyCGExists, CreateVolumeGroupSnapshot, SnapshotName,
           DeleteConfirmed, ModifyAdd, ModifyRemove, CreateCGPost, CreateCGAdd, CreateSnapshotGroup,
           DeleteVolumeGroupSnapshot, CreateResource, CreateCGDone, At
  <2>2. ASSUME NEW o, CreateAdd(w, o) PROVE Progress(w)'
    BY <2>2, AddProgress, Zenon DEF CreateAdd, At, Midway
  <2>3. CreateDone(w) => Progress(w)'
    BY <1>1, NotMidway, Zenon DEF CreateDone, Moves
  <2> QED
    BY <2>1, <2>2, <2>3, CreateProgress, Zenon
<1>4. CASE Op(w) = "modify"
  <2>1. \E o : ModifyVolumeGroupMembership(w, o) \/ ModifyAdd(w, o) \/ ModifyRemove(w, o) \/ ModifyDone(w, o)
    BY <1>4, Zenon DEF GroupStep, DeleteVolumeGroup, ControllerGetVolumeGroup, createCG,
           SnapshotAnswer, GetVolumeGroupSnapshot, handleSCReplica, verifyCGExists, CreateVolumeGroupSnapshot, SnapshotName,
           DeleteConfirmed, CreateVolumeGroup, CreateAdd, CreateCGPost, CreateCGAdd, CreateSnapshotGroup,
           DeleteVolumeGroupSnapshot, CreateResource, CreateCGDone, CreateDone, At
  <2>2. ASSUME NEW o, ModifyAdd(w, o) PROVE Progress(w)'
    BY <2>2, AddProgress, Zenon DEF ModifyAdd, At, Midway
  <2>3. ASSUME NEW o, ModifyRemove(w, o) PROVE Progress(w)'
    BY <2>3, RemoveProgress, Zenon DEF ModifyRemove, At, Midway
  <2>4. ASSUME NEW o, ModifyDone(w, o) PROVE Progress(w)'
    <3>1. Error(w) \/ Answer(w)
      BY <2>4, Zenon DEF ModifyDone, Read
    <3> QED
      BY <1>1, <3>1, NotMidway, Zenon DEF Moves
  <2> QED
    BY <2>1, <2>2, <2>3, <2>4, ReadProgress, Zenon
<1> QED
  BY <1>2, <1>3, <1>4, Zenon

\* A worker without requests does nothing to the arrays.
LEMMA Bystander ==
    ASSUME Shape, NEW x \in Worker, scenario.requests[x] = {}, Start(x) \/ ReplicationStep(x) \/ GroupStep(x)
    PROVE  FALSE
<1>1. Op(x) = "none"
  BY SMTT(60) DEF Shape, Op, NoRequest
<1>2. CASE Start(x)
  BY <1>2, Zenon DEF Start
<1>3. CASE ReplicationStep(x)
  BY <1>1, <1>3, Zenon DEF ReplicationStep, EnableVolume, EnableList, DisableVolume, PromoteVolume, PromoteLink, PromoteSource,
         DemoteVolume, DemoteLink, DemoteRemote, GetVolumeReplicationInfo, EnableCreate, DisableDelete,
         PromoteDelete, PromoteCreate, DemoteDelete, DemoteCreate, ResyncVolume, At
<1>4. CASE GroupStep(x)
  BY <1>1, <1>4, Zenon DEF GroupStep, DeleteVolumeGroup, ModifyVolumeGroupMembership, ModifyDone, ControllerGetVolumeGroup, createCG,
         SnapshotAnswer, GetVolumeGroupSnapshot, handleSCReplica, verifyCGExists, CreateVolumeGroupSnapshot, SnapshotName,
         CreateVolumeGroup, CreateAdd, DeleteConfirmed, ModifyAdd, ModifyRemove, CreateCGPost, CreateCGAdd,
         CreateSnapshotGroup, DeleteVolumeGroupSnapshot, CreateResource, CreateDone, CreateCGDone, At
<1> QED
  BY <1>2, <1>3, <1>4, Zenon

\* The steps of a worker that are not of the group services leave the groups
\* alone, and no call midway through its changes goes on with them.
LEMMA OtherGroups ==
    ASSUME Shape, NEW w \in Worker, Start(w) \/ GiveUp(w) \/ Crash(w) \/ ReplicationStep(w)
    PROVE  UNCHANGED <<groups, lastGroup, scenario>> /\ (Progress(w) => Progress(w)')
<1>1. CASE Start(w)
  <2>1. UNCHANGED <<groups, lastGroup, scenario>>
    BY <1>1, Zenon DEF Start, cgs
  <2>2. PICK q \in scenario.requests[w], id \in UNION {Ids(p.op) : p \in scenario.requests[w]} :
          job' = [job EXCEPT ![w] = [Idle EXCEPT !.req = q, !.at = "start", !.id = id]]
    BY <1>1, Zenon DEF Start
  <2>3. job'[w].at = "start" /\ job'[w].remove = {}
    BY <2>2, Zenon DEF Shape, Idle
  <2> QED
    BY <2>1, <2>3, Zenon DEF Progress, Midway
<1>2. CASE GiveUp(w) \/ Crash(w)
  <2>1. UNCHANGED <<groups, lastGroup, scenario>> /\ (Error(w) \/ Answer(w))
    BY <1>2, Zenon DEF GiveUp, Crash, cgs, rest
  <2> QED
    BY <2>1, NotMidway, Zenon
<1>3. CASE ReplicationStep(w)
  <2>1. UNCHANGED cgs
    BY <1>3, Zenon DEF ReplicationStep, EnableVolume, EnableList, DisableVolume, PromoteVolume, PromoteLink, PromoteSource,
           DemoteVolume, DemoteLink, DemoteRemote, GetVolumeReplicationInfo, EnableCreate, DisableDelete,
           PromoteDelete, PromoteCreate, DemoteDelete, DemoteCreate, ResyncVolume, Read, Delete
  <2>2. Op(w) \notin {"createGroup", "modify"}
    BY <1>3, Zenon DEF ReplicationStep, EnableVolume, EnableList, DisableVolume, PromoteVolume, PromoteLink, PromoteSource,
           DemoteVolume, DemoteLink, DemoteRemote, GetVolumeReplicationInfo, EnableCreate, DisableDelete,
           PromoteDelete, PromoteCreate, DemoteDelete, DemoteCreate, ResyncVolume, At
  <2>3. Moves(w)
    BY <1>3, ReplicationFrame, Zenon
  <2>4. Op(w)' \notin {"createGroup", "modify"}
    BY <2>2, <2>3, StillAsked, Zenon
  <2> QED
    BY <2>1, <2>3, <2>4, Zenon DEF cgs, Moves, Progress, Midway
<1> QED
  BY <1>1, <1>2, <1>3, Zenon

GroupsInv == IInv /\ Given /\ \A w \in Worker : Progress(w)

\* The initial states have this.
LEMMA InitGroups == Init => GroupsInv
<1> SUFFICES ASSUME Init PROVE GroupsInv
  BY Zenon
<1>1. IInv
  BY InitIInv, Zenon
<1>2. Given
  BY Zenon DEF Init, Given
<1>3. \A w \in Worker : Op(w) = "none"
  BY Zenon DEF Init, Op, Idle, NoRequest
<1> QED
  BY <1>1, <1>2, <1>3, Zenon DEF GroupsInv, Progress, Midway

\* A step that touches neither the groups nor the job leaves the progress.
LEMMA ProgressStays ==
    ASSUME NEW w \in Worker, Progress(w), groups' = groups, scenario' = scenario, job'[w] = job[w]
    PROVE  Progress(w)'
<1>1. Alone(w)' = Alone(w) /\ Op(w)' = Op(w) /\ LiveId(job[w].id)' = LiveId(job[w].id)
  BY Zenon DEF Alone, Op, LiveId, Live
<1>2. Midway(w)' = Midway(w) /\ Adds(w)' = Adds(w)
  BY Zenon DEF Midway, Adds, Op
<1> QED
  BY <1>1, <1>2, Zenon DEF Progress

\* Every step keeps this: who is alone is disturbed by nobody.
LEMMA NextGroups == GroupsInv /\ [Next]_vars => GroupsInv'
<1> SUFFICES ASSUME GroupsInv, [Next]_vars PROVE GroupsInv'
  BY Zenon
<1>0. IInv /\ Shape /\ Given /\ \A w \in Worker : Progress(w)
  BY Zenon DEF GroupsInv, IInv
<1>1. IInv'
  BY <1>0, NextIInv, Zenon
<1>2. CASE UNCHANGED vars
  <2>1. UNCHANGED <<groups, lastGroup, job, scenario>>
    BY <1>2, Zenon DEF vars, cgs, rest
  <2>2. Given'
    BY <1>0, <2>1, GivenKept, Zenon DEF GroupsChange
  <2>3. \A w \in Worker : Progress(w)'
    BY <1>0, <2>1, ProgressStays, Zenon
  <2> QED
    BY <1>1, <2>2, <2>3, Zenon DEF GroupsInv
<1>3. CASE Next
  <2>1. PICK x \in Worker : Start(x) \/ GiveUp(x) \/ Crash(x) \/ ReplicationStep(x) \/ GroupStep(x)
    BY <1>3, Zenon DEF Next
  <2>2. Given'
    BY <1>0, <2>1, GroupWrites, OtherGroups, GivenKept, Zenon DEF GroupsChange
  <2>3. UNCHANGED scenario /\ \A w \in Worker : w # x => job'[w] = job[w]
    <3>1. CASE GroupStep(x)
      BY <1>0, <3>1, GroupFrame, Zenon DEF Moves
    <3>2. CASE ReplicationStep(x)
      BY <1>0, <3>2, ReplicationFrame, Zenon DEF Moves
    <3>3. CASE Start(x) \/ GiveUp(x) \/ Crash(x)
      BY <1>0, <3>3, OtherFrame, Zenon
    <3> QED
      BY <2>1, <3>1, <3>2, <3>3, Zenon
  <2>4. ASSUME NEW w \in Worker, Alone(w) PROVE Progress(w)'
    <3>1. CASE w = x
      BY <1>0, <2>1, <2>4, <3>1, OwnProgress, OtherGroups, Zenon
    <3>2. CASE w # x
      <4>1. scenario.requests[x] = {}
        BY <2>4, <3>2, Zenon DEF Alone
      <4>2. GiveUp(x) \/ Crash(x)
        BY <1>0, <2>1, <4>1, Bystander, Zenon
      <4>3. UNCHANGED groups /\ UNCHANGED scenario /\ job'[w] = job[w]
        BY <1>0, <2>3, <3>2, <4>2, OtherGroups, Zenon
      <4>4. Progress(w)
        BY <1>0, Zenon
      <4> QED
        BY <4>3, <4>4, ProgressStays, Zenon
    <3> QED
      BY <3>1, <3>2, Zenon
  <2>5. ASSUME NEW w \in Worker, ~Alone(w) PROVE Progress(w)'
    BY <2>3, <2>5, Zenon DEF Progress, Alone
  <2> QED
    BY <1>1, <2>2, <2>4, <2>5, Zenon DEF GroupsInv
<1> QED
  BY <1>2, <1>3, Zenon

\* A call that is under way is answered by a step of its own.
LEMMA Ended ==
    ASSUME Shape, Next, NEW w \in Worker, job[w].at \notin {"idle", "start"}, job'[w] = Idle
    PROVE  ~Error(w) /\ (ReplicationStep(w) \/ GroupStep(w))
<1>1. job'[w].at = "idle"
  BY IdleFacts, Zenon
<1>2. PICK x \in Worker : Start(x) \/ GiveUp(x) \/ Crash(x) \/ ReplicationStep(x) \/ GroupStep(x)
  BY Zenon DEF Next
<1>3. \A y \in Worker : y # x => job'[y] = job[y]
  <2>1. CASE GroupStep(x)
    BY <2>1, GroupFrame, Zenon DEF Moves
  <2>2. CASE ReplicationStep(x)
    BY <2>2, ReplicationFrame, Zenon DEF Moves
  <2>3. CASE Start(x) \/ GiveUp(x) \/ Crash(x)
    BY <2>3, OtherFrame, Zenon
  <2> QED
    BY <1>2, <2>1, <2>2, <2>3, Zenon
<1>4. x = w
  BY <1>1, <1>3, Zenon
<1>5. ~Error(w)
  BY <1>1, AtAfter, Zenon
<1>6. ~Start(w) /\ ~GiveUp(w) /\ ~Crash(w)
  BY <1>1, <1>5, Zenon DEF Start, Idle, GiveUp, Crash
<1> QED
  BY <1>2, <1>4, <1>5, <1>6, Zenon

\* Only its last step answers a call that is midway.
LEMMA ResizeEnds ==
    ASSUME Shape, Next, NEW w \in Worker, Midway(w), job'[w] = Idle
    PROVE  (UNCHANGED groups /\ job[w].add = {} /\ job[w].remove = {}) \/ CreateDone(w)
<1>1. job'[w].at = "idle" /\ job[w].at \notin {"idle", "start"}
  BY SMTT(60) DEF Idle, Midway
<1>2. ~Error(w) /\ (ReplicationStep(w) \/ GroupStep(w))
  BY <1>1, Ended, Zenon
<1>3. ~ReplicationStep(w)
  BY Zenon DEF Midway, ReplicationStep, EnableVolume, EnableList, DisableVolume, PromoteVolume, PromoteLink, PromoteSource,
         DemoteVolume, DemoteLink, DemoteRemote, GetVolumeReplicationInfo, EnableCreate, DisableDelete,
         PromoteDelete, PromoteCreate, DemoteDelete, DemoteCreate, ResyncVolume, At
<1>4. \/ \E o : CreateAdd(w, o) \/ ModifyAdd(w, o) \/ ModifyRemove(w, o) \/ ModifyDone(w, o)
      \/ CreateDone(w)
  BY <1>2, <1>3, Zenon DEF Midway, GroupStep, DeleteVolumeGroup, ControllerGetVolumeGroup, createCG,
         SnapshotAnswer, GetVolumeGroupSnapshot, handleSCReplica, verifyCGExists, CreateVolumeGroupSnapshot, SnapshotName,
         DeleteConfirmed, CreateVolumeGroup, CreateCGPost, CreateCGAdd, CreateSnapshotGroup,
         DeleteVolumeGroupSnapshot, CreateResource, CreateCGDone, ModifyVolumeGroupMembership, At
<1>5. ASSUME NEW o PROVE ~AddMember(w, o) /\ ~RemoveMember(w, o)
  <2>1. \A e : job' # [job EXCEPT ![w].add = e] /\ job' # [job EXCEPT ![w].remove = e]
    BY <1>1, Zenon DEF Shape, Fields
  <2>2. ~AddMember(w, o)
    BY <1>2, <2>1, Zenon DEF AddMember, Change
  <2>3. ~RemoveMember(w, o)
    BY <1>2, <2>1, Zenon DEF RemoveMember, Change
  <2> QED
    BY <2>2, <2>3, Zenon
<1>6. \A o : ~CreateAdd(w, o) /\ ~ModifyAdd(w, o) /\ ~ModifyRemove(w, o)
  BY <1>5, Zenon DEF CreateAdd, ModifyAdd, ModifyRemove
<1>7. ASSUME NEW o, ModifyDone(w, o) PROVE UNCHANGED groups /\ job[w].add = {} /\ job[w].remove = {}
  BY <1>7, Zenon DEF ModifyDone, Read, cgs
<1> QED
  BY <1>4, <1>6, <1>7, Zenon

\* When nobody else makes calls, a CreateVolumeGroup or a
\* ModifyVolumeGroupMembership that succeeds leaves the group with just the
\* volumes of the request: for any requests, and whatever failed, was lost or
\* was interrupted by restarts before.
THEOREM Membership == Spec => MembershipReached
<1> DEFINE Reached ==
      \A w \in Worker :
         Alone(w) /\ job[w].at \in {"add", "change", "clear"} /\ (Answered(w, "createGroup") \/ Answered(w, "modify")) =>
            \E g \in Live' : g.id = job[w].id /\ g.members = Range(job[w].req.vols)
<1>1. ASSUME GroupsInv, Next PROVE Reached
  <2> SUFFICES ASSUME NEW w \in Worker, Alone(w), job[w].at \in {"add", "change", "clear"},
                      Answered(w, "createGroup") \/ Answered(w, "modify")
               PROVE  \E g \in Live' : g.id = job[w].id /\ g.members = Range(job[w].req.vols)
    BY Zenon
  <2>1. Shape /\ Progress(w) /\ Midway(w) /\ job'[w] = Idle
    BY <1>1, Zenon DEF GroupsInv, IInv, Midway, Answered
  <2>2. PICK g \in LiveId(job[w].id) : (g.members \ job[w].remove) \cup Adds(w) = Range(job[w].req.vols)
    BY <2>1, Zenon DEF Progress
  <2>3. CreateDone(w) => UNCHANGED groups /\ job[w].add = {} /\ job[w].remove = {}
    BY <2>1, Zenon DEF CreateDone, At, Progress, cgs
  <2>4. UNCHANGED groups /\ job[w].add = {} /\ job[w].remove = {}
    BY <1>1, <2>1, <2>3, ResizeEnds, Zenon
  <2>5. g.members = Range(job[w].req.vols)
    BY <2>2, <2>4, Zenon DEF Adds
  <2> QED
    BY <2>2, <2>4, <2>5, Zenon DEF LiveId, Live
<1>2. GroupsInv /\ [Next]_vars => [Reached]_vars
  BY <1>1, Zenon
<1> HIDE DEF Reached
<1>3. Spec => [][Reached]_vars
  BY <1>2, InitGroups, NextGroups, PTL DEF Spec
<1> QED
  BY <1>3, Zenon DEF Reached, MembershipReached

----------------------------------------------------------------------------
(* The sources of the snapshots *)

LOCAL INSTANCE WellFoundedInduction

\* Of some positions there is a last one.
LEMMA LastPosition ==
    ASSUME NEW n \in Nat, NEW S, S \subseteq 1..n, S # {}
    PROVE  \E i \in S : \A k \in S : k <= i
<1> DEFINE R == OpToRel(<, Nat)
           T == {m \in Nat : \E i \in S : m = n - i}
<1>1. IsWellFoundedOn(R, Nat)
  BY NatLessThanWellFounded, Zenon
<1>2. \A x, y \in Nat : x < y => <<x, y>> \in R
  BY Zenon DEF OpToRel
<1>3. T \subseteq Nat /\ T # {}
  <2>1. PICK i : i \in S
    BY Zenon
  <2>2. n - i \in T
    BY <2>1
  <2> QED
    BY <2>2, Zenon
<1> HIDE DEF R
<1>4. PICK m \in T : \A y \in T : ~(<<y, m>> \in R)
  BY <1>1, <1>3, WFMin, Zenon
<1>5. PICK i \in S : m = n - i
  BY <1>4, Zenon
<1>6. ASSUME NEW k \in S PROVE k <= i
  <2>1. n - k \in T
    OBVIOUS
  <2>2. ~(n - k < m)
    BY <1>2, <1>4, <2>1, Zenon
  <2> QED
    BY <1>5, <2>2
<1> QED
  BY <1>5, <1>6, Zenon

\* Only the step that makes up the answer changes the answers.
LEMMA AnswerFrame ==
    ASSUME [Next]_vars
    PROVE  \/ UNCHANGED answer
           \/ \E w \in Worker : \E new : answer' = [answer EXCEPT ![w] = new]
<1>1. ASSUME NEW w \in Worker, Start(w) \/ GiveUp(w) \/ Crash(w)
      PROVE  UNCHANGED answer
  BY <1>1, Zenon DEF Start, GiveUp, Crash, rest
<1>2. ASSUME NEW w \in Worker, ReplicationStep(w)
      PROVE  UNCHANGED answer
  BY <1>2, Zenon DEF ReplicationStep, EnableVolume, EnableList, DisableVolume, PromoteVolume, PromoteLink, PromoteSource,
         DemoteVolume, DemoteLink, DemoteRemote, GetVolumeReplicationInfo, EnableCreate, DisableDelete,
         PromoteDelete, PromoteCreate, DemoteDelete, DemoteCreate, ResyncVolume, Read, Delete, rest
<1>3. ASSUME NEW w \in Worker, GroupStep(w)
      PROVE  UNCHANGED answer \/ \E new : answer' = [answer EXCEPT ![w] = new]
  <2>1. ASSUME NEW o, SnapshotAnswer(w, o)
        PROVE  UNCHANGED answer \/ \E new : answer' = [answer EXCEPT ![w] = new]
    BY <2>1, Zenon DEF SnapshotAnswer
  <2>2. ASSUME NEW o, \/ DeleteVolumeGroup(w, o) \/ ModifyVolumeGroupMembership(w, o) \/ ModifyDone(w, o)
                      \/ ControllerGetVolumeGroup(w, o) \/ createCG(w, o) \/ GetVolumeGroupSnapshot(w, o)
                      \/ handleSCReplica(w, o) \/ verifyCGExists(w, o) \/ CreateVolumeGroupSnapshot(w, o) \/ SnapshotName(w, o)
        PROVE  UNCHANGED answer
    BY <2>2, Zenon DEF DeleteVolumeGroup, GetOrSuccess, ModifyVolumeGroupMembership, ModifyDone, ControllerGetVolumeGroup,
           createCG, GetVolumeGroupSnapshot, handleSCReplica, verifyCGExists, CreateVolumeGroupSnapshot,
           SnapshotName, Read, Look, rest
  <2>3. ASSUME NEW o, \/ CreateVolumeGroup(w, o) \/ CreateAdd(w, o) \/ DeleteConfirmed(w, o) \/ ModifyAdd(w, o)
                      \/ ModifyRemove(w, o) \/ CreateCGPost(w, o) \/ CreateCGAdd(w, o) \/ CreateSnapshotGroup(w, o)
                      \/ DeleteVolumeGroupSnapshot(w, o) \/ CreateResource(w, o)
        PROVE  UNCHANGED answer
    BY <2>3, Zenon DEF CreateVolumeGroup, CreateAdd, DeleteConfirmed, ModifyAdd, ModifyRemove, CreateCGPost, CreateCGAdd,
           CreateSnapshotGroup, DeleteVolumeGroupSnapshot, CreateResource, Create, AddMember, RemoveMember, DeleteGroup,
           Change, rest
  <2>4. CreateDone(w) \/ CreateCGDone(w) => UNCHANGED answer
    BY Zenon DEF CreateDone, CreateCGDone, rest
  <2> QED
    BY <1>3, <2>1, <2>2, <2>3, <2>4, Zenon DEF GroupStep
<1>4. UNCHANGED vars => UNCHANGED answer
  BY Zenon DEF vars, rest
<1> QED
  BY <1>1, <1>2, <1>3, <1>4, Zenon DEF Next

\* A step of a snapshot's call that answers it has made up the answer.
LEMMA SnapEnds ==
    ASSUME Shape, Next, NEW w \in Worker, Op(w) = "snap", job[w].at = "members", job'[w] = Idle
    PROVE  \E o : SnapshotAnswer(w, o) /\ ~Error(w)
<1>1. ~Error(w) /\ (ReplicationStep(w) \/ GroupStep(w))
  BY Ended, Zenon
<1>2. ~ReplicationStep(w)
  BY Zenon DEF ReplicationStep, EnableVolume, EnableList, DisableVolume, PromoteVolume, PromoteLink, PromoteSource,
         DemoteVolume, DemoteLink, DemoteRemote, GetVolumeReplicationInfo, EnableCreate, DisableDelete,
         PromoteDelete, PromoteCreate, DemoteDelete, DemoteCreate, ResyncVolume, At
<1> QED
  BY <1>1, <1>2, Zenon DEF GroupStep, DeleteVolumeGroup, ControllerGetVolumeGroup, createCG, ModifyDone, CreateAdd, CreateDone,
         GetVolumeGroupSnapshot, handleSCReplica, verifyCGExists, CreateVolumeGroupSnapshot, SnapshotName, ModifyAdd,
         DeleteConfirmed, CreateVolumeGroup, CreateCGPost, CreateCGAdd, CreateSnapshotGroup, ModifyRemove,
         DeleteVolumeGroupSnapshot, CreateResource, CreateCGDone, ModifyVolumeGroupMembership, At

\* The source of the first volume of a family that matches nothing but itself
\* is itself.
LEMMA OwnSource ==
    ASSUME NEW vols \in Seq(Volume), NEW v, Matches(vols, v) # {}, Root[v] = v,
           \A u \in Range(vols) : <<v, u>> \notin Within
    PROVE  v \in Range(vols) /\ SourceVolume(vols, v) = v
<1>1. PICK n \in Nat : DOMAIN vols = 1..n
  OBVIOUS
<1>2. Matches(vols, v) \subseteq 1..n /\ \A i \in Matches(vols, v) : vols[i] = v
  BY <1>1, Zenon DEF Matches, Range
<1>3. \E i \in Matches(vols, v) : \A k \in Matches(vols, v) : k <= i
  BY <1>2, LastPosition, Zenon
<1>4. (CHOOSE i \in Matches(vols, v) : \A k \in Matches(vols, v) : k <= i) \in Matches(vols, v)
  BY <1>3, Zenon
<1>5. SourceVolume(vols, v) = v
  BY <1>2, <1>4, Zenon DEF SourceVolume
<1>6. v \in Range(vols)
  BY <1>1, <1>2, Zenon DEF Range
<1> QED
  BY <1>5, <1>6, Zenon

SnapInv == GroupsInv /\ scenario \in Scenarios /\ DOMAIN answer = Worker

\* Every step keeps this.
LEMMA NextSnap == SnapInv /\ [Next]_vars => SnapInv'
<1> SUFFICES ASSUME SnapInv, [Next]_vars PROVE SnapInv'
  BY Zenon
<1>1. GroupsInv'
  BY NextGroups, Zenon DEF SnapInv
<1>2. UNCHANGED scenario
  <2>0. Shape
    BY Zenon DEF SnapInv, GroupsInv, IInv
  <2>1. UNCHANGED vars => UNCHANGED scenario
    BY Zenon DEF vars, rest
  <2>2. ASSUME NEW w \in Worker, GroupStep(w) PROVE UNCHANGED scenario
    BY <2>0, <2>2, GroupFrame, Zenon DEF Moves
  <2>3. ASSUME NEW w \in Worker, Start(w) \/ GiveUp(w) \/ Crash(w) \/ ReplicationStep(w) PROVE UNCHANGED scenario
    BY <2>0, <2>3, OtherGroups, Zenon
  <2> QED
    BY <2>1, <2>2, <2>3, Zenon DEF Next
<1>3. DOMAIN answer' = Worker
  BY AnswerFrame, Zenon DEF SnapInv
<1> QED
  BY <1>1, <1>2, <1>3, Zenon DEF SnapInv

\* A snapshot CreateVolumeGroupSnapshot answers with, of a volume that is the
\* first of its family, is of a volume of the request and has its own source,
\* whoever else works on the group; unless the ID of the volume is part of the
\* ID of a volume of the request.
THEOREM OwnSources == Spec => SnapshotSources
<1> DEFINE Own ==
      \A w \in Worker :
         LET vols == job[w].req.vols
         IN  Answered(w, "snap") /\ job[w].at = "members" =>
               \A s \in answer'[w] :
                 Root[s.of] = s.of /\ (\A u \in Range(vols) : <<s.of, u>> \notin Within) =>
                    s.of \in Range(vols) /\ s.source = s.of
<1>1. ASSUME SnapInv, Next PROVE Own
  <2> SUFFICES ASSUME NEW w \in Worker, Answered(w, "snap"), job[w].at = "members",
                      NEW s \in answer'[w], Root[s.of] = s.of,
                      \A u \in Range(job[w].req.vols) : <<s.of, u>> \notin Within
               PROVE  s.of \in Range(job[w].req.vols) /\ s.source = s.of
    BY Zenon
  <2> DEFINE vols == job[w].req.vols
  <2>1. vols \in Seq(Volume)
    <3>1. job[w].req \in scenario.requests[w] /\ job[w].req.op = "snap"
      <4>1. job[w].req = NoRequest \/ job[w].req \in scenario.requests[w]
        BY <1>1, Zenon DEF SnapInv, GroupsInv, IInv, Shape
      <4>2. job[w].req.op = "snap"
        BY Zenon DEF Answered, Op
      <4> QED
        BY <4>1, <4>2, IdleFacts, Zenon
    <3>2. scenario.requests[w] \subseteq Request
      BY <1>1, ScenarioAssumption, Zenon DEF SnapInv
    <3> QED
      BY <3>1, <3>2, SnapAssumption, Zenon
  <2>2. PICK o : SnapshotAnswer(w, o) /\ ~Error(w)
    BY <1>1, SnapEnds, Zenon DEF SnapInv, GroupsInv, IInv, Answered
  <2>3. PICK g \in LiveId(job[w].id), h \in LiveId(job[w].id) :
          /\ Sourced(vols, h.members)
          /\ answer' = [answer EXCEPT ![w] = {[of |-> v, source |-> SourceVolume(vols, v)] : v \in g.members}]
    BY <2>2, Zenon DEF SnapshotAnswer
  <2>4. answer'[w] = {[of |-> v, source |-> SourceVolume(vols, v)] : v \in g.members}
    BY <1>1, <2>3, Zenon DEF SnapInv
  <2>5. g = h
    BY <1>1, <2>3, Zenon DEF SnapInv, GroupsInv, Given, LiveId, Live
  <2>6. PICK v \in g.members : s = [of |-> v, source |-> SourceVolume(vols, v)]
    BY <2>4, Zenon
  <2>7. s.of = v /\ s.source = SourceVolume(vols, v)
    BY <2>6, Zenon
  <2>8. Matches(vols, v) # {}
    BY <2>3, <2>5, Zenon DEF Sourced
  <2>9. v \in Range(vols) /\ SourceVolume(vols, v) = v
    <3>1. Root[v] = v /\ \A u \in Range(vols) : <<v, u>> \notin Within
      BY <2>7, Zenon
    <3> QED
      BY <2>1, <2>8, <3>1, OwnSource, Zenon
  <2> QED
    BY <2>7, <2>9, Zenon
<1>2. SnapInv /\ [Next]_vars => [Own]_vars
  BY <1>1, Zenon
<1> HIDE DEF Own
<1>3. Init => SnapInv
  BY InitGroups, Zenon DEF Init, SnapInv
<1>4. Spec => [][Own]_vars
  BY <1>2, <1>3, NextSnap, PTL DEF Spec
<1> QED
  BY <1>4, Zenon DEF Own, SnapshotSources
=============================================================================
