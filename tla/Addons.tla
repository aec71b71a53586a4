------------------------------- MODULE Addons -------------------------------
(***************************************************************************)
(* The replication service and the group services, with the workers that   *)
(* call them.  The services share the array and have no state of their own. *)
(***************************************************************************)
EXTENDS Replication, Groups

Next ==
    \E w \in Worker :
      \/ Start(w) \/ GiveUp(w) \/ Crash(w)
      \/ ReplicationStep(w)
      \/ GroupStep(w)

Spec == Init /\ [][Next]_vars
FairSpec == Spec /\ \A w \in Worker : WF_vars(ReplicationStep(w)) /\ WF_vars(GroupStep(w))
=============================================================================
