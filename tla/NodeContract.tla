---------------------------- MODULE NodeContract ----------------------------
(***************************************************************************)
(* What the node plugin promises the kubelet, whatever fails inside: a     *)
(* target path is mounted only between the request to publish it and the   *)
(* confirmed unpublish; a confirmed publish is mounted and stays so until  *)
(* its unpublish is asked for; a volume is unstaged only without mounts.   *)
(***************************************************************************)
CONSTANTS Volume, Pod, Uses

VARIABLES
    stage,      \* stage[v]: what the kubelet knows of the volume
    pod,        \* pod[p]: what the kubelet knows of the pod's mount
    on          \* pods whose target path is mounted

vars == <<stage, pod, on>>

Init ==
    /\ stage = [v \in Volume |-> "detached"]
    /\ pod = [p \in Pod |-> "new"]
    /\ on = {}

\* What the kubelet and the attacher do between calls.
Ask ==
    /\ \/ \E p \in Pod :
            /\ \/ pod[p] = "new" /\ pod' = [pod EXCEPT ![p] = "publishing"]
                  /\ stage[Uses[p]] = "staged"
               \/ pod[p] = "new" /\ pod' = [pod EXCEPT ![p] = "gone"]
               \/ pod[p] \in {"publishing", "published"}
                  /\ pod' = [pod EXCEPT ![p] = "unpublishing"]
            /\ UNCHANGED stage
       \/ \E v \in Volume, s \in {"detached", "attached", "staging", "unstaging"} :
            /\ <<stage[v], s>> \in {<<"detached", "attached">>, <<"attached", "detached">>,
                                   <<"attached", "staging">>, <<"staging", "unstaging">>,
                                   <<"staged", "unstaging">>}
            /\ s = "unstaging" => \A p \in Pod : Uses[p] = v => pod[p] \in {"new", "gone"}
            /\ stage' = [stage EXCEPT ![v] = s]
            /\ UNCHANGED pod
    /\ UNCHANGED on

Stage(v) ==
    /\ stage[v] = "staging"
    /\ stage' = [stage EXCEPT ![v] = "staged"]
    /\ UNCHANGED <<pod, on>>

Mount(p) ==
    /\ pod[p] \in {"publishing", "unpublishing"} /\ stage[Uses[p]] = "staged"
    /\ on' = on \cup {p}
    /\ pod' \in {pod, [pod EXCEPT ![p] = IF @ = "publishing" THEN "published" ELSE @]}
    /\ UNCHANGED stage

Unmount(p) ==
    /\ pod[p] = "unpublishing"
    /\ on' = on \ {p}
    /\ pod' \in {pod, [pod EXCEPT ![p] = "gone"]}
    /\ UNCHANGED stage

Unstage(v) ==
    /\ stage[v] = "unstaging" /\ \A p \in on : Uses[p] # v
    /\ stage' = [stage EXCEPT ![v] = "attached"]
    /\ UNCHANGED <<pod, on>>

Next ==
    \/ Ask
    \/ \E v \in Volume : Stage(v) \/ Unstage(v)
    \/ \E p \in Pod : Mount(p) \/ Unmount(p)

Spec == Init /\ [][Next]_vars
=============================================================================
