------------------------------- MODULE Calls -------------------------------
(***************************************************************************)
(* A REST call to the InfiniBox array, as the driver's client code in      *)
(* iboxapi sees it.  A call that changes the array ends in one of three    *)
(* ways: the answer says it was done, an error comes back and nothing was  *)
(* done, or the array did it and the answer was lost (connection closed,   *)
(* context deadline, body that does not parse).  The client code returns   *)
(* the same kind of error for the last two.                                *)
(*                                                                         *)
(* Every bad outcome is charged to a budget, so that a run explores all    *)
(* placements of a bounded number of faults among the calls that may fail. *)
(***************************************************************************)
EXTENDS Naturals

CONSTANTS
    MaxFaults,      \* bound on failed calls, lost answers and crashes
    Failing         \* names of the calls that may fail

ASSUME MaxFaultsAssumption == MaxFaults \in Nat

VARIABLE faults     \* number of faults so far

\* Outcomes of a call that changes the array, and of one that only reads it.
Outcome == {"ok", "fail", "lost"}
ReadOutcome == {"ok", "fail"}

\* The caller saw success; the array carried the call out.
Ok(o) == o = "ok"
Done(o) == o # "fail"

Fault(call) ==
    /\ call \in Failing
    /\ faults < MaxFaults
    /\ faults' = faults + 1

Charge(call, o) == IF Ok(o) THEN UNCHANGED faults ELSE Fault(call)
=============================================================================
