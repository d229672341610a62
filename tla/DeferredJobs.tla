---------------------------- MODULE DeferredJobs ----------------------------
(***************************************************************************)
(* What OperatorStatusQueue promises to the code that calls enqueue(): a   *)
(* job is carried out in the end, or given up after MaxAttempts attempts   *)
(* that all failed; it is attempted by one loop at a time and never again  *)
(* once it is over.  The promise lasts as long as the process: a restart   *)
(* forgets every job that is still pending.                                *)
(***************************************************************************)
EXTENDS Naturals

CONSTANTS Jobs, MaxAttempts

VARIABLES
  fate,     \* fate[j]: what has become of job j
  failed    \* failed[j]: the attempts of job j that failed

Fates == {"new", "pending", "done", "dropped", "lost"}

Init ==
  /\ fate = [j \in Jobs |-> "new"]
  /\ failed = [j \in Jobs |-> 0]

Submit(j) ==
  /\ fate[j] = "new"
  /\ fate' = [fate EXCEPT ![j] = "pending"]
  /\ UNCHANGED failed

Succeed(j) ==
  /\ fate[j] = "pending"
  /\ fate' = [fate EXCEPT ![j] = "done"]
  /\ UNCHANGED failed

Fail(j) ==
  /\ fate[j] = "pending"
  /\ failed' = [failed EXCEPT ![j] = @ + 1]
  /\ fate' = IF failed'[j] = MaxAttempts THEN [fate EXCEPT ![j] = "dropped"] ELSE fate

Forget ==
  /\ fate' = [j \in Jobs |-> IF fate[j] = "pending" THEN "lost" ELSE fate[j]]
  /\ UNCHANGED failed

Attempt(j) == Succeed(j) \/ Fail(j)

Next == Forget \/ \E j \in Jobs : Submit(j) \/ Attempt(j)

SafetySpec == Init /\ [][Next]_<<fate, failed>>

Spec == SafetySpec /\ \A j \in Jobs : WF_<<fate, failed>>(Attempt(j))
=============================================================================
