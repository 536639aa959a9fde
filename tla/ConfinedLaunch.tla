--------------------------- MODULE ConfinedLaunch ---------------------------
(***************************************************************************)
(* What a caller of startSandbox and waitForStop may rely on, without      *)
(* processes, semaphores, cgroups or retries.  The call settles once; only *)
(* a call that returned runs the program; the program runs at most once    *)
(* and only when confined; the verdict agrees with whether it ran, or the  *)
(* wait for it failed and says nothing.                                    *)
(***************************************************************************)

VARIABLES
  outcome,   \* of the call of startSandbox
  confined,  \* cgroups joined, limits written, usage counters cleared
  program,   \* the user's program; "failed" if it never ran and never will
  verdict    \* what WaitForProcess reported; "failed" if it could not tell

vars == <<outcome, confined, program, verdict>>

Init ==
  /\ outcome = "pending"
  /\ confined = FALSE
  /\ program = "absent"
  /\ verdict = "none"

\* The process may have died before the caller gets its pid.
Return ==
  /\ outcome = "pending"
  /\ outcome' = "returned"
  /\ confined' = TRUE
  /\ program' \in {"absent", "failed"}
  /\ UNCHANGED verdict

\* An exception reaches the caller, or Node.js dies.
Abort ==
  /\ outcome = "pending"
  /\ outcome' \in {"threw", "crashed"}
  /\ UNCHANGED <<confined, program, verdict>>

Start ==
  /\ outcome = "returned"
  /\ confined
  /\ program = "absent"
  /\ program' = "running"
  /\ UNCHANGED <<outcome, confined, verdict>>

\* execvpe failed, or the process was killed before it.
Fail ==
  /\ outcome = "returned"
  /\ program = "absent"
  /\ program' = "failed"
  /\ UNCHANGED <<outcome, confined, verdict>>

Finish ==
  /\ program = "running"
  /\ program' = "finished"
  /\ UNCHANGED <<outcome, confined, verdict>>

Report ==
  /\ verdict = "none"
  /\ \/ program = "finished" /\ verdict' \in {"exited", "signaled"}
     \/ program = "failed"   /\ verdict' \in {"error", "signaled"}
     \/ outcome = "returned" /\ verdict' = "failed"
  /\ UNCHANGED <<outcome, confined, program>>

Settle == Return \/ Abort

Next == Settle \/ Start \/ Fail \/ Finish \/ Report

SafeSpec == Init /\ [][Next]_vars

\* The call comes back; nothing is promised of the program.
Spec == SafeSpec /\ WF_vars(Settle)

=============================================================================
