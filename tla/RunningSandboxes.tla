-------------------------- MODULE RunningSandboxes --------------------------
(***************************************************************************)
(* What the callers of several sandboxes may rely on, without clocks,      *)
(* cgroups or a thread pool.  Each promise settles once; a verdict is      *)
(* about a program that has ended; a program that was stopped is never     *)
(* said to have ended by its own doing, and one that was not is never      *)
(* reported as cancelled; a promise that is rejected leaves no program     *)
(* that nobody stops; no sandbox acts on another.                          *)
(***************************************************************************)
EXTENDS TLAPS

CONSTANT Sandboxes

VARIABLES
  judge,     \* the Node.js process: "up" or "down"
  program,   \* "none", "running" or "ended", for each sandbox
  stopping,  \* the sandboxes whose stop() has been called
  outcome    \* of waitForStop: "pending", "rejected" or the result's status

vars == <<judge, program, stopping, outcome>>

Init ==
  /\ judge = "up"
  /\ program = [s \in Sandboxes |-> "none"]
  /\ stopping = {}
  /\ outcome = [s \in Sandboxes |-> "pending"]

Start(s) ==
  /\ judge = "up"
  /\ program[s] = "none"
  /\ program' = [program EXCEPT ![s] = "running"]
  /\ UNCHANGED <<judge, stopping, outcome>>

\* By the caller or because the time is up.
Stop(s) ==
  /\ judge = "up"
  /\ program[s] # "none"
  /\ stopping' = stopping \union {s}
  /\ UNCHANGED <<judge, program, outcome>>

End(s) ==
  /\ program[s] = "running"
  /\ program' = [program EXCEPT ![s] = "ended"]
  /\ UNCHANGED <<judge, stopping, outcome>>

\* A program that was over its limit at the last count may not have been
\* stopped.
Verdicts(s) ==
  {"TimeLimitExceeded"} \union
  IF s \in stopping THEN {"Cancelled"}
                    ELSE {"OK", "RuntimeError", "MemoryLimitExceeded"}

Judge(s) ==
  /\ judge = "up"
  /\ program[s] = "ended"
  /\ outcome[s] = "pending"
  /\ \E v \in Verdicts(s) : outcome' = [outcome EXCEPT ![s] = v]
  /\ UNCHANGED <<judge, program, stopping>>

\* The judge itself failed; a program that may still be running is stopped.
Reject(s) ==
  /\ judge = "up"
  /\ program[s] # "none"
  /\ outcome[s] = "pending"
  /\ outcome' = [outcome EXCEPT ![s] = "rejected"]
  /\ stopping' \in {stopping, stopping \union {s}}
  /\ program[s] = "running" => s \in stopping'
  /\ UNCHANGED <<judge, program>>

Down ==
  /\ judge = "up"
  /\ judge' = "down"
  /\ UNCHANGED <<program, stopping, outcome>>

Next ==
  \/ Down
  \/ \E s \in Sandboxes : Start(s) \/ Stop(s) \/ End(s) \/ Judge(s) \/ Reject(s)

SafeSpec == Init /\ [][Next]_vars

\* A program that is being stopped ends, even if the judge goes down.
Spec == SafeSpec /\ \A s \in Sandboxes : s \in stopping ~> program[s] # "running"

-----------------------------------------------------------------------------
(***************************************************************************)
(* What follows for the callers.                                           *)
(***************************************************************************)

\* A verdict is about a program that has ended, and a program that goes on
\* after its promise has settled is being stopped.
SettledRightly ==
  \A s \in Sandboxes :
    /\ outcome[s] \notin {"pending", "rejected"} => program[s] = "ended"
    /\ program[s] = "running" /\ outcome[s] # "pending" => s \in stopping
    /\ program[s] = "none" => outcome[s] = "pending"

\* What has settled stays as it is, and a program that has ended never runs again.
Settling ==
  [][\A s \in Sandboxes :
       /\ outcome[s] # "pending" => outcome'[s] = outcome[s]
       /\ program[s] = "ended" => program'[s] = "ended"]_vars

\* A promise settles once, and rightly, whatever is stopped and whoever fails
\* (the comment of this module; sandboxProcess.ts:53-97).
THEOREM SettledOnce == SafeSpec => []SettledRightly /\ Settling
<1> DEFINE Inv == /\ DOMAIN program = Sandboxes /\ DOMAIN outcome = Sandboxes
                  /\ program = [s \in Sandboxes |-> program[s]]
                  /\ outcome = [s \in Sandboxes |-> outcome[s]]
                  /\ SettledRightly
           Keep == \A s \in Sandboxes :
                     /\ outcome[s] # "pending" => outcome'[s] = outcome[s]
                     /\ program[s] = "ended" => program'[s] = "ended"
<1>1. Init => Inv
  BY DEF Init, SettledRightly
<1>2. Inv /\ [Next]_vars => Inv' /\ Keep
  <2> SUFFICES ASSUME Inv, [Next]_vars PROVE Inv' /\ Keep
    OBVIOUS
  <2>1. ASSUME NEW s \in Sandboxes, Start(s) PROVE Inv' /\ Keep
    BY <2>1 DEF Start, SettledRightly
  <2>2. ASSUME NEW s \in Sandboxes, Stop(s) PROVE Inv' /\ Keep
    BY <2>2 DEF Stop, SettledRightly
  <2>3. ASSUME NEW s \in Sandboxes, End(s) PROVE Inv' /\ Keep
    BY <2>3 DEF End, SettledRightly
  <2>4. ASSUME NEW s \in Sandboxes, Judge(s) PROVE Inv' /\ Keep
    <3>1. PICK v \in Verdicts(s) : outcome' = [outcome EXCEPT ![s] = v]
      BY <2>4 DEF Judge
    <3>2. v # "pending" /\ v # "rejected"
      BY <3>1 DEF Verdicts
    <3>3. QED
      BY <2>4, <3>1 DEF Judge, SettledRightly
  <2>5. ASSUME NEW s \in Sandboxes, Reject(s) PROVE Inv' /\ Keep
    BY <2>5 DEF Reject, SettledRightly
  <2>6. CASE Down
    BY <2>6 DEF Down, SettledRightly
  <2>7. CASE UNCHANGED vars
    BY <2>7 DEF vars, SettledRightly
  <2>8. QED
    BY <2>1, <2>2, <2>3, <2>4, <2>5, <2>6, <2>7 DEF Next
<1>3. Inv => SettledRightly
  OBVIOUS
<1> HIDE DEF Inv
<1>4. Inv /\ [Next]_vars => [Keep]_vars
  BY <1>2
<1>5. QED
  BY <1>1, <1>2, <1>3, <1>4, PTL DEF SafeSpec, Settling

=============================================================================
