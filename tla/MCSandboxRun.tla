---------------------------- MODULE MCSandboxRun ----------------------------
(***************************************************************************)
(* Small instances of SandboxRun.                                          *)
(***************************************************************************)
EXTENDS SandboxRun, TLC

CONSTANTS s1, s2

\* s1 may stay idle for one unit of time but not for two; s2 has no time limit.
OneLimited == s1 :> 3 @@ s2 :> -1
Unlimited   == s1 :> -1

=============================================================================
