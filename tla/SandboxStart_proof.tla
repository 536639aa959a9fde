-------------------------- MODULE SandboxStart_proof --------------------------
(***************************************************************************)
(* Proofs about SandboxStart for every number of retries.                  *)
(*                                                                         *)
(* The safety invariants are not inductive by themselves.  IInv adds what  *)
(* the program text guarantees between the steps: the cgroups of a name    *)
(* not yet used are untouched, the position of the parent tells which of   *)
(* the controllers and limits are in place, and the contents of the pipe   *)
(* follow from the positions of the child and of the parent.               *)
(***************************************************************************)
EXTENDS SandboxStart, SequenceTheorems, TLAPS

-----------------------------------------------------------------------------
(***************************************************************************)
(* The inductive invariant.                                                *)
(***************************************************************************)

AfterLimits == {"timedwait", "read", "clear", "post", "returned"}
AfterJoin   == {"limit"} \union AfterLimits
BeforeRead  == {"join", "limit", "timedwait", "read"}

\* semaphore1 was obtained and the pipe not read yet.
Obtained == pc = "read" /\ waitResult

\* An attempt that has not been made has left no trace.
Fresh(a) ==
  /\ life[a] = "unborn"
  /\ child[a] = "setup"
  /\ sem1[a] = 0
  /\ sem2[a] = 0
  /\ pipe[a] = << >>
  /\ limit[a] = NoLimits

FreshInv ==
  \A a \in Attempts :
    a > attempt \/ (a = attempt /\ pc = "clone") => Fresh(a)

\* attempt + retryTimes never changes while the retry loop goes on.
RetryInv == pc # "threw" => attempt + retryTimes = MAX_RETRY_TIMES + 1
                            /\ retryTimes >= 0

JoinInv ==
  /\ pc = "join" =>
       /\ k <= 3
       /\ life[attempt] = "alive" =>
            \A i \in 1..3 : i < k => ControllerSeq[i] \in member[attempt]
  /\ pc \in AfterJoin /\ life[attempt] = "alive"
       => member[attempt] = Controllers

\* The directories follow the same order, whatever becomes of the child.
GroupInv ==
  /\ pc = "join" =>
       \A i \in 1..3 : i < k => ControllerSeq[i] \in groups[attempt]
  /\ pc \in AfterJoin => groups[attempt] = Controllers

\* The limit files before the n-th write.
LimitsBefore(n) ==
  [f \in Files |-> IF (f = "mem" /\ n >= 4) \/ (f = "memsw" /\ n >= 5)
                   THEN "limit" ELSE "max"]

LimitInv ==
  /\ pc = "join" => limit[attempt] = NoLimits
  /\ pc = "limit" => limit[attempt] = LimitsBefore(k)
  /\ pc \in AfterLimits => limit[attempt] = AllLimits

ClearInv == pc \in {"post", "returned"} => cleared[attempt]

ResumeInv ==
  \A a \in Attempts :
    sem2[a] > 0 \/ child[a] \in {"exec", "running"}
      => pc = "returned" /\ a = attempt

\* What the pipe and semaphore1 hold before the parent has read.
PipeBefore(a) ==
  /\ child[a] \in {"setup", "inform"}
       => pipe[a] = << >> /\ sem1[a] = 0 /\ ~ Obtained
  /\ child[a] = "post"
       => pipe[a] = <<"ok">> /\ sem1[a] = 0 /\ ~ Obtained
  /\ child[a] = "wait" => pipe[a] = <<"ok">>
  /\ child[a] = "report" =>
       \/ pipe[a] = << >> /\ sem1[a] = 0 /\ ~ Obtained
       \/ pipe[a] = <<"ok">>
  /\ child[a] = "reportText" =>
       \/ pipe[a] = <<"length">> /\ sem1[a] = 0 /\ ~ Obtained
       \/ pipe[a] = <<"ok", "length">>
  /\ child[a] = "postError" =>
       \/ pipe[a] = <<"length", "text">> /\ sem1[a] = 0 /\ ~ Obtained
       \/ pipe[a] = <<"ok", "length", "text">>
  /\ child[a] = "exit" =>
       pipe[a] \in {<<"length", "text">>, <<"ok", "length", "text">>}
  /\ child[a] \notin {"exec", "running"}

\* What the pipe holds after the parent has read the child's "ok".
PipeAfter(a) ==
  /\ child[a] \in {"wait", "exec", "running", "report", "reportText",
                  "postError", "exit"}
  /\ child[a] \in {"wait", "exec", "running", "report"} => pipe[a] = << >>
  /\ child[a] = "reportText" => pipe[a] = <<"length">>
  /\ child[a] \in {"postError", "exit"} => pipe[a] = <<"length", "text">>

PipeInv ==
  /\ pc \in BeforeRead => PipeBefore(attempt)
  /\ pc \in {"clear", "post"} => PipeAfter(attempt)
  /\ waiter \in {"waiting", "reaped"} => PipeAfter(attempt)

\* What the kernel's record of the child implies.
StatusInv ==
  \A a \in Attempts :
    /\ status[a] = "exited" => child[a] \in {"exit", "running"}
    /\ life[a] \in {"zombie", "reaped"} => status[a] # "none"

WaiterInv ==
  /\ waiter # "none" => pc = "returned"
  /\ waiter = "waiting" => life[attempt] # "reaped"
  /\ waiter \notin {"none", "waiting", "failed"} => life[attempt] = "reaped"

\* Before the kill the child is only reaped by the probe.
StaleInv ==
  /\ pc = "probe" => ~ waitResult
  /\ StaleKillNeedsTimeout
  /\ pc \in {"join", "limit", "timedwait", "read", "probe", "clear", "post"}
       => life[attempt] # "reaped"

IInv ==
  /\ TypeOK
  /\ FreshInv
  /\ RetryInv
  /\ JoinInv
  /\ GroupInv
  /\ LimitInv
  /\ ClearInv
  /\ ResumeInv
  /\ PipeInv
  /\ StatusInv
  /\ WaiterInv
  /\ AbandonedChildKilled
  /\ VerdictMatchesChild
  /\ StaleInv

-----------------------------------------------------------------------------
(***************************************************************************)
(* Messages in the pipe.                                                   *)
(***************************************************************************)

Messages == Seq({"ok", "length", "text"})

LEMMA MessageTypes ==
  /\ << >> \in Messages
  /\ \A s \in Messages : s # << >> => Tail(s) \in Messages
  /\ \A s \in Messages, m \in {"ok", "length", "text"} : Append(s, m) \in Messages
BY DEF Messages

LEMMA MessageValues ==
  /\ <<"ok">> # << >> /\ <<"length">> # << >>
  /\ <<"length", "text">> # << >> /\ <<"ok", "length">> # << >>
  /\ <<"ok", "length", "text">> # << >>
  /\ Head(<<"ok">>) = "ok" /\ Head(<<"ok", "length">>) = "ok"
  /\ Head(<<"ok", "length", "text">>) = "ok"
  /\ Head(<<"length">>) = "length" /\ Head(<<"length", "text">>) = "length"
  /\ Tail(<<"ok">>) = << >>
  /\ Append(<< >>, "ok") = <<"ok">> /\ Append(<< >>, "length") = <<"length">>
  /\ TextFollows(<<"length", "text">>) /\ ~ TextFollows(<<"length">>)
BY DEF TextFollows

\* Two sequences of as many messages with the same members are equal.
LEMMA SameMessages ==
  ASSUME NEW s \in Messages, NEW t \in Messages, Len(s) = Len(t),
         \A i \in 1..Len(s) : s[i] = t[i]
  PROVE  s = t
BY SeqEqual DEF Messages

\* What a child writes after another message, and what is left of it.
LEMMA LaterMessages ==
  /\ Append(<<"ok">>, "length") = <<"ok", "length">>
  /\ Append(<<"length">>, "text") = <<"length", "text">>
  /\ Append(<<"ok", "length">>, "text") = <<"ok", "length", "text">>
  /\ Tail(<<"ok", "length">>) = <<"length">>
  /\ Tail(<<"ok", "length", "text">>) = <<"length", "text">>
<1>1. Append(<<"ok">>, "length") = <<"ok", "length">>
  <2> DEFINE s == Append(<<"ok">>, "length")
             t == <<"ok", "length">>
  <2>1. s \in Messages /\ t \in Messages /\ Len(s) = 2 /\ Len(t) = 2
    BY DEF Messages
  <2>2. \A i \in 1..2 : s[i] = t[i]
    OBVIOUS
  <2>3. QED
    BY <2>1, <2>2, SameMessages
<1>2. Append(<<"length">>, "text") = <<"length", "text">>
  <2> DEFINE s == Append(<<"length">>, "text")
             t == <<"length", "text">>
  <2>1. s \in Messages /\ t \in Messages /\ Len(s) = 2 /\ Len(t) = 2
    BY DEF Messages
  <2>2. \A i \in 1..2 : s[i] = t[i]
    OBVIOUS
  <2>3. QED
    BY <2>1, <2>2, SameMessages
<1>3. Append(<<"ok", "length">>, "text") = <<"ok", "length", "text">>
  <2> DEFINE s == Append(<<"ok", "length">>, "text")
             t == <<"ok", "length", "text">>
  <2>1. s \in Messages /\ t \in Messages /\ Len(s) = 3 /\ Len(t) = 3
    BY DEF Messages
  <2>2. \A i \in 1..3 : s[i] = t[i]
    OBVIOUS
  <2>3. QED
    BY <2>1, <2>2, SameMessages
<1>4. Tail(<<"ok", "length">>) = <<"length">>
  <2> DEFINE s == Tail(<<"ok", "length">>)
             t == <<"length">>
  <2>1. s \in Messages /\ t \in Messages /\ Len(s) = 1 /\ Len(t) = 1
    BY DEF Messages
  <2>2. \A i \in 1..1 : s[i] = t[i]
    OBVIOUS
  <2>3. QED
    BY <2>1, <2>2, SameMessages
<1>5. Tail(<<"ok", "length", "text">>) = <<"length", "text">>
  <2> DEFINE s == Tail(<<"ok", "length", "text">>)
             t == <<"length", "text">>
  <2>1. s \in Messages /\ t \in Messages /\ Len(s) = 2 /\ Len(t) = 2
    BY DEF Messages
  <2>2. \A i \in 1..2 : s[i] = t[i]
    OBVIOUS
  <2>3. QED
    BY <2>1, <2>2, SameMessages
<1>6. QED
  BY <1>1, <1>2, <1>3, <1>4, <1>5

-----------------------------------------------------------------------------
(***************************************************************************)
(* What the processes other than the parent leave alone.                   *)
(***************************************************************************)

ChildMoves(a) == ChildProcess(a) \/ Perish(a) \/ KillDelivered(a)

LEMMA ChildFrame ==
  ASSUME TypeOK, NEW a \in Attempts, ChildMoves(a)
  PROVE  /\ UNCHANGED <<parentVars, killed, groups, limit, cleared, waiter>>
         /\ life[a] = "alive" /\ life'[a] \in {"alive", "zombie"}
         /\ \A b \in Attempts \ {a} :
              /\ child'[b] = child[b] /\ life'[b] = life[b]
              /\ status'[b] = status[b] /\ member'[b] = member[b]
              /\ sem1'[b] = sem1[b] /\ sem2'[b] = sem2[b]
              /\ pipe'[b] = pipe[b]
<1> USE DEF TypeOK, parentVars, ipcVars, cgroupVars
<1>1. CASE ChildProcess(a) /\ ~ Exit(a)
  BY <1>1 DEF ChildProcess, ChildSetup, ChildSetupFails, ChildInform,
     ChildPost, ChildResume, ChildWaitFails, ChildExec, ChildExecFails,
     ChildReport, ChildReportText, ChildPostError, ChildStep
<1>2. CASE Exit(a) \/ Perish(a) \/ KillDelivered(a)
  BY <1>2 DEF Exit, Perish, KillDelivered, Die
<1>3. QED
  BY <1>1, <1>2 DEF ChildMoves

LEMMA WaitFrame ==
  ASSUME WaitForProcess
  PROVE  UNCHANGED <<parentVars, child, status, killed, sem1, sem2, cgroupVars>>
BY DEF WaitForProcess, WaitReap, WaitThrows, WaitRead, procVars, ipcVars

-----------------------------------------------------------------------------
(***************************************************************************)
(* Type correctness.                                                       *)
(***************************************************************************)

LEMMA InitType == ASSUME Init PROVE TypeOK
<1>1. 1 \in Attempts /\ MAX_RETRY_TIMES \in -1..MAX_RETRY_TIMES
  BY RetryAssumption DEF Attempts
<1>2. pipe \in [Attempts -> Messages]
  BY MessageTypes DEF Init
<1>3. 1 \in 1..Len(LimitWrites)
  BY DEF LimitWrites
<1>4. limit \in [Attempts -> [Files -> {"max", "limit"}]]
  BY DEF Init, NoLimits
<1>5. QED
  BY <1>1, <1>2, <1>3, <1>4
  DEF Init, TypeOK, ParentSteps, ChildSteps, Messages

LEMMA TypeStep == ASSUME IInv, Next PROVE TypeOK'
<1> USE DEF TypeOK, ParentSteps, Final, ChildSteps, parentVars, procVars,
            ipcVars, cgroupVars, Throw, Goto
<1>0. TypeOK
  BY DEF IInv
<1>1. CASE Clone
  BY <1>0, <1>1 DEF Clone, LimitWrites
<1>2. CASE CloneFails
  BY <1>0, <1>2 DEF CloneFails
<1>3. CASE JoinGroup
  <2>1. k \in 1..3
    BY <1>0, <1>3 DEF IInv, JoinInv, JoinGroup, LimitWrites
  <2>2. ControllerSeq[k] \in Controllers
    BY <2>1 DEF ControllerSeq, Controllers
  <2>3. k' \in 1..5
    BY <2>1, <1>3 DEF JoinGroup, ControllerSeq
  <2>4. /\ groups' \in [Attempts -> SUBSET Controllers]
        /\ member' \in [Attempts -> SUBSET Controllers]
    BY <1>0, <1>3, <2>2 DEF JoinGroup
  <2>5. killed' \subseteq Attempts
    BY <1>0, <1>3 DEF JoinGroup, JoinedEarlier
  <2>6. QED
    BY <1>0, <1>3, <2>3, <2>4, <2>5 DEF JoinGroup, LimitWrites
<1>4. CASE JoinGroupFails
  <2>1. k \in 1..3
    BY <1>0, <1>4 DEF IInv, JoinInv, JoinGroupFails, LimitWrites
  <2>2. ControllerSeq[k] \in Controllers
    BY <2>1 DEF ControllerSeq, Controllers
  <2>3. groups' \in [Attempts -> SUBSET Controllers]
    <3>1. CASE groups' = groups
      BY <1>0, <3>1
    <3>2. CASE groups' = [groups EXCEPT ![attempt] = @ \union {ControllerSeq[k]}]
      BY <1>0, <2>2, <3>2
    <3>3. QED
      BY <1>4, <3>1, <3>2 DEF JoinGroupFails
  <2>4. /\ pc' = "kill" /\ error' = "other"
        /\ UNCHANGED <<attempt, retryTimes, k, waitResult, child, life, status,
                       ipcVars, member, limit, cleared, waiter>>
    BY <1>4 DEF JoinGroupFails
  <2>5. killed' \subseteq Attempts
    BY <1>0, <1>4 DEF JoinGroupFails, JoinedEarlier
  <2>6. QED
    BY <1>0, <2>3, <2>4, <2>5
<1>5. CASE WriteLimit
  <2>1. k \in 1..5
    BY <1>0 DEF LimitWrites
  <2>2. /\ LimitWrites[k].file \in Files
        /\ LimitWrites[k].val \in {"max", "limit"}
    BY <2>1 DEF LimitWrites, Files
  <2>3. limit' \in [Attempts -> [Files -> {"max", "limit"}]]
    BY <1>0, <1>5, <2>2 DEF WriteLimit
  <2>4. k' \in 1..5
    BY <2>1, <1>5 DEF WriteLimit, LimitWrites
  <2>5. QED
    BY <1>0, <1>5, <2>3, <2>4 DEF WriteLimit, LimitWrites
<1>6. CASE WriteLimitFails \/ TimedWaitFails \/ ClearUsageFails
  BY <1>0, <1>6 DEF WriteLimitFails, TimedWaitFails, ClearUsageFails
<1>7. CASE TimedWaitOk
  BY <1>0, <1>7 DEF TimedWaitOk
<1>8. CASE TimedWaitExpires
  BY <1>0, <1>8 DEF TimedWaitExpires
<1>9. CASE ReadNothing \/ ReadOk \/ ReadError
  <2>1. pipe[attempt] # << >> => Tail(pipe[attempt]) \in Messages
    BY <1>0, MessageTypes DEF Messages
  <2>2. pipe' \in [Attempts -> Messages]
    BY <1>0, <1>9, <2>1, MessageTypes DEF ReadNothing, ReadOk, ReadError, Messages
  <2>3. QED
    BY <1>0, <1>9, <2>2 DEF ReadNothing, ReadOk, ReadError, Messages
<1>10. CASE Probe
  BY <1>0, <1>10 DEF Probe
<1>11. CASE ClearUsage
  BY <1>0, <1>11 DEF ClearUsage
<1>12. CASE PostContinue
  BY <1>0, <1>12 DEF PostContinue
<1>13. CASE CatchKill
  BY <1>0, <1>13 DEF CatchKill, KilledByCatch
<1>14. CASE CatchReap
  BY <1>0, <1>14 DEF CatchReap
<1>15. CASE Retry
  BY SMTT(20), <1>0, <1>15, RetryAssumption DEF Retry, MayRetry, IInv, RetryInv, Attempts
<1>16. CASE GiveUp
  BY <1>0, <1>16, RetryAssumption DEF GiveUp, MayRetry, IInv, RetryInv
<1>17. CASE NodeCrash
  BY <1>0, <1>17 DEF NodeCrash
<1>18. CASE WaitReap \/ WaitThrows
  BY <1>0, <1>18 DEF WaitReap, WaitThrows, Verdicts
<1>19. CASE WaitRead
  <2>1. pipe' \in [Attempts -> Messages]
    BY <1>0, <1>19, MessageTypes DEF WaitRead, Messages
  <2>2. waiter' \in {"error", "none", "exited", "signaled", "failed"}
    BY <1>0, <1>19 DEF WaitRead
  <2>3. QED
    BY <1>0, <1>19, <2>1, <2>2 DEF WaitRead, Messages, Verdicts
<1>20. ASSUME NEW a \in Attempts, ChildProcess(a) /\ ~ Exit(a)
       PROVE  TypeOK'
  <2>1. CASE ChildInform(a) \/ ChildReport(a) \/ ChildReportText(a)
    <3>1. PICK m \in {"ok", "length", "text"} :
            pipe' = [pipe EXCEPT ![a] = Append(@, m)]
      BY <2>1 DEF ChildInform, ChildReport, ChildReportText
    <3>2. Append(pipe[a], m) \in Messages
      BY <1>0, MessageTypes DEF Messages
    <3>3. pipe' \in [Attempts -> Messages]
      BY <1>0, <3>1, <3>2 DEF Messages
    <3>4. QED
      BY ZenonT(60), <1>0, <2>1, <3>3
      DEF ChildInform, ChildReport, ChildReportText, ChildStep, Messages
  <2>2. CASE ChildPost(a) \/ ChildPostError(a)
    <3>1. sem1' = [sem1 EXCEPT ![a] = @ + 1]
      BY <2>2 DEF ChildPost, ChildPostError
    <3>2. sem1' \in [Attempts -> Nat]
      BY <1>0, <3>1
    <3>3. QED
      BY ZenonT(60), <1>0, <2>2, <3>2 DEF ChildPost, ChildPostError, ChildStep
  <2>3. CASE ChildResume(a)
    BY <1>0, <2>3 DEF ChildResume, ChildStep
  <2>4. CASE \/ ChildSetup(a) \/ ChildSetupFails(a) \/ ChildWaitFails(a)
             \/ ChildExec(a) \/ ChildExecFails(a)
    BY ZenonT(60), <1>0, <2>4 DEF ChildSetup, ChildSetupFails, ChildWaitFails, ChildExec,
       ChildExecFails, ChildStep
  <2>5. QED
    BY <1>20, <2>1, <2>2, <2>3, <2>4 DEF ChildProcess
<1>21. ASSUME NEW a \in Attempts, Exit(a) \/ Perish(a) \/ KillDelivered(a)
       PROVE  TypeOK'
  BY ZenonT(60), <1>0, <1>21 DEF Exit, Perish, KillDelivered, Die
<1>22. QED
  BY <1>1, <1>2, <1>3, <1>4, <1>5, <1>6, <1>7, <1>8, <1>9, <1>10, <1>11,
     <1>12, <1>13, <1>14, <1>15, <1>16, <1>17, <1>18, <1>19, <1>20, <1>21
  DEF Next, Parent, StartSandbox, WaitForProcess

-----------------------------------------------------------------------------
(***************************************************************************)
(* The parent's program counter.                                           *)
(***************************************************************************)

\* The steps of the parent that raise an exception.
Throws == \/ JoinGroupFails \/ WriteLimitFails \/ TimedWaitFails
          \/ ReadError \/ Probe \/ ClearUsageFails

LEMMA ThrowsFrame ==
  ASSUME Throws
  PROVE  /\ pc \in {"join", "limit", "timedwait", "read", "probe", "clear"}
         /\ pc' = "kill"
         /\ UNCHANGED <<attempt, retryTimes, k, waitResult, child, status,
                        sem1, sem2, member, limit, cleared, waiter>>
         /\ killed \subseteq killed'
BY DEF Throws, JoinGroupFails, WriteLimitFails, TimedWaitFails, ReadError,
   Probe, ClearUsageFails, Throw, procVars, ipcVars, cgroupVars

LEMMA NextCases ==
  ASSUME Next
  PROVE  \/ Clone \/ CloneFails \/ JoinGroup \/ WriteLimit
         \/ TimedWaitOk \/ TimedWaitExpires \/ ReadNothing \/ ReadOk
         \/ ClearUsage \/ PostContinue \/ Throws
         \/ CatchKill \/ CatchReap \/ Retry \/ GiveUp \/ NodeCrash
         \/ WaitForProcess
         \/ \E a \in Attempts : ChildMoves(a)
BY DEF Next, Parent, StartSandbox, Throws, ChildMoves

LEMMA RetryStep == ASSUME IInv, Next PROVE RetryInv'
<1> USE DEF RetryInv, Goto
<1>0. TypeOK /\ RetryInv
  BY DEF IInv
<1>1. CASE Clone \/ CloneFails \/ JoinGroup \/ WriteLimit
  BY <1>0, <1>1 DEF Clone, CloneFails, JoinGroup, WriteLimit
<1>2. CASE TimedWaitOk \/ TimedWaitExpires \/ ReadNothing \/ ReadOk
  BY <1>0, <1>2 DEF TimedWaitOk, TimedWaitExpires, ReadNothing, ReadOk
<1>3. CASE ClearUsage \/ PostContinue \/ CatchKill \/ CatchReap
  BY <1>0, <1>3 DEF ClearUsage, PostContinue, CatchKill, CatchReap
<1>4. CASE Throws
  BY <1>0, <1>4, ThrowsFrame
<1>5. CASE Retry
  BY <1>0, <1>5 DEF Retry, MayRetry, TypeOK, Attempts
<1>6. CASE GiveUp \/ NodeCrash
  BY <1>0, <1>6 DEF GiveUp, MayRetry, NodeCrash, ParentSteps
<1>7. CASE WaitForProcess \/ \E a \in Attempts : ChildMoves(a)
  BY <1>0, <1>7, WaitFrame, ChildFrame DEF parentVars
<1>8. QED
  BY <1>1, <1>2, <1>3, <1>4, <1>5, <1>6, <1>7, NextCases

\* Only Clone makes a process, and only for the current attempt.
LEMMA FreshStep == ASSUME IInv, Next PROVE FreshInv'
<1> USE DEF FreshInv, Fresh, TypeOK, Goto, procVars, ipcVars, cgroupVars
<1>0. TypeOK /\ FreshInv
  BY DEF IInv
<1>1. CASE Clone
  BY <1>0, <1>1 DEF Clone, Attempts
<1>2. CASE CloneFails
  BY <1>0, <1>2 DEF CloneFails
<1>3. CASE JoinGroup
  BY <1>0, <1>3 DEF JoinGroup
<1>4. CASE WriteLimit
  BY <1>0, <1>4 DEF WriteLimit, Attempts
<1>5. CASE TimedWaitOk
  BY <1>0, <1>5 DEF TimedWaitOk, Attempts
<1>6. CASE TimedWaitExpires
  BY <1>0, <1>6 DEF TimedWaitExpires
<1>7. CASE ReadNothing \/ ReadOk
  BY <1>0, <1>7 DEF ReadNothing, ReadOk, Attempts
<1>8. CASE ClearUsage \/ CatchKill
  BY <1>0, <1>8 DEF ClearUsage, CatchKill
<1>9. CASE PostContinue
  BY <1>0, <1>9 DEF PostContinue, Attempts
<1>10. CASE CatchReap
  BY <1>0, <1>10 DEF CatchReap, Attempts
<1>11. CASE Throws
  <2>1. \A a \in Attempts : a > attempt => life'[a] = life[a] /\ pipe'[a] = pipe[a]
    BY <1>0, <1>11 DEF Throws, JoinGroupFails, WriteLimitFails, TimedWaitFails,
       ReadError, Probe, ClearUsageFails, Attempts
  <2>2. QED
    BY <1>0, <1>11, <2>1, ThrowsFrame
<1>12. CASE Retry
  BY <1>0, <1>12 DEF Retry, Attempts
<1>13. CASE GiveUp \/ NodeCrash
  BY <1>0, <1>13 DEF GiveUp, NodeCrash
<1>14. CASE WaitForProcess
  <2>1. CASE WaitReap
    BY <1>0, <2>1 DEF WaitReap, parentVars
  <2>2. CASE WaitRead
    BY <1>0, <2>2 DEF WaitRead, parentVars
  <2>3. CASE WaitThrows
    BY <1>0, <2>3 DEF WaitThrows, parentVars
  <2>4. QED
    BY <1>14, <2>1, <2>2, <2>3 DEF WaitForProcess
<1>15. ASSUME NEW a \in Attempts, ChildMoves(a) PROVE FreshInv'
  <2>1. ~ Fresh(a) /\ ~ (a > attempt \/ (a = attempt /\ pc = "clone"))
    BY <1>0, <1>15, ChildFrame
  <2>2. \A b \in Attempts \ {a} : Fresh(b) => Fresh(b)'
    BY <1>0, <1>15, ChildFrame
  <2>3. QED
    BY <1>0, <1>15, <2>1, <2>2, ChildFrame DEF parentVars
<1>16. QED
  BY <1>1, <1>2, <1>3, <1>4, <1>5, <1>6, <1>7, <1>8, <1>9, <1>10, <1>11,
     <1>12, <1>13, <1>14, <1>15, NextCases

\* The steps after which the parent is on its way out of StartSandbox, or was
\* there already.
LEMMA LeavingSteps ==
  ASSUME TypeOK, RetryInv,
         CloneFails \/ Throws \/ CatchKill \/ CatchReap \/ GiveUp \/ NodeCrash
  PROVE  pc' \in {"kill", "reap", "retry", "threw", "crashed"}
BY ThrowsFrame DEF CloneFails, CatchKill, CatchReap, GiveUp, NodeCrash, Goto

LEMMA JoinStep == ASSUME IInv, Next PROVE JoinInv'
<1> USE DEF JoinInv, AfterJoin, AfterLimits
<1>0. TypeOK /\ JoinInv /\ RetryInv
  BY DEF IInv
<1>1. CASE Clone
  BY <1>1 DEF Clone
<1>2. CASE JoinGroup
  <2>1. k \in 1..3
    BY <1>0, <1>2 DEF JoinGroup, TypeOK, LimitWrites
  <2>2. life' = life /\ attempt' = attempt
    BY <1>2 DEF JoinGroup
  <2>3. life[attempt] = "alive"
          => member'[attempt] = member[attempt] \union {ControllerSeq[k]}
    BY <1>0, <1>2 DEF JoinGroup, TypeOK
  <2>4. CASE k < 3
    <3>1. pc' = "join" /\ k' = k + 1
      BY <1>2, <2>4 DEF JoinGroup, ControllerSeq
    <3>2. QED
      BY <1>0, <1>2, <2>1, <2>2, <2>3, <2>4, <3>1 DEF JoinGroup
  <2>5. CASE k = 3
    <3>1. pc' = "limit"
      BY <1>2, <2>5 DEF JoinGroup, ControllerSeq
    <3>2. life[attempt] = "alive" =>
            /\ {ControllerSeq[1], ControllerSeq[2], ControllerSeq[3]}
                  \subseteq member'[attempt]
            /\ member'[attempt] \subseteq Controllers
      BY <1>0, <1>2, <2>3, <2>5
      DEF JoinGroup, TypeOK, ControllerSeq, Controllers
    <3>3. life[attempt] = "alive" => member'[attempt] = Controllers
      BY <3>2 DEF ControllerSeq, Controllers
    <3>4. QED
      BY <2>2, <3>1, <3>3
  <2>6. QED
    BY <2>1, <2>4, <2>5
<1>3. CASE WriteLimit
  BY <1>0, <1>3 DEF WriteLimit, procVars
<1>4. CASE TimedWaitOk \/ TimedWaitExpires \/ ReadNothing \/ ReadOk
  BY <1>0, <1>4 DEF TimedWaitOk, TimedWaitExpires, ReadNothing, ReadOk, Goto,
     procVars, cgroupVars
<1>5. CASE ClearUsage \/ PostContinue
  BY <1>0, <1>5 DEF ClearUsage, PostContinue, Goto, procVars, cgroupVars
<1>6. CASE CloneFails \/ Throws \/ CatchKill \/ CatchReap \/ GiveUp \/ NodeCrash
  BY <1>0, <1>6, LeavingSteps
<1>7. CASE Retry
  BY <1>7 DEF Retry
<1>8. CASE WaitForProcess
  <2>1. life'[attempt] = "alive" => life[attempt] = "alive"
    BY <1>0, <1>8 DEF WaitForProcess, WaitReap, WaitThrows, WaitRead, TypeOK, procVars
  <2>2. QED
    BY <1>0, <1>8, <2>1, WaitFrame DEF parentVars, cgroupVars
<1>9. ASSUME NEW a \in Attempts, ChildMoves(a) PROVE JoinInv'
  <2>1. UNCHANGED <<pc, attempt, k>>
    BY <1>0, <1>9, ChildFrame DEF parentVars
  <2>2. life'[attempt] = "alive"
          => life[attempt] = "alive" /\ member'[attempt] = member[attempt]
    <3>1. CASE a # attempt
      BY <1>0, <1>9, <3>1, ChildFrame DEF TypeOK
    <3>2. CASE a = attempt /\ (Exit(a) \/ Perish(a) \/ KillDelivered(a))
      BY <1>0, <3>2 DEF Exit, Perish, KillDelivered, Die, TypeOK
    <3>3. CASE ChildProcess(a) /\ ~ Exit(a)
      BY <3>3 DEF ChildProcess, ChildSetup, ChildSetupFails, ChildInform,
         ChildPost, ChildResume, ChildWaitFails, ChildExec, ChildExecFails,
         ChildReport, ChildReportText, ChildPostError, ChildStep, cgroupVars
    <3>4. QED
      BY <1>9, <3>1, <3>2, <3>3 DEF ChildMoves
  <2>3. QED
    BY <1>0, <2>1, <2>2
<1>10. QED
  BY <1>1, <1>2, <1>3, <1>4, <1>5, <1>6, <1>7, <1>8, <1>9, NextCases

LEMMA GroupStep == ASSUME IInv, Next PROVE GroupInv'
<1> USE DEF GroupInv, AfterJoin, AfterLimits
<1>0. TypeOK /\ GroupInv /\ RetryInv
  BY DEF IInv
<1>1. CASE Clone
  BY <1>1 DEF Clone
<1>2. CASE JoinGroup
  <2>1. k \in 1..3
    BY <1>2 DEF JoinGroup, IInv, JoinInv, TypeOK, LimitWrites
  <2>2. /\ attempt' = attempt
        /\ groups'[attempt] = groups[attempt] \union {ControllerSeq[k]}
    BY <1>0, <1>2 DEF JoinGroup, TypeOK
  <2>3. CASE k < 3
    <3>1. pc' = "join" /\ k' = k + 1
      BY <1>2, <2>3 DEF JoinGroup, ControllerSeq
    <3>2. QED
      BY <1>0, <1>2, <2>1, <2>2, <3>1 DEF JoinGroup
  <2>4. CASE k = 3
    <3>1. pc' = "limit"
      BY <1>2, <2>4 DEF JoinGroup, ControllerSeq
    <3>2. /\ {ControllerSeq[1], ControllerSeq[2], ControllerSeq[3]}
                \subseteq groups'[attempt]
          /\ groups'[attempt] \subseteq Controllers
      BY <1>0, <1>2, <2>2, <2>4
      DEF JoinGroup, TypeOK, ControllerSeq, Controllers
    <3>3. groups'[attempt] = Controllers
      BY <3>2 DEF ControllerSeq, Controllers
    <3>4. QED
      BY <2>2, <3>1, <3>3
  <2>5. QED
    BY <2>1, <2>3, <2>4
<1>3. CASE WriteLimit
  BY <1>0, <1>3 DEF WriteLimit
<1>4. CASE TimedWaitOk \/ TimedWaitExpires \/ ReadNothing \/ ReadOk
  BY <1>0, <1>4 DEF TimedWaitOk, TimedWaitExpires, ReadNothing, ReadOk, Goto,
     cgroupVars
<1>5. CASE ClearUsage \/ PostContinue
  BY <1>0, <1>5 DEF ClearUsage, PostContinue, Goto, cgroupVars
<1>6. CASE CloneFails \/ Throws \/ CatchKill \/ CatchReap \/ GiveUp \/ NodeCrash
  BY <1>0, <1>6, LeavingSteps
<1>7. CASE Retry
  BY <1>7 DEF Retry
<1>8. CASE WaitForProcess \/ \E a \in Attempts : ChildMoves(a)
  BY <1>0, <1>8, WaitFrame, ChildFrame DEF parentVars, cgroupVars
<1>9. QED
  BY <1>1, <1>2, <1>3, <1>4, <1>5, <1>6, <1>7, <1>8, NextCases

LEMMA LimitProgress ==
  /\ LimitsBefore(1) = NoLimits
  /\ \A n \in 1..4 :
       [LimitsBefore(n) EXCEPT ![LimitWrites[n].file] = LimitWrites[n].val]
         = LimitsBefore(n + 1)
  /\ [LimitsBefore(5) EXCEPT ![LimitWrites[5].file] = LimitWrites[5].val]
       = AllLimits
<1> USE DEF LimitsBefore, LimitWrites, Files, NoLimits, AllLimits
<1>1. \A n \in 1..4 : n = 1 \/ n = 2 \/ n = 3 \/ n = 4
  OBVIOUS
<1>2. [LimitsBefore(1) EXCEPT ![LimitWrites[1].file] = LimitWrites[1].val]
        = LimitsBefore(2)
  OBVIOUS
<1>3. [LimitsBefore(2) EXCEPT ![LimitWrites[2].file] = LimitWrites[2].val]
        = LimitsBefore(3)
  OBVIOUS
<1>4. [LimitsBefore(3) EXCEPT ![LimitWrites[3].file] = LimitWrites[3].val]
        = LimitsBefore(4)
  OBVIOUS
<1>5. [LimitsBefore(4) EXCEPT ![LimitWrites[4].file] = LimitWrites[4].val]
        = LimitsBefore(5)
  <2>1. LimitWrites[4].file = "memsw" /\ LimitWrites[4].val = "limit"
    OBVIOUS
  <2>2. \A f \in Files : LimitsBefore(5)[f]
          = IF f = "memsw" THEN "limit" ELSE LimitsBefore(4)[f]
    OBVIOUS
  <2>3. [LimitsBefore(4) EXCEPT !["memsw"] = "limit"] = LimitsBefore(5)
    BY <2>2
  <2>4. QED
    BY <2>1, <2>3
<1>6. QED
  BY <1>1, <1>2, <1>3, <1>4, <1>5

LEMMA LimitStep == ASSUME IInv, Next PROVE LimitInv'
<1> USE DEF LimitInv, AfterLimits
<1>0. TypeOK /\ LimitInv /\ FreshInv /\ RetryInv
  BY DEF IInv
<1>1. CASE Clone
  BY <1>0, <1>1 DEF Clone, FreshInv, Fresh, TypeOK, cgroupVars
<1>2. CASE JoinGroup
  <2>1. limit' = limit /\ attempt' = attempt
    BY <1>2 DEF JoinGroup
  <2>2. pc' = "join" \/ (pc' = "limit" /\ k' = 1)
    BY <1>2 DEF JoinGroup
  <2>3. LimitsBefore(1) = limit[attempt] /\ limit[attempt] = NoLimits
    BY <1>0, <1>2, LimitProgress DEF JoinGroup
  <2>4. QED
    BY <2>1, <2>2, <2>3
<1>3. CASE WriteLimit
  <2>1. limit[attempt] = LimitsBefore(k)
    BY <1>0, <1>3 DEF WriteLimit
  <2>2. k \in 1..5
    BY <1>0 DEF TypeOK, LimitWrites
  <2>3. limit'[attempt] = [LimitsBefore(k) EXCEPT ![LimitWrites[k].file]
                             = LimitWrites[k].val]
    BY <1>0, <1>3, <2>1 DEF WriteLimit, TypeOK
  <2>4. attempt' = attempt
    BY <1>3 DEF WriteLimit
  <2>5. CASE k < 5
    <3>1. pc' = "limit" /\ k' = k + 1
      BY <1>3, <2>5 DEF WriteLimit, LimitWrites
    <3>2. limit'[attempt] = LimitsBefore(k + 1)
      BY <2>2, <2>3, <2>5, LimitProgress
    <3>3. QED
      BY <2>4, <3>1, <3>2
  <2>6. CASE k = 5
    <3>1. pc' = "timedwait"
      BY <1>3, <2>6 DEF WriteLimit, LimitWrites
    <3>2. limit'[attempt] = AllLimits
      BY <2>3, <2>6, LimitProgress
    <3>3. QED
      BY <2>4, <3>1, <3>2
  <2>7. QED
    BY <2>2, <2>5, <2>6
<1>4. CASE TimedWaitOk \/ TimedWaitExpires \/ ReadNothing \/ ReadOk
  BY <1>0, <1>4 DEF TimedWaitOk, TimedWaitExpires, ReadNothing, ReadOk, Goto,
     cgroupVars
<1>5. CASE ClearUsage \/ PostContinue
  BY <1>0, <1>5 DEF ClearUsage, PostContinue, Goto, cgroupVars
<1>6. CASE CloneFails \/ Throws \/ CatchKill \/ CatchReap \/ GiveUp \/ NodeCrash
  BY <1>0, <1>6, LeavingSteps
<1>7. CASE Retry
  BY <1>7 DEF Retry
<1>8. CASE WaitForProcess \/ \E a \in Attempts : ChildMoves(a)
  BY <1>0, <1>8, WaitFrame, ChildFrame DEF parentVars, cgroupVars
<1>9. QED
  BY <1>1, <1>2, <1>3, <1>4, <1>5, <1>6, <1>7, <1>8, NextCases

LEMMA ClearStep == ASSUME IInv, Next PROVE ClearInv'
<1> USE DEF ClearInv
<1>0. TypeOK /\ ClearInv /\ RetryInv
  BY DEF IInv
<1>1. CASE Clone \/ JoinGroup \/ WriteLimit \/ TimedWaitOk \/ TimedWaitExpires
  BY <1>1 DEF Clone, JoinGroup, WriteLimit, TimedWaitOk, TimedWaitExpires
<1>2. CASE ReadNothing \/ ReadOk \/ Retry
  BY <1>2 DEF ReadNothing, ReadOk, Retry, Goto
<1>3. CASE ClearUsage
  BY <1>0, <1>3 DEF ClearUsage, Goto, TypeOK
<1>4. CASE PostContinue
  BY <1>0, <1>4 DEF PostContinue, Goto, cgroupVars
<1>5. CASE CloneFails \/ Throws \/ CatchKill \/ CatchReap \/ GiveUp \/ NodeCrash
  BY <1>0, <1>5, LeavingSteps
<1>6. CASE WaitForProcess \/ \E a \in Attempts : ChildMoves(a)
  BY <1>0, <1>6, WaitFrame, ChildFrame DEF parentVars, cgroupVars
<1>7. QED
  BY <1>1, <1>2, <1>3, <1>4, <1>5, <1>6, NextCases

\* While the parent is on its way, no child has been let through semaphore2.
LEMMA ResumeStep == ASSUME IInv, Next PROVE ResumeInv'
<1> USE DEF ResumeInv
<1>0. TypeOK /\ ResumeInv
  BY DEF IInv
<1>1. CASE PostContinue
  <2>1. \A a \in Attempts : sem2[a] = 0 /\ child[a] \notin {"exec", "running"}
    BY <1>0, <1>1 DEF PostContinue, TypeOK
  <2>2. QED
    BY <1>0, <1>1, <2>1 DEF PostContinue, TypeOK, Goto, procVars
<1>2. ASSUME pc # "returned", UNCHANGED <<child, sem2>> PROVE ResumeInv'
  BY <1>0, <1>2
<1>3. CASE \/ Clone \/ CloneFails \/ JoinGroup \/ WriteLimit
           \/ TimedWaitOk \/ TimedWaitExpires
  BY <1>2, <1>3 DEF Clone, CloneFails, JoinGroup, WriteLimit, TimedWaitOk,
     TimedWaitExpires, procVars, ipcVars
<1>4. CASE ReadNothing \/ ReadOk \/ ClearUsage \/ CatchKill \/ CatchReap
  BY <1>2, <1>4 DEF ReadNothing, ReadOk, ClearUsage, CatchKill, CatchReap,
     procVars, ipcVars
<1>5. CASE Throws
  BY <1>2, <1>5, ThrowsFrame
<1>6. CASE Retry \/ GiveUp \/ NodeCrash
  BY <1>2, <1>6 DEF Retry, GiveUp, NodeCrash, ParentSteps, procVars, ipcVars
<1>7. CASE WaitForProcess
  BY <1>0, <1>7, WaitFrame DEF parentVars
<1>8. ASSUME NEW a \in Attempts, ChildMoves(a) PROVE ResumeInv'
  <2>1. sem2'[a] > 0 \/ child'[a] \in {"exec", "running"}
          => sem2[a] > 0 \/ child[a] \in {"exec", "running"}
    <3>1. CASE ChildProcess(a) /\ ~ Exit(a)
      BY <1>0, <3>1 DEF TypeOK, ChildProcess, ChildSetup, ChildSetupFails,
         ChildInform, ChildPost, ChildResume, ChildWaitFails, ChildExec,
         ChildExecFails, ChildReport, ChildReportText, ChildPostError, ChildStep, ipcVars
    <3>2. CASE Exit(a) \/ Perish(a) \/ KillDelivered(a)
      BY <3>2 DEF Exit, Perish, KillDelivered, Die, ipcVars
    <3>3. QED
      BY <1>8, <3>1, <3>2 DEF ChildMoves
  <2>2. QED
    BY <1>0, <1>8, <2>1, ChildFrame DEF parentVars
<1>9. QED
  BY <1>1, <1>3, <1>4, <1>5, <1>6, <1>7, <1>8, NextCases

\* A zombie has a status, and only a program that ran, or a child that had
\* reported its error, has the status "exited".
LEMMA StatusStep == ASSUME IInv, Next PROVE StatusInv'
<1> USE DEF StatusInv
<1>0. TypeOK /\ StatusInv
  BY DEF IInv
<1>1. ASSUME UNCHANGED <<child, status>>,
             \A a \in Attempts : life'[a] \in {"zombie", "reaped"}
                                 => life[a] \in {"zombie", "reaped"}
      PROVE  StatusInv'
  BY <1>0, <1>1
<1>2. CASE Clone
  BY <1>0, <1>1, <1>2 DEF Clone, TypeOK
<1>3. CASE \/ CloneFails \/ JoinGroup \/ WriteLimit \/ TimedWaitOk
           \/ TimedWaitExpires \/ ReadNothing \/ ReadOk
  BY <1>1, <1>3 DEF CloneFails, JoinGroup, WriteLimit, TimedWaitOk,
     TimedWaitExpires, ReadNothing, ReadOk, procVars
<1>4. CASE \/ ClearUsage \/ PostContinue \/ CatchKill \/ Retry \/ GiveUp
           \/ NodeCrash
  BY <1>1, <1>4 DEF ClearUsage, PostContinue, CatchKill, Retry, GiveUp,
     NodeCrash, procVars
<1>5. CASE CatchReap
  BY <1>0, <1>1, <1>5 DEF CatchReap, TypeOK
<1>6. CASE Throws
  <2>1. \A a \in Attempts : life'[a] \in {"zombie", "reaped"}
                            => life[a] \in {"zombie", "reaped"}
    BY <1>0, <1>6 DEF Throws, JoinGroupFails, WriteLimitFails, TimedWaitFails,
       ReadError, Probe, ClearUsageFails, procVars, TypeOK
  <2>2. QED
    BY <1>1, <1>6, <2>1, ThrowsFrame
<1>7. CASE WaitForProcess
  <2>1. \A a \in Attempts : life'[a] \in {"zombie", "reaped"}
                            => life[a] \in {"zombie", "reaped"}
    BY <1>0, <1>7 DEF WaitForProcess, WaitReap, WaitThrows, WaitRead, procVars, TypeOK
  <2>2. QED
    BY <1>1, <1>7, <2>1, WaitFrame
<1>8. ASSUME NEW a \in Attempts, ChildMoves(a) PROVE StatusInv'
  <2>1. /\ status'[a] = "exited" => child'[a] \in {"exit", "running"}
        /\ life'[a] \in {"zombie", "reaped"} => status'[a] # "none"
    <3>1. CASE ChildProcess(a) /\ ~ Exit(a)
      <4>1. UNCHANGED <<life, status>> /\ child[a] \notin {"exit", "running"}
        BY <3>1 DEF ChildProcess, ChildSetup, ChildSetupFails, ChildInform,
           ChildPost, ChildResume, ChildWaitFails, ChildExec, ChildExecFails,
           ChildReport, ChildReportText, ChildPostError, ChildStep
      <4>2. QED
        BY <1>0, <4>1
    <3>2. CASE Exit(a)
      BY <1>0, <3>2 DEF Exit, Die, TypeOK
    <3>3. CASE Perish(a) \/ KillDelivered(a)
      BY <1>0, <3>3 DEF Perish, KillDelivered, Die, TypeOK
    <3>4. QED
      BY <1>8, <3>1, <3>2, <3>3 DEF ChildMoves
  <2>2. QED
    BY <1>0, <1>8, <2>1, ChildFrame
<1>9. QED
  BY <1>2, <1>3, <1>4, <1>5, <1>6, <1>7, <1>8, NextCases

LEMMA WaiterStep == ASSUME IInv, Next PROVE WaiterInv'
<1> USE DEF WaiterInv
<1>0. TypeOK /\ WaiterInv
  BY DEF IInv
<1>1. ASSUME pc # "returned", waiter' = waiter PROVE WaiterInv'
  BY <1>0, <1>1
<1>2. CASE \/ Clone \/ CloneFails \/ JoinGroup \/ WriteLimit \/ TimedWaitOk
           \/ TimedWaitExpires \/ ReadNothing \/ ReadOk
  BY <1>1, <1>2 DEF Clone, CloneFails, JoinGroup, WriteLimit, TimedWaitOk,
     TimedWaitExpires, ReadNothing, ReadOk
<1>3. CASE ClearUsage \/ CatchKill \/ CatchReap \/ Retry \/ GiveUp \/ NodeCrash
  BY <1>1, <1>3 DEF ClearUsage, CatchKill, CatchReap, Retry, GiveUp,
     NodeCrash, ParentSteps
<1>4. CASE Throws
  BY <1>1, <1>4, ThrowsFrame
<1>5. CASE PostContinue
  <2>1. life[attempt] # "reaped"
    BY <1>5 DEF PostContinue, IInv, StaleInv
  <2>2. QED
    BY <1>5, <2>1 DEF PostContinue, Goto, procVars
<1>6. CASE WaitReap \/ WaitThrows
  BY <1>0, <1>6 DEF WaitReap, WaitThrows, parentVars, TypeOK
<1>7. CASE WaitRead
  <2>1. UNCHANGED <<pc, attempt, life>> /\ waiter = "reaped" /\ attempt \in Attempts
    BY <1>0, <1>7 DEF WaitRead, parentVars, procVars, TypeOK
  <2>2. waiter' # "waiting"
    BY <1>0, <1>7, <2>1 DEF WaitRead, TypeOK
  <2>3. QED
    BY <1>0, <2>1, <2>2
<1>8. ASSUME NEW a \in Attempts, ChildMoves(a) PROVE WaiterInv'
  BY <1>0, <1>8, ChildFrame DEF parentVars, TypeOK
<1>9. QED
  BY <1>2, <1>3, <1>4, <1>5, <1>6, <1>7, <1>8, NextCases DEF WaitForProcess

LEMMA AbandonedStep == ASSUME IInv, Next PROVE AbandonedChildKilled'
<1> USE DEF AbandonedChildKilled
<1>0. TypeOK /\ AbandonedChildKilled
  BY DEF IInv
<1>1. ASSUME pc' \notin {"reap", "retry", "threw"}, attempt' = attempt,
             killed \subseteq killed',
             \A a \in Attempts : a < attempt /\ life'[a] = "alive"
                                 => life[a] = "alive"
      PROVE  AbandonedChildKilled'
  BY <1>0, <1>1
<1>2. CASE Clone
  BY <1>0, <1>1, <1>2 DEF Clone, TypeOK, Attempts
<1>3. CASE CloneFails
  <2>1. \A a \in Attempts : a >= attempt => life[a] = "unborn"
    BY <1>0, <1>3 DEF CloneFails, IInv, FreshInv, Fresh, TypeOK, Attempts
  <2>2. QED
    BY <1>0, <1>3, <2>1 DEF CloneFails, procVars, TypeOK, Attempts
<1>4. CASE \/ JoinGroup \/ WriteLimit \/ TimedWaitOk \/ TimedWaitExpires
           \/ ReadNothing \/ ReadOk
  BY <1>1, <1>4 DEF JoinGroup, WriteLimit, TimedWaitOk, TimedWaitExpires,
     ReadNothing, ReadOk, Goto, procVars
<1>5. CASE ClearUsage \/ PostContinue \/ NodeCrash
  BY <1>1, <1>5 DEF ClearUsage, PostContinue, NodeCrash, Goto, procVars
<1>6. CASE Throws
  <2>1. \A a \in Attempts : life'[a] = "alive" => life[a] = "alive"
    BY <1>0, <1>6 DEF Throws, JoinGroupFails, WriteLimitFails, TimedWaitFails,
       ReadError, Probe, ClearUsageFails, procVars, TypeOK
  <2>2. QED
    BY <1>1, <1>6, <2>1, ThrowsFrame
<1>7. CASE CatchKill
  <2>1. \A a \in Attempts : a > attempt => life[a] = "unborn"
    BY <1>0 DEF IInv, FreshInv, Fresh
  <2>2. QED
    BY <1>0, <1>7, <2>1 DEF CatchKill, KilledByCatch, Goto, TypeOK, Attempts
<1>8. CASE CatchReap
  BY <1>0, <1>8 DEF CatchReap, Goto, TypeOK
<1>9. CASE Retry
  BY <1>0, <1>9 DEF Retry, procVars, TypeOK, Attempts
<1>10. CASE GiveUp
  BY <1>0, <1>10 DEF GiveUp, MayRetry, procVars
<1>11. CASE WaitForProcess
  <2>1. \A a \in Attempts : life'[a] = "alive" => life[a] = "alive"
    BY <1>0, <1>11 DEF WaitForProcess, WaitReap, WaitThrows, WaitRead, procVars, TypeOK
  <2>2. QED
    BY <1>0, <1>11, <2>1, WaitFrame DEF parentVars
<1>12. ASSUME NEW a \in Attempts, ChildMoves(a) PROVE AbandonedChildKilled'
  BY <1>0, <1>12, ChildFrame DEF parentVars
<1>13. QED
  BY <1>2, <1>3, <1>4, <1>5, <1>6, <1>7, <1>8, <1>9, <1>10, <1>11, <1>12,
     NextCases

-----------------------------------------------------------------------------
(***************************************************************************)
(* The pipe.                                                               *)
(***************************************************************************)

\* A step that leaves the current attempt's child, pipe and semaphore1 alone
\* and does not obtain the semaphore preserves what the pipe holds.
LEMMA PipeUnchanged ==
  ASSUME PipeInv,
         pc' = pc \/ pc' \notin {"join", "limit", "timedwait", "read", "clear", "post"}
           \/ (pc \in BeforeRead /\ pc' \in BeforeRead)
           \/ (pc = "clear" /\ pc' = "post"),
         Obtained' => Obtained,
         attempt' = attempt, child'[attempt] = child[attempt],
         pipe'[attempt] = pipe[attempt], sem1'[attempt] = sem1[attempt],
         waiter' \in {"waiting", "reaped"}
           => waiter \in {"waiting", "reaped"} \/ pc = "post"
  PROVE  PipeInv'
BY DEF PipeInv, PipeBefore, PipeAfter, BeforeRead

LEMMA PipeChildStep ==
  ASSUME IInv, ChildMoves(attempt) PROVE PipeInv'
<1> USE DEF ChildStep, BeforeRead, ipcVars
<1>0. TypeOK /\ PipeInv /\ ResumeInv /\ WaiterInv
  BY DEF IInv
<1>1. attempt \in Attempts /\ UNCHANGED <<parentVars, waiter>>
  BY <1>0, ChildFrame DEF TypeOK
<1>2. UNCHANGED <<pc, attempt, waitResult, Obtained, waiter>>
  BY <1>1 DEF parentVars, Obtained
<1>3. /\ pc \in BeforeRead /\ PipeBefore(attempt) => PipeBefore(attempt)'
      /\ PipeAfter(attempt) => PipeAfter(attempt)'
  <2> USE DEF PipeBefore, PipeAfter
  <2>1. CASE ChildSetup(attempt) \/ ChildSetupFails(attempt)
    BY <1>0, <1>1, <1>2, <2>1 DEF ChildSetup, ChildSetupFails, TypeOK
  <2>2. CASE ChildInform(attempt)
    BY <1>0, <1>1, <1>2, <2>2, MessageValues DEF ChildInform, TypeOK
  <2>3. CASE ChildPost(attempt)
    BY <1>0, <1>1, <1>2, <2>3 DEF ChildPost, TypeOK
  <2>4. CASE ChildResume(attempt)
    <3>1. /\ pc = "returned" /\ child[attempt] = "wait"
          /\ child'[attempt] = "exec" /\ pipe' = pipe
      BY <1>0, <1>1, <2>4 DEF ChildResume, ResumeInv, TypeOK
    <3>2. QED
      BY <1>2, <3>1
  <2>5. CASE ChildWaitFails(attempt)
    BY <1>0, <1>1, <1>2, <2>5 DEF ChildWaitFails, TypeOK
  <2>6. CASE ChildExec(attempt) \/ ChildExecFails(attempt)
    BY <1>0, <1>1, <1>2, <2>6 DEF ChildExec, ChildExecFails, TypeOK
  <2>7. CASE ChildReport(attempt)
    <3>1. /\ child[attempt] = "report" /\ child'[attempt] = "reportText"
          /\ pipe'[attempt] = Append(pipe[attempt], "length") /\ sem1' = sem1
      BY <1>0, <1>1, <2>7 DEF ChildReport, TypeOK
    <3>2. QED
      BY <1>2, <3>1, MessageValues, LaterMessages
  <2>8. CASE ChildReportText(attempt)
    <3>1. /\ child[attempt] = "reportText" /\ child'[attempt] = "postError"
          /\ pipe'[attempt] = Append(pipe[attempt], "text") /\ sem1' = sem1
      BY <1>0, <1>1, <2>8 DEF ChildReportText, TypeOK
    <3>2. QED
      BY <1>2, <3>1, LaterMessages
  <2>9. CASE ChildPostError(attempt)
    BY <1>0, <1>1, <1>2, <2>9 DEF ChildPostError, TypeOK
  <2>10. CASE Exit(attempt) \/ Perish(attempt) \/ KillDelivered(attempt)
    BY <1>2, <2>10 DEF Exit, Perish, KillDelivered, Die
  <2>11. QED
    BY <2>1, <2>2, <2>3, <2>4, <2>5, <2>6, <2>7, <2>8, <2>9, <2>10
    DEF ChildMoves, ChildProcess
<1>4. QED
  BY <1>0, <1>2, <1>3 DEF PipeInv

LEMMA PipeStep == ASSUME IInv, Next PROVE PipeInv'
<1> USE DEF BeforeRead, Goto
<1>0. TypeOK /\ PipeInv /\ WaiterInv /\ RetryInv
  BY DEF IInv
<1>1. CASE Clone
  <2>1. /\ child'[attempt] = "setup" /\ pipe'[attempt] = << >>
        /\ sem1'[attempt] = 0 /\ pc' = "join" /\ attempt' = attempt
        /\ waiter' = "none"
    BY <1>0, <1>1
    DEF Clone, ipcVars, IInv, FreshInv, Fresh, TypeOK, WaiterInv
  <2>2. QED
    BY <2>1 DEF PipeInv, PipeBefore, Obtained
<1>2. CASE JoinGroup \/ WriteLimit
  <2>1. ~ Obtained'
    BY <1>2 DEF JoinGroup, WriteLimit, Obtained
  <2>2. QED
    BY <1>0, <1>2, <2>1, PipeUnchanged DEF JoinGroup, WriteLimit, procVars, ipcVars
<1>3. CASE TimedWaitOk
  <2>1. /\ pc = "timedwait" /\ pc' = "read" /\ sem1[attempt] > 0
        /\ UNCHANGED <<attempt, child, pipe, waiter>>
    BY <1>3 DEF TimedWaitOk, procVars
  <2>2. sem1'[attempt] = sem1[attempt] - 1 /\ sem1[attempt] \in Nat
    BY <1>0, <1>3 DEF TimedWaitOk, TypeOK
  <2>3. PipeBefore(attempt) /\ ~ Obtained
    BY <1>0, <2>1 DEF PipeInv, Obtained
  <2>4. child[attempt] \notin {"setup", "inform", "post"}
    BY <2>1, <2>3 DEF PipeBefore
  <2>5. child[attempt] = "report" => pipe[attempt] = <<"ok">>
    BY <2>1, <2>3 DEF PipeBefore
  <2>6. /\ child[attempt] = "reportText" => pipe[attempt] = <<"ok", "length">>
        /\ child[attempt] = "postError" => pipe[attempt] = <<"ok", "length", "text">>
    BY <2>1, <2>3 DEF PipeBefore
  <2>7. PipeBefore(attempt)'
    BY <2>1, <2>3, <2>4, <2>5, <2>6 DEF PipeBefore
  <2>8. waiter = "none"
    BY <1>0, <2>1 DEF WaiterInv
  <2>9. QED
    BY <2>1, <2>7, <2>8 DEF PipeInv
<1>4. CASE TimedWaitExpires
  <2>1. ~ Obtained'
    BY <1>4 DEF TimedWaitExpires, Obtained
  <2>2. QED
    BY <1>0, <1>4, <2>1, PipeUnchanged DEF TimedWaitExpires, procVars, ipcVars
<1>5. CASE ReadNothing
  BY <1>0, <1>5 DEF ReadNothing, PipeInv, WaiterInv
<1>6. CASE ReadOk
  <2>1. /\ Obtained /\ PipeBefore(attempt) /\ pc' = "clear" /\ waiter' = "none"
        /\ attempt' = attempt /\ child' = child
    BY <1>0, <1>6 DEF ReadOk, Obtained, PipeInv, WaiterInv, procVars
  <2>2. pipe'[attempt] = Tail(pipe[attempt]) /\ Head(pipe[attempt]) = "ok"
    BY <1>0, <1>6 DEF ReadOk, TypeOK
  <2>3. child[attempt] \in {"wait", "report", "reportText", "postError", "exit"}
    BY <1>0, <2>1 DEF PipeBefore, TypeOK, ChildSteps
  <2>4. PipeAfter(attempt)'
    BY <2>1, <2>2, <2>3, MessageValues, LaterMessages DEF PipeBefore, PipeAfter
  <2>5. QED
    BY <2>1, <2>4 DEF PipeInv
<1>7. CASE ClearUsage
  <2>1. ~ Obtained'
    BY <1>7 DEF ClearUsage, Obtained
  <2>2. QED
    BY <1>0, <1>7, <2>1, PipeUnchanged DEF ClearUsage, procVars, ipcVars
<1>8. CASE PostContinue
  <2>1. ~ Obtained'
    BY <1>8 DEF PostContinue, Obtained
  <2>2. QED
    BY <1>0, <1>8, <2>1, PipeUnchanged DEF PostContinue, procVars
<1>9. CASE CloneFails \/ Throws \/ CatchKill \/ CatchReap \/ GiveUp \/ NodeCrash
  <2>1. waiter' = waiter /\ pc # "returned"
    BY <1>9, ThrowsFrame DEF CloneFails, CatchKill, CatchReap, GiveUp,
       NodeCrash, ParentSteps
  <2>2. QED
    BY <1>0, <1>9, <2>1, LeavingSteps DEF PipeInv, WaiterInv
<1>10. CASE Retry
  BY <1>0, <1>10 DEF Retry, PipeInv, WaiterInv
<1>11. CASE WaitReap \/ WaitThrows
  <2>1. pc = "returned" /\ ~ Obtained'
    BY <1>0, <1>11 DEF WaitReap, WaitThrows, WaiterInv, parentVars, Obtained
  <2>2. QED
    BY <1>0, <1>11, <2>1, PipeUnchanged
    DEF WaitReap, WaitThrows, parentVars, procVars, ipcVars
<1>12. CASE WaitRead
  <2>1. waiter' \notin {"waiting", "reaped"} /\ pc' = "returned"
    BY <1>0, <1>12 DEF WaitRead, WaiterInv, parentVars, TypeOK
  <2>2. QED
    BY <2>1 DEF PipeInv
<1>13. ASSUME NEW a \in Attempts, ChildMoves(a) PROVE PipeInv'
  <2>1. CASE a = attempt
    BY <1>13, <2>1, PipeChildStep
  <2>2. CASE a # attempt
    <3>1. UNCHANGED <<pc, attempt, waitResult, waiter>>
      BY <1>0, <1>13, ChildFrame DEF parentVars
    <3>2. /\ child'[attempt] = child[attempt] /\ pipe'[attempt] = pipe[attempt]
          /\ sem1'[attempt] = sem1[attempt]
      BY <1>0, <1>13, <2>2, ChildFrame DEF TypeOK
    <3>3. QED
      BY <1>0, <3>1, <3>2, PipeUnchanged DEF Obtained
  <2>3. QED
    BY <2>1, <2>2
<1>14. QED
  BY <1>1, <1>2, <1>3, <1>4, <1>5, <1>6, <1>7, <1>8, <1>9, <1>10, <1>11,
     <1>12, <1>13, NextCases DEF WaitForProcess

\* The verdict is fixed by a read that follows the reaping of the child, or by
\* a wait that has not reaped it.
LEMMA VerdictStep == ASSUME IInv, Next PROVE VerdictMatchesChild'
<1> USE DEF VerdictMatchesChild
<1>0. TypeOK /\ VerdictMatchesChild /\ WaiterInv /\ PipeInv /\ StatusInv
  BY DEF IInv
<1>1. ASSUME pc # "returned", waiter' \in {waiter, "waiting"}
      PROVE  VerdictMatchesChild'
  BY <1>0, <1>1 DEF WaiterInv
<1>2. CASE \/ Clone \/ CloneFails \/ JoinGroup \/ WriteLimit \/ TimedWaitOk
           \/ TimedWaitExpires \/ ReadNothing \/ ReadOk
  BY <1>1, <1>2 DEF Clone, CloneFails, JoinGroup, WriteLimit, TimedWaitOk,
     TimedWaitExpires, ReadNothing, ReadOk
<1>3. CASE \/ ClearUsage \/ PostContinue \/ CatchKill \/ CatchReap \/ Retry
           \/ GiveUp \/ NodeCrash
  BY <1>1, <1>3 DEF ClearUsage, PostContinue, CatchKill, CatchReap, Retry,
     GiveUp, NodeCrash, ParentSteps
<1>4. CASE Throws
  BY <1>1, <1>4, ThrowsFrame
<1>5. CASE WaitReap
  BY <1>5 DEF WaitReap
<1>6. CASE WaitThrows
  <2>1. life'[attempt'] # "reaped"
    BY <1>0, <1>6 DEF WaitThrows, WaiterInv, parentVars, procVars
  <2>2. QED
    BY <1>6, <2>1 DEF WaitThrows
<1>7. CASE WaitRead
  <2>1. /\ PipeAfter(attempt) /\ life[attempt] = "reaped"
        /\ UNCHANGED <<attempt, child>> /\ attempt \in Attempts
    BY <1>0, <1>7 DEF WaitRead, PipeInv, WaiterInv, parentVars, procVars, TypeOK
  <2>2. CASE child[attempt] = "reportText"
    BY <1>7, <2>1, <2>2, MessageValues DEF WaitRead, PipeAfter
  <2>3. CASE child[attempt] \in {"postError", "exit"}
    BY <1>7, <2>1, <2>3, MessageValues DEF WaitRead, PipeAfter
  <2>4. CASE child[attempt] \in {"wait", "exec", "running", "report"}
    <3>1. waiter' = status[attempt] /\ status[attempt] \in {"exited", "signaled"}
      BY <1>0, <1>7, <2>1, <2>4 DEF WaitRead, PipeAfter, StatusInv, TypeOK
    <3>2. QED
      BY <1>0, <2>1, <2>4, <3>1 DEF StatusInv
  <2>5. QED
    BY <2>1, <2>2, <2>3, <2>4 DEF PipeAfter
<1>8. ASSUME NEW a \in Attempts, ChildMoves(a) PROVE VerdictMatchesChild'
  <2>1. /\ UNCHANGED <<waiter, attempt>>
        /\ life[a] = "alive" /\ life'[a] # "reaped" /\ attempt \in Attempts
    BY <1>0, <1>8, ChildFrame DEF parentVars, TypeOK
  <2>2. CASE a = attempt
    BY <1>0, <2>1, <2>2 DEF WaiterInv
  <2>3. CASE a # attempt
    BY <1>0, <1>8, <2>1, <2>3, ChildFrame
  <2>4. QED
    BY <2>2, <2>3
<1>9. QED
  BY <1>2, <1>3, <1>4, <1>5, <1>6, <1>7, <1>8, NextCases DEF WaitForProcess

-----------------------------------------------------------------------------
(***************************************************************************)
(* The theorems.                                                           *)
(***************************************************************************)

-----------------------------------------------------------------------------
(***************************************************************************)
(* The stale pid.                                                          *)
(***************************************************************************)

\* A message is there whenever semaphore1 was obtained.
LEMMA MessageThere ==
  ASSUME IInv, pc = "read", waitResult
  PROVE  /\ pipe[attempt] # << >>
         /\ Head(pipe[attempt]) = "length" => TextFollows(pipe[attempt])
<1>1. TypeOK /\ PipeBefore(attempt) /\ Obtained
  BY DEF IInv, PipeInv, BeforeRead, Obtained
<1>2. child[attempt] \in ChildSteps
  BY <1>1 DEF TypeOK
<1>3. pipe[attempt] \in {<<"ok">>, <<"length", "text">>, <<"ok", "length">>,
                        <<"ok", "length", "text">>}
  BY <1>1, <1>2 DEF PipeBefore, ChildSteps
<1>4. QED
  BY <1>3, MessageValues

LEMMA StaleStep == ASSUME IInv, Next PROVE StaleInv'
<1> USE DEF StaleInv, StaleKillNeedsTimeout, Goto, Throw
<1>0. TypeOK /\ StaleInv
  BY DEF IInv
<1>1. CASE Clone \/ CloneFails
  BY <1>0, <1>1 DEF Clone, CloneFails, TypeOK
<1>2. CASE JoinGroup \/ WriteLimit \/ TimedWaitOk \/ TimedWaitExpires
  BY <1>0, <1>2 DEF JoinGroup, WriteLimit, TimedWaitOk, TimedWaitExpires,
     procVars
<1>3. CASE ReadNothing \/ ReadOk
  BY <1>0, <1>3, MessageThere DEF ReadNothing, ReadOk, procVars
<1>4. CASE JoinGroupFails \/ WriteLimitFails \/ TimedWaitFails \/ ReadError
  BY <1>0, <1>4 DEF JoinGroupFails, WriteLimitFails, TimedWaitFails,
     ReadError, procVars
<1>5. CASE Probe
  BY <1>0, <1>5 DEF Probe, TypeOK
<1>6. CASE ClearUsage \/ ClearUsageFails \/ PostContinue
  BY <1>0, <1>6 DEF ClearUsage, ClearUsageFails, PostContinue, procVars
<1>7. CASE CatchKill \/ CatchReap
  BY <1>0, <1>7 DEF CatchKill, CatchReap
<1>8. CASE Retry \/ GiveUp \/ NodeCrash
  BY <1>0, <1>8 DEF Retry, GiveUp, NodeCrash, ParentSteps
<1>9. CASE WaitForProcess
  BY <1>0, <1>9, WaitFrame DEF IInv, WaiterInv, WaitForProcess, WaitReap,
     WaitThrows, WaitRead, parentVars
<1>10. ASSUME NEW a \in Attempts, ChildMoves(a) PROVE StaleInv'
  <2>1. life'[attempt] = life[attempt] \/ life'[attempt] # "reaped"
    BY <1>0, <1>10, ChildFrame DEF TypeOK
  <2>2. QED
    BY <1>0, <1>10, <2>1, ChildFrame DEF parentVars
<1>11. QED
  BY <1>1, <1>2, <1>3, <1>4, <1>5, <1>6, <1>7, <1>8, <1>9, <1>10
  DEF Next, Parent, StartSandbox, ChildMoves

LEMMA InitInv == ASSUME Init PROVE IInv
<1>1. TypeOK
  BY InitType
<1>2. FreshInv /\ ResumeInv /\ StatusInv
  BY <1>1 DEF Init, FreshInv, Fresh, ResumeInv, StatusInv, TypeOK
<1>3. RetryInv
  BY RetryAssumption DEF Init, RetryInv
<1>4. JoinInv /\ GroupInv /\ LimitInv /\ ClearInv
  BY DEF Init, JoinInv, GroupInv, LimitInv, ClearInv, AfterJoin, AfterLimits
<1>5. PipeInv /\ WaiterInv /\ VerdictMatchesChild /\ AbandonedChildKilled
  BY <1>1 DEF Init, PipeInv, BeforeRead, WaiterInv, VerdictMatchesChild,
     AbandonedChildKilled, TypeOK
<1>6. StaleInv
  BY <1>1 DEF Init, StaleInv, StaleKillNeedsTimeout, TypeOK
<1>7. QED
  BY <1>1, <1>2, <1>3, <1>4, <1>5, <1>6 DEF IInv

LEMMA StutterInv == ASSUME IInv, UNCHANGED vars PROVE IInv'
BY DEF IInv, vars, parentVars, procVars, ipcVars, cgroupVars, TypeOK, FreshInv,
   Fresh, RetryInv, JoinInv, GroupInv, LimitInv, ClearInv, ResumeInv, PipeInv,
   PipeBefore, PipeAfter, Obtained, StatusInv, WaiterInv,
   AbandonedChildKilled, VerdictMatchesChild, StaleInv, StaleKillNeedsTimeout

LEMMA InductiveInvariant == Spec => []IInv
<1>1. Init => IInv
  BY InitInv
<1>2. IInv /\ [Next]_vars => IInv'
  BY StutterInv, TypeStep, FreshStep, RetryStep, JoinStep, GroupStep, LimitStep,
     ClearStep, ResumeStep, PipeStep, StatusStep, WaiterStep, AbandonedStep,
     VerdictStep, StaleStep DEF IInv
<1>3. QED
  BY <1>1, <1>2, PTL DEF Spec

\* The variables stay in their ranges for every number of retries, so the
\* retry loop of index.ts:23-36 is bounded.
THEOREM TypeCorrect == Spec => []TypeOK
<1>1. IInv => TypeOK
  BY DEF IInv
<1>2. QED
  BY <1>1, InductiveInvariant, PTL

\* The user's program only executes inside its cgroups, with every limit
\* written and its usage counters cleared (sandbox.cc:256-260, 305-366), and for the
\* attempt that startSandbox returned: one call never runs the program of two
\* attempts, nor that of one it reported as failed (sandbox.cc:365-379,
\* index.ts:24-36).
THEOREM Confined == Spec => []ConfinedProgram
<1>1. IInv => ConfinedProgram
  <2> SUFFICES ASSUME IInv, NEW a \in Attempts, child[a] \in {"exec", "running"}
               PROVE  /\ pc = "returned" /\ a = attempt
                      /\ groups[a] = Controllers
                      /\ life[a] = "alive" => member[a] = Controllers
                      /\ limit[a] = AllLimits
                      /\ cleared[a]
    BY DEF ConfinedProgram
  <2>1. pc = "returned" /\ a = attempt
    BY DEF IInv, ResumeInv
  <2>2. QED
    BY <2>1 DEF IInv, JoinInv, GroupInv, AfterJoin, AfterLimits, LimitInv, ClearInv
<1>2. QED
  BY <1>1, InductiveInvariant, PTL

\* A semaphore1 that was obtained means there is a message to read
\* (sandbox.cc:253-256, 271-274, 339-343).
THEOREM HandshakeMessage == Spec => []HandshakeCarriesMessage
<1>1. IInv => HandshakeCarriesMessage
  BY MessageThere DEF HandshakeCarriesMessage
<1>2. QED
  BY <1>1, InductiveInvariant, PTL

\* memcg accepts every limit write at the moment it is made
\* (sandbox.cc:331-335).
THEOREM LimitOrder == Spec => []LimitWritesAccepted
<1>1. IInv => LimitWritesAccepted
  <2> SUFFICES ASSUME IInv, pc = "limit"
               PROVE  KernelAccepts(limit[attempt], LimitWrites[k])
    BY DEF LimitWritesAccepted
  <2>1. limit[attempt] = LimitsBefore(k) /\ k \in 1..5
    BY DEF IInv, LimitInv, TypeOK, LimitWrites
  <2>2. LimitsBefore(5)["mem"] = "limit" /\ LimitsBefore(k) \in [Files -> {"max", "limit"}]
    BY DEF LimitsBefore, Files
  <2>3. CASE k <= 4
    <3>1. LimitsBefore(k)["memsw"] = "max"
      BY <2>1, <2>3 DEF LimitsBefore, Files
    <3>2. LimitWrites[k].file # "memsw" \/ LimitWrites[k].val = "max"
            \/ LimitsBefore(k)["mem"] = "limit"
      BY <2>1, <2>3 DEF LimitsBefore, LimitWrites, Files
    <3>3. QED
      BY <2>1, <2>2, <3>1, <3>2 DEF KernelAccepts, Files
  <2>4. CASE k = 5
    BY <2>1, <2>2, <2>4 DEF KernelAccepts, LimitWrites, Files
  <2>5. QED
    BY <2>1, <2>3, <2>4
<1>2. QED
  BY <1>1, InductiveInvariant, PTL

\* What WaitForProcess reports is what happened in the child, although an error
\* and a program's end both leave an exit status, and it fails without a verdict
\* only when waitpid failed or the child was killed in the middle of its report
\* (sandbox.cc:271-272, 387-411).
THEOREM VerdictSound == Spec => []VerdictMatchesChild
<1>1. IInv => VerdictMatchesChild
  BY DEF IInv
<1>2. QED
  BY <1>1, InductiveInvariant, PTL

\* No attempt is given up while its child is alive and unkilled
\* (sandbox.cc:370-379).
THEOREM AbandonedKilled == Spec => []AbandonedChildKilled
<1>1. IInv => AbandonedChildKilled
  BY DEF IInv
<1>2. QED
  BY <1>1, InductiveInvariant, PTL

\* The catch block signals a reaped pid only after the wait has timed out and
\* the probe has taken the zombie (sandbox.cc:343-352, 375).
THEOREM StaleKill == Spec => []StaleKillNeedsTimeout
<1>1. IInv => StaleKillNeedsTimeout
  BY DEF IInv, StaleInv
<1>2. QED
  BY <1>1, InductiveInvariant, PTL

\* For every wait and every time of day the deadline of TimedWait is normalised
\* and lies exactly msecs ahead (semaphore.cc:48-60).
THEOREM DeadlineNormalised ==
  /\ \A msecs \in Nat, now \in [sec : Nat, nsec : Nat] :
       now.nsec < 1000000000 => DeadlineIn(msecs, now)
  /\ DeadlineExact
<1>1. ASSUME NEW msecs \in Nat, NEW now \in [sec : Nat, nsec : Nat],
             now.nsec < 1000000000
      PROVE  DeadlineIn(msecs, now)
  <2> DEFINE nsec == (msecs % 1000) * 1000000 + now.nsec
  <2>1. /\ now.sec \in Nat /\ now.nsec \in Nat
        /\ msecs % 1000 \in 0..999 /\ msecs \div 1000 \in Nat
    BY SMTT(20)
  <2>2. nsec \in Nat /\ nsec < 2000000000
    BY SMTT(20), <1>1, <2>1
  <2> HIDE DEF nsec
  <2>3. \/ nsec < 1000000000 /\ nsec \div 1000000000 = 0
             /\ nsec % 1000000000 = nsec
        \/ nsec >= 1000000000 /\ nsec \div 1000000000 = 1
             /\ nsec % 1000000000 = nsec - 1000000000
    BY SMTT(20), <2>2
  <2>4. /\ Deadline(now, msecs).sec
             = now.sec + (nsec \div 1000000000 + msecs \div 1000)
        /\ Deadline(now, msecs).nsec = nsec % 1000000000
    BY SMTT(20) DEF Deadline, nsec
  <2>5. QED
    BY SMTT(20), <2>1, <2>2, <2>3, <2>4 DEF DeadlineIn, nsec
<1>2. ASSUME NEW msecs \in {0, 500, 999, 1500},
             NEW nsec \in {0, 499999999, 500000000, 999999999}
      PROVE  DeadlineIn(msecs, [sec |-> 7, nsec |-> nsec])
  BY SMTT(20), <1>1
<1>3. QED
  BY SMTT(20), <1>1, <1>2 DEF DeadlineExact

-----------------------------------------------------------------------------
(***************************************************************************)
(* Refinement of ConfinedLaunch.                                           *)
(***************************************************************************)

LEMMA LaunchInit == ASSUME Init PROVE Launch!Init
BY DEF Init, Launch!Init, outcomeView, confinedView, programView, verdictView,
   ParentSteps

\* Before the call returns, a caller sees nothing but its outcome.
LEMMA LaunchUnreturned ==
  ASSUME IInv, pc # "returned"
  PROVE  ~ confinedView /\ programView = "absent" /\ verdictView = "none"
BY DEF IInv, WaiterInv, confinedView, programView, verdictView

LEMMA LaunchParentStep ==
  ASSUME IInv, IInv', pc # "returned", pc' # "returned",
         pc' = pc \/ pc \in ParentSteps
  PROVE  Launch!Abort \/ UNCHANGED Launch!vars
<1>1. UNCHANGED <<confinedView, programView, verdictView>>
  BY LaunchUnreturned DEF confinedView, programView, verdictView, IInv, WaiterInv
<1>2. \/ outcomeView' = outcomeView
      \/ outcomeView = "pending" /\ outcomeView' \in {"threw", "crashed"}
  <2>1. pc' \in ParentSteps \union {"threw", "crashed"}
    BY DEF IInv, TypeOK, Final
  <2>2. QED
    BY <2>1 DEF outcomeView
<1>3. QED
  BY <1>1, <1>2 DEF Launch!Abort, Launch!vars

LEMMA LaunchPostStep ==
  ASSUME IInv, PostContinue PROVE Launch!Return
<1>1. TypeOK /\ pc = "post" /\ pc' = "returned"
  BY DEF IInv, PostContinue, Goto
<1>2. /\ UNCHANGED <<attempt, child, life, member, limit, cleared>>
      /\ waiter' = "waiting"
  BY DEF PostContinue, Goto, procVars, cgroupVars
<1>3. /\ limit[attempt] = AllLimits /\ cleared[attempt]
      /\ life[attempt] = "alive" => member[attempt] = Controllers
      /\ child[attempt] # "running"
  BY <1>1 DEF IInv, LimitInv, ClearInv, JoinInv, ResumeInv, AfterJoin,
     AfterLimits, TypeOK
<1>4. outcomeView = "pending" /\ outcomeView' = "returned"
  BY <1>1 DEF outcomeView, ParentSteps
<1>5. confinedView' = TRUE
  BY <1>1, <1>2, <1>3 DEF confinedView
<1>6. programView' \in {"absent", "failed"}
  BY <1>1, <1>2, <1>3 DEF programView
<1>7. verdictView' = verdictView
  BY <1>1, <1>2 DEF verdictView, Verdicts, IInv, WaiterInv
<1>8. QED
  BY <1>4, <1>5, <1>6, <1>7 DEF Launch!Return

LEMMA LaunchWaitStep ==
  ASSUME IInv, WaitForProcess PROVE Launch!Report \/ UNCHANGED Launch!vars
<1>1. /\ TypeOK /\ pc = "returned"
      /\ UNCHANGED <<pc, attempt, child, limit, cleared, member>>
  BY WaitFrame DEF IInv, WaiterInv, WaitForProcess, WaitReap, WaitThrows, WaitRead,
     parentVars, cgroupVars
<1>2. life[attempt] = "alive" <=> life'[attempt] = "alive"
  BY <1>1 DEF IInv, WaiterInv, WaitForProcess, WaitReap, WaitThrows, WaitRead, procVars, TypeOK
<1>3. UNCHANGED <<outcomeView, confinedView, programView>>
  BY <1>1, <1>2 DEF outcomeView, confinedView, programView
<1>4. CASE WaitReap
  BY <1>3, <1>4 DEF WaitReap, verdictView, Verdicts, Launch!vars
<1>5. CASE WaitThrows
  <2>1. verdictView = "none" /\ verdictView' = "failed" /\ outcomeView = "returned"
    BY <1>1, <1>5 DEF WaitThrows, verdictView, Verdicts, outcomeView, ParentSteps
  <2>2. QED
    BY <1>3, <2>1 DEF Launch!Report
<1>6. CASE WaitRead
  <2>0. waiter' \in Verdicts /\ life[attempt] = "reaped"
    BY <1>1, <1>6 DEF WaitRead, IInv, WaiterInv, StatusInv, TypeOK, procVars, Verdicts
  <2>1. /\ verdictView = "none" /\ verdictView' = waiter'
        /\ outcomeView = "returned"
    BY <1>1, <1>6, <2>0
    DEF WaitRead, verdictView, Verdicts, outcomeView, ParentSteps
  <2>2. VerdictMatchesChild'
    BY VerdictStep DEF Next
  <2>3. waiter' \in {"error", "exited", "signaled", "failed"}
    BY <2>0 DEF Verdicts
  <2>4. CASE child[attempt] = "running"
    BY <1>1, <1>3, <2>0, <2>1, <2>2, <2>3, <2>4
    DEF VerdictMatchesChild, programView, Launch!Report
  <2>5. CASE child[attempt] # "running"
    BY <1>1, <1>3, <2>0, <2>1, <2>2, <2>3, <2>5
    DEF VerdictMatchesChild, programView, Launch!Report
  <2>6. QED
    BY <2>4, <2>5
<1>7. QED
  BY <1>4, <1>5, <1>6 DEF WaitForProcess

LEMMA LaunchChildStep ==
  ASSUME IInv, IInv', NEW a \in Attempts, ChildMoves(a)
  PROVE  Launch!Start \/ Launch!Fail \/ Launch!Finish \/ UNCHANGED Launch!vars
<1>1. /\ TypeOK
      /\ UNCHANGED <<pc, attempt, limit, cleared, waiter>>
      /\ life[a] = "alive" /\ life'[a] \in {"alive", "zombie"}
  BY ChildFrame DEF IInv, parentVars
<1>2. UNCHANGED <<outcomeView, verdictView>>
  BY <1>1 DEF outcomeView, verdictView
<1>3. CASE pc # "returned"
  BY <1>1, <1>2, <1>3, LaunchUnreturned
  DEF confinedView, programView, verdictView, IInv, WaiterInv, Launch!vars
<1>4. CASE pc = "returned" /\ a # attempt
  <2>1. /\ child'[attempt] = child[attempt] /\ life'[attempt] = life[attempt]
        /\ member'[attempt] = member[attempt]
    BY <1>1, <1>4, ChildFrame DEF TypeOK
  <2>2. QED
    BY <1>1, <1>2, <2>1 DEF confinedView, programView, Launch!vars
<1>5. CASE pc = "returned" /\ a = attempt
  <2>1. /\ confinedView = TRUE /\ confinedView' = TRUE
        /\ outcomeView = "returned"
    BY <1>1, <1>5 DEF IInv, LimitInv, ClearInv, JoinInv, AfterJoin,
       AfterLimits, confinedView, outcomeView, ParentSteps
  <2>2. CASE ChildProcess(a) /\ ~ Exit(a)
    <3>1. /\ life' = life
          /\ child'[a] = "running" => child[a] = "exec"
          /\ child[a] # "running"
      BY <1>1, <2>2 DEF TypeOK, ChildProcess, ChildSetup, ChildSetupFails,
         ChildInform, ChildPost, ChildResume, ChildWaitFails, ChildExec,
         ChildExecFails, ChildReport, ChildReportText, ChildPostError, ChildStep
    <3>2. CASE child'[a] = "running"
      BY <1>1, <1>2, <1>5, <2>1, <3>1, <3>2 DEF programView, Launch!Start
    <3>3. CASE child'[a] # "running"
      BY <1>1, <1>2, <1>5, <2>1, <3>1, <3>3 DEF programView, Launch!vars
    <3>4. QED
      BY <3>2, <3>3
  <2>3. CASE Exit(a) \/ Perish(a) \/ KillDelivered(a)
    <3>1. life'[a] = "zombie" /\ child' = child
      BY <1>1, <2>3 DEF Exit, Perish, KillDelivered, Die, TypeOK
    <3>2. CASE child[a] = "running"
      BY <1>1, <1>2, <1>5, <2>1, <3>1, <3>2 DEF programView, Launch!Finish
    <3>3. CASE child[a] # "running"
      BY <1>1, <1>2, <1>5, <2>1, <3>1, <3>3 DEF programView, Launch!Fail
    <3>4. QED
      BY <3>2, <3>3
  <2>4. QED
    BY <2>2, <2>3 DEF ChildMoves
<1>6. QED
  BY <1>3, <1>4, <1>5

LEMMA LaunchStep ==
  ASSUME IInv, IInv', [Next]_vars PROVE [Launch!Next]_(Launch!vars)
<1>1. CASE UNCHANGED vars
  BY <1>1 DEF vars, parentVars, procVars, ipcVars, cgroupVars, Launch!vars,
     outcomeView, confinedView, programView, verdictView
<1>2. CASE PostContinue
  BY <1>2, LaunchPostStep DEF Launch!Next, Launch!Settle
<1>3. CASE \/ Clone \/ CloneFails \/ JoinGroup \/ WriteLimit \/ TimedWaitOk
           \/ TimedWaitExpires \/ ReadNothing \/ ReadOk \/ ClearUsage
           \/ CatchKill \/ CatchReap \/ Retry \/ GiveUp \/ NodeCrash \/ Throws
  <2>1. pc \in ParentSteps /\ pc' # "returned"
    BY <1>3, ThrowsFrame
    DEF Clone, CloneFails, JoinGroup, WriteLimit, TimedWaitOk,
        TimedWaitExpires, ReadNothing, ReadOk, ClearUsage, CatchKill,
        CatchReap, Retry, GiveUp, NodeCrash, Goto, ParentSteps
  <2>2. QED
    BY <2>1, LaunchParentStep DEF ParentSteps, Launch!Next, Launch!Settle
<1>4. CASE WaitForProcess
  BY <1>4, LaunchWaitStep DEF Launch!Next
<1>5. CASE \E a \in Attempts : ChildMoves(a)
  BY <1>5, LaunchChildStep DEF Launch!Next
<1>6. QED
  BY <1>1, <1>2, <1>3, <1>4, <1>5, NextCases

\* For every number of retries, the machinery of index.ts:15-37 and
\* sandbox.cc:290-412 implements the safety part of the one-shot launch.
THEOREM LaunchRefinement == Spec => Launch!SafeSpec
<1>1. Init => Launch!Init
  BY LaunchInit
<1>2. IInv /\ IInv' /\ [Next]_vars => [Launch!Next]_(Launch!vars)
  BY LaunchStep
<1>3. QED
  BY <1>1, <1>2, InductiveInvariant, PTL DEF Spec, Launch!SafeSpec

-----------------------------------------------------------------------------
(***************************************************************************)
(* The end of the call.                                                    *)
(***************************************************************************)

\* Within an attempt the counter stays and the places only go down.
LEMMA PlacesDown ==
  ASSUME IInv,
         \/ Clone \/ CloneFails \/ JoinGroup \/ WriteLimit \/ TimedWaitOk
         \/ TimedWaitExpires \/ ReadNothing \/ ReadOk \/ ClearUsage \/ PostContinue
         \/ Throws \/ CatchKill \/ CatchReap \/ NodeCrash
  PROVE  retryTimes' = retryTimes /\ StepsFrom(pc', k') < StepsFrom(pc, k)
<1> USE DEF Goto, StepsFrom
<1>1. k \in 1..5 /\ (pc = "join" => k <= 3)
  BY DEF IInv, TypeOK, JoinInv, LimitWrites
<1>2. CASE Clone \/ CloneFails
  BY <1>2 DEF Clone, CloneFails
<1>3. CASE JoinGroup
  BY <1>1, <1>3 DEF JoinGroup, ControllerSeq
<1>4. CASE WriteLimit
  BY <1>1, <1>4 DEF WriteLimit, LimitWrites
<1>5. CASE TimedWaitOk \/ TimedWaitExpires \/ ReadNothing \/ ReadOk
  BY <1>5 DEF TimedWaitOk, TimedWaitExpires, ReadNothing, ReadOk
<1>6. CASE ClearUsage \/ PostContinue \/ CatchKill \/ CatchReap
  BY <1>6 DEF ClearUsage, PostContinue, CatchKill, CatchReap
<1>7. CASE Throws
  BY <1>1, <1>7, ThrowsFrame
<1>8. CASE NodeCrash
  BY <1>1, <1>8 DEF NodeCrash, ParentSteps
<1>9. QED
  BY <1>2, <1>3, <1>4, <1>5, <1>6, <1>7, <1>8

LEMMA StepsDown ==
  ASSUME IInv, [Next]_vars
  PROVE  UNCHANGED parentVars \/ StepsLeft' < StepsLeft
<1>1. /\ retryTimes \in Int /\ k \in Int
      /\ StepsFrom(pc, k) \in Int
  <2>1. retryTimes \in Int /\ k \in Int
    BY RetryAssumption DEF IInv, TypeOK, LimitWrites
  <2>2. QED
    BY <2>1 DEF StepsFrom
<1>2. CASE \/ Clone \/ CloneFails \/ JoinGroup \/ WriteLimit \/ TimedWaitOk
           \/ TimedWaitExpires \/ ReadNothing \/ ReadOk \/ ClearUsage \/ PostContinue
           \/ Throws \/ CatchKill \/ CatchReap \/ NodeCrash
  <2>1. retryTimes' = retryTimes /\ StepsFrom(pc', k') < StepsFrom(pc, k)
    BY <1>2, PlacesDown
  <2>2. StepsFrom(pc', k') \in Int
    <3>1. k' \in Int
      BY <1>1, <1>2, ThrowsFrame
      DEF Clone, CloneFails, JoinGroup, WriteLimit, TimedWaitOk, TimedWaitExpires,
          ReadNothing, ReadOk, ClearUsage, PostContinue, CatchKill, CatchReap, NodeCrash,
          Goto
    <3>2. QED
      BY <3>1 DEF StepsFrom
  <2>3. QED
    BY <1>1, <2>1, <2>2 DEF StepsLeft
<1>3. CASE Retry
  BY <1>1, <1>3 DEF Retry, MayRetry, StepsLeft, StepsFrom
<1>4. CASE GiveUp
  BY <1>1, <1>4 DEF GiveUp, MayRetry, StepsLeft, StepsFrom
<1>5. CASE WaitForProcess \/ \E a \in Attempts : ChildMoves(a)
  BY <1>5, WaitFrame, ChildFrame DEF IInv
<1>6. CASE UNCHANGED vars
  BY <1>6 DEF vars
<1>7. QED
  BY <1>2, <1>3, <1>4, <1>5, <1>6, NextCases

\* The parent's work runs out: at most 18 steps for each attempt, whatever fails
\* and however the child behaves (startSandbox, StartSandbox).
THEOREM CallBounded == Spec => WorkRunsOut
<1>1. IInv /\ [Next]_vars => [UNCHANGED parentVars \/ StepsLeft' < StepsLeft]_vars
  BY StepsDown
<1>2. QED
  BY InductiveInvariant, <1>1, PTL DEF Spec, WorkRunsOut

=============================================================================
