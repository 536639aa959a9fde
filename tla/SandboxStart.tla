---------------------------- MODULE SandboxStart ----------------------------
(***************************************************************************)
(* One call of startSandbox (simple-sandbox/src/index.ts) down to the      *)
(* kernel: the retry loop of the JavaScript wrapper, StartSandbox and      *)
(* WaitForProcess of native/sandbox.cc, and the cloned ChildProcess that   *)
(* runs concurrently with them until it execs the user's program.          *)
(*                                                                         *)
(* The parent and each child share two POSIX semaphores and one            *)
(* non-blocking pipe.  Every attempt of the retry loop uses a cgroup name  *)
(* that was drawn at random, so an attempt number stands for the name;     *)
(* collisions between random names are not modelled.                       *)
(*                                                                         *)
(* A child is an arbitrary process to the kernel: it may be killed at any  *)
(* moment by the OOM killer or by an operator (action Perish).  Time is    *)
(* abstract: a timed wait may expire whenever the semaphore is zero.       *)
(* Posting a semaphore and writing a few bytes to the pipe succeed: a      *)
(* child whose parent has closed the pipe dies of SIGPIPE, which is one    *)
(* more way to perish.  A report of the child is two writes, its length    *)
(* and its text, and the child may perish between them.                    *)
(***************************************************************************)
EXTENDS Integers, Sequences

CONSTANT MAX_RETRY_TIMES    \* retries after the first attempt (20 in the code)

ASSUME RetryAssumption == MAX_RETRY_TIMES \in Nat

VARIABLES
  pc,          \* location of the JavaScript thread inside startSandbox
  attempt,     \* number of the current call of the native StartSandbox
  retryTimes,  \* the counter of the JavaScript retry loop
  k,           \* next controller to join, or next limit to write
  waitResult,  \* did semaphore1.TimedWait succeed?
  error,       \* exception in flight: "child" starts with "The child process "
  child,       \* location of each attempt's ChildProcess
  life,        \* what the kernel knows of each attempt's process
  status,      \* how that process ended
  killed,      \* children a SIGKILL has been sent to
  sem1, sem2,  \* semaphore values
  pipe,        \* unread writes: "ok" is the length -1, "length" that of a
               \* report, "text" the report itself
  groups,      \* cgroup directories that exist for each attempt
  member,      \* controllers whose tasks file lists the child
  limit,       \* contents of the limit files of each attempt's cgroups
  cleared,     \* usage counters were reset
  waiter       \* progress and outcome of WaitForProcess

parentVars == <<pc, attempt, retryTimes, k, waitResult, error>>
procVars   == <<child, life, status, killed>>
ipcVars    == <<sem1, sem2, pipe>>
cgroupVars == <<groups, member, limit, cleared>>
vars == <<parentVars, procVars, ipcVars, cgroupVars, waiter>>

-----------------------------------------------------------------------------
(***************************************************************************)
(* Data.                                                                   *)
(***************************************************************************)

Attempts == 1..(MAX_RETRY_TIMES + 1)

\* The controllers in the order StartSandbox visits them.
ControllerSeq == <<"memory", "cpuacct", "pids">>
Controllers   == {"memory", "cpuacct", "pids"}

\* Mutant: memory plus swap is lowered before memory.
LimitWritesSwapped == <<
  [file |-> "memsw", val |-> "max"],
  [file |-> "mem",   val |-> "max"],
  [file |-> "memsw", val |-> "limit"],
  [file |-> "mem",   val |-> "limit"],
  [file |-> "pids",  val |-> "limit"] >>

\* The writes to limit files, in program order.  "max" is no limit.
LimitWrites == <<
  [file |-> "memsw", val |-> "max"],
  [file |-> "mem",   val |-> "max"],
  [file |-> "mem",   val |-> "limit"],
  [file |-> "memsw", val |-> "limit"],
  [file |-> "pids",  val |-> "limit"] >>

Files     == {"mem", "memsw", "pids"}
NoLimits  == [f \in Files |-> "max"]
AllLimits == [f \in Files |-> "limit"]

\* memcg refuses a write that would make mem exceed memory plus swap.
KernelAccepts(l, w) ==
  LET after == [l EXCEPT ![w.file] = w.val]
  IN  ~ (after["mem"] = "max" /\ after["memsw"] = "limit")

ParentSteps == {"clone", "join", "limit", "timedwait", "read", "probe",
                "clear", "post", "kill", "reap", "retry"}
Final       == {"returned", "threw", "crashed"}
Verdicts    == {"error", "exited", "signaled", "failed"}
ChildSteps  == {"setup", "inform", "post", "wait", "exec", "running",
                "report", "reportText", "postError", "exit"}

\* Mutant: the carry into the seconds is forgotten.
DeadlineNoCarry(now, msecs) ==
  [sec  |-> now.sec + msecs \div 1000,
   nsec |-> ((msecs % 1000) * 1000000 + now.nsec) % 1000000000]

\* The absolute time TimedWait hands to sem_timedwait.  The largest value on
\* the way is below 2^31, so the width of long does not matter.
Deadline(now, msecs) ==
  LET nsec == (msecs % 1000) * 1000000 + now.nsec
  IN  [sec  |-> now.sec + (nsec \div 1000000000 + msecs \div 1000),
       nsec |-> nsec % 1000000000]

-----------------------------------------------------------------------------
Init ==
  /\ pc = "clone"
  /\ attempt = 1
  /\ retryTimes = MAX_RETRY_TIMES
  /\ k = 1
  /\ waitResult = FALSE
  /\ error = "none"
  /\ child   = [a \in Attempts |-> "setup"]
  /\ life    = [a \in Attempts |-> "unborn"]
  /\ status  = [a \in Attempts |-> "none"]
  /\ killed  = {}
  /\ sem1    = [a \in Attempts |-> 0]
  /\ sem2    = [a \in Attempts |-> 0]
  /\ pipe    = [a \in Attempts |-> << >>]
  /\ groups  = [a \in Attempts |-> {}]
  /\ member  = [a \in Attempts |-> {}]
  /\ limit   = [a \in Attempts |-> NoLimits]
  /\ cleared = [a \in Attempts |-> FALSE]
  /\ waiter  = "none"

-----------------------------------------------------------------------------
(***************************************************************************)
(* The parent: StartSandbox.                                               *)
(***************************************************************************)

\* An exception with a child already cloned goes to the catch block.
Throw(kind) ==
  /\ error' = kind
  /\ pc' = "kill"
  /\ UNCHANGED <<attempt, retryTimes, k, waitResult>>

Goto(step) ==
  /\ pc' = step
  /\ UNCHANGED <<attempt, retryTimes, k, waitResult, error>>

Clone ==
  /\ pc = "clone"
  /\ life' = [life EXCEPT ![attempt] = "alive"]
  /\ pc' = "join"
  /\ k' = 1
  /\ error' = "none"
  /\ UNCHANGED <<attempt, retryTimes, waitResult, child, status, killed,
                 ipcVars, cgroupVars, waiter>>

\* The semaphores, the pipe or clone itself failed: container_pid is still -1.
CloneFails ==
  /\ pc = "clone"
  /\ pc' = "retry"
  /\ error' = "other"
  /\ UNCHANGED <<attempt, retryTimes, k, waitResult, procVars, ipcVars,
                 cgroupVars, waiter>>

\* Whom KillGroupMembers finds in a group just made: nobody, unless the host
\* mounts this controller together with an earlier one, whose group the child
\* has then joined.
JoinedEarlier == IF k = 1 THEN {} ELSE {a \in {attempt} : life[a] = "alive"}

\* CreateGroup, KillGroupMembers, write "tasks".
JoinGroup ==
  /\ pc = "join"
  /\ groups' = [groups EXCEPT ![attempt] = @ \union {ControllerSeq[k]}]
  /\ member' = IF life[attempt] = "alive"
               THEN [member EXCEPT ![attempt] = @ \union {ControllerSeq[k]}]
               ELSE member
  /\ killed' \in {killed, killed \union JoinedEarlier}
  /\ IF k < Len(ControllerSeq)
     THEN /\ k' = k + 1
          /\ pc' = pc
     ELSE /\ k' = 1
          /\ pc' = "limit"
  /\ UNCHANGED <<attempt, retryTimes, waitResult, error, child, life, status,
                 ipcVars, limit, cleared, waiter>>

\* Any of the three calls may throw, the directory made or not, the child
\* killed or not.
JoinGroupFails ==
  /\ pc = "join"
  /\ \/ groups' = [groups EXCEPT ![attempt] = @ \union {ControllerSeq[k]}]
     \/ groups' = groups
  /\ killed' \in {killed, killed \union JoinedEarlier}
  /\ Throw("other")
  /\ UNCHANGED <<child, life, status, ipcVars, member, limit, cleared, waiter>>

WriteLimit ==
  LET w == LimitWrites[k]
  IN  /\ pc = "limit"
      /\ KernelAccepts(limit[attempt], w)
      /\ limit' = [limit EXCEPT ![attempt] = [@ EXCEPT ![w.file] = w.val]]
      /\ IF k < Len(LimitWrites)
         THEN /\ k' = k + 1
              /\ pc' = pc
         ELSE /\ k' = 1
              /\ pc' = "timedwait"
      /\ UNCHANGED <<attempt, retryTimes, waitResult, error, procVars,
                     ipcVars, groups, member, cleared, waiter>>

\* The kernel refused the write, or the write failed for its own reasons.
WriteLimitFails ==
  /\ pc = "limit"
  /\ Throw("other")
  /\ UNCHANGED <<procVars, ipcVars, cgroupVars, waiter>>

TimedWaitOk ==
  /\ pc = "timedwait"
  /\ sem1[attempt] > 0
  /\ sem1' = [sem1 EXCEPT ![attempt] = @ - 1]
  /\ waitResult' = TRUE
  /\ pc' = "read"
  /\ UNCHANGED <<attempt, retryTimes, k, error, procVars, sem2, pipe,
                 cgroupVars, waiter>>

\* Mutant: sem_wait in place of sem_timedwait.
TimedWaitNeverExpires ==
  /\ pc = "timedwait"
  /\ FALSE
  /\ UNCHANGED vars

\* 500 ms passed without a post.
TimedWaitExpires ==
  /\ pc = "timedwait"
  /\ sem1[attempt] = 0
  /\ waitResult' = FALSE
  /\ pc' = "read"
  /\ UNCHANGED <<attempt, retryTimes, k, error, procVars, ipcVars,
                 cgroupVars, waiter>>

\* sem_timedwait failed otherwise (EINTR): a system_error is thrown.
TimedWaitFails ==
  /\ pc = "timedwait"
  /\ Throw("other")
  /\ UNCHANGED <<procVars, ipcVars, cgroupVars, waiter>>

\* The pipe is read whatever the wait returned; the value counts only after
\* a successful wait.  The parent keeps the write end open, so an empty pipe
\* is EAGAIN and never end of file.
ReadNothing ==
  /\ pc = "read"
  /\ ~ waitResult \/ pipe[attempt] = << >>
  /\ pipe' = IF pipe[attempt] = << >>
             THEN pipe
             ELSE [pipe EXCEPT ![attempt] = Tail(@)]
  /\ Goto("probe")
  /\ UNCHANGED <<procVars, sem1, sem2, cgroupVars, waiter>>

ReadOk ==
  /\ pc = "read"
  /\ waitResult
  /\ pipe[attempt] # << >>
  /\ Head(pipe[attempt]) = "ok"
  /\ pipe' = [pipe EXCEPT ![attempt] = Tail(@)]
  /\ Goto("clear")
  /\ UNCHANGED <<procVars, sem1, sem2, cgroupVars, waiter>>

\* With a length at the head of the pipe p, the text is there to be read too.
\* Else the second read throws: the pipe is empty and does not block.
TextFollows(p) == Len(p) > 1

\* The length and, with the second read, the text.
ReadError ==
  /\ pc = "read"
  /\ waitResult
  /\ pipe[attempt] # << >>
  /\ Head(pipe[attempt]) = "length"
  /\ pipe' = [pipe EXCEPT ![attempt] = << >>]
  /\ Throw(IF TextFollows(pipe[attempt]) THEN "child" ELSE "other")
  /\ UNCHANGED <<procVars, sem1, sem2, cgroupVars, waiter>>

\* waitpid(WNOHANG) tells "is not responding" from "has exited unexpectedly",
\* and in the second case takes the zombie.
Probe ==
  /\ pc = "probe"
  /\ life' = IF life[attempt] = "zombie"
             THEN [life EXCEPT ![attempt] = "reaped"]
             ELSE life
  /\ Throw("child")
  /\ UNCHANGED <<child, status, killed, ipcVars, cgroupVars, waiter>>

\* memory.memsw.max_usage_in_bytes and cpuacct.usage are set to 0.
ClearUsage ==
  /\ pc = "clear"
  /\ cleared' = [cleared EXCEPT ![attempt] = TRUE]
  /\ Goto("post")
  /\ UNCHANGED <<procVars, ipcVars, groups, member, limit, waiter>>

ClearUsageFails ==
  /\ pc = "clear"
  /\ Throw("other")
  /\ UNCHANGED <<procVars, ipcVars, cgroupVars, waiter>>

\* semaphore2.Post(), return; the SandboxProcess constructor then hands the
\* pid to WaitForProcess.
PostContinue ==
  /\ pc = "post"
  /\ sem2' = [sem2 EXCEPT ![attempt] = @ + 1]
  /\ waiter' = "waiting"
  /\ Goto("returned")
  /\ UNCHANGED <<procVars, sem1, pipe, cgroupVars>>

(***************************************************************************)
(* The catch block and the retry loop.                                     *)
(***************************************************************************)

\* Mutant: only a child that reported or vanished is killed.
KilledSome == {a \in {attempt} : life[a] = "alive" /\ error = "child"}

\* Whom kill(container_pid, SIGKILL) reaches: nobody once the child has died.
KilledByCatch == {a \in {attempt} : life[a] = "alive"}

CatchKill ==
  /\ pc = "kill"
  /\ killed' = killed \union KilledByCatch
  /\ Goto("reap")
  /\ UNCHANGED <<child, life, status, ipcVars, cgroupVars, waiter>>

\* waitpid(WNOHANG) right after the kill: an unreaped zombie stays one.
CatchReap ==
  /\ pc = "reap"
  /\ life' = IF life[attempt] = "zombie"
             THEN [life EXCEPT ![attempt] = "reaped"]
             ELSE life
  /\ Goto("retry")
  /\ UNCHANGED <<child, status, killed, ipcVars, cgroupVars, waiter>>

\* Mutant: the counter is not tested.
MayRetryForever == error = "child"

MayRetry == error = "child" /\ retryTimes > 0

Retry ==
  /\ pc = "retry"
  /\ MayRetry
  /\ retryTimes' = retryTimes - 1
  /\ attempt' = attempt + 1
  /\ pc' = "clone"
  /\ UNCHANGED <<k, waitResult, error, procVars, ipcVars, cgroupVars, waiter>>

GiveUp ==
  /\ pc = "retry"
  /\ ~ MayRetry
  /\ retryTimes' = IF error = "child" THEN retryTimes - 1 ELSE retryTimes
  /\ pc' = "threw"
  /\ UNCHANGED <<attempt, k, waitResult, error, procVars, ipcVars,
                 cgroupVars, waiter>>

\* The Node.js process dies before startSandbox has ended.
NodeCrash ==
  /\ pc \in ParentSteps
  /\ Goto("crashed")
  /\ UNCHANGED <<procVars, ipcVars, cgroupVars, waiter>>

-----------------------------------------------------------------------------
(***************************************************************************)
(* The child of attempt a: ChildProcess.                                   *)
(***************************************************************************)

ChildStep(a, from, to) ==
  /\ life[a] = "alive"
  /\ child[a] = from
  /\ child' = [child EXCEPT ![a] = to]
  /\ UNCHANGED <<parentVars, life, status, killed, cgroupVars, waiter>>

\* Affinity, redirections, mounts, chroot, rlimits, credentials.
ChildSetup(a) ==
  /\ ChildStep(a, "setup", "inform")
  /\ UNCHANGED ipcVars

\* Some ENSURE or EnsureDirectoryExistance of the set-up threw.
ChildSetupFails(a) ==
  /\ ChildStep(a, "setup", "report")
  /\ UNCHANGED ipcVars

\* Mutant: the -1 that means success is not written.
ChildInformSilent(a) ==
  /\ ChildStep(a, "inform", "post")
  /\ UNCHANGED ipcVars

ChildInform(a) ==
  /\ ChildStep(a, "inform", "post")
  /\ pipe' = [pipe EXCEPT ![a] = Append(@, "ok")]
  /\ UNCHANGED <<sem1, sem2>>

ChildPost(a) ==
  /\ ChildStep(a, "post", "wait")
  /\ sem1' = [sem1 EXCEPT ![a] = @ + 1]
  /\ UNCHANGED <<sem2, pipe>>

\* Mutant: the child does not wait for semaphore2.
ChildResumeAtOnce(a) ==
  /\ ChildStep(a, "wait", "exec")
  /\ UNCHANGED ipcVars

ChildResume(a) ==
  /\ sem2[a] > 0
  /\ ChildStep(a, "wait", "exec")
  /\ sem2' = [sem2 EXCEPT ![a] = @ - 1]
  /\ UNCHANGED <<sem1, pipe>>

\* sem_wait was interrupted by a signal handler.
ChildWaitFails(a) ==
  /\ ChildStep(a, "wait", "report")
  /\ UNCHANGED ipcVars

ChildExec(a) ==
  /\ ChildStep(a, "exec", "running")
  /\ UNCHANGED ipcVars

ChildExecFails(a) ==
  /\ ChildStep(a, "exec", "report")
  /\ UNCHANGED ipcVars

\* Mutant: the text is left for later, semaphore1 posted after the length.
ChildReportLengthOnly(a) ==
  /\ ChildStep(a, "report", "postError")
  /\ pipe' = [pipe EXCEPT ![a] = Append(@, "length")]
  /\ UNCHANGED <<sem1, sem2>>

\* The catch block writes the length of the exception's text ...
ChildReport(a) ==
  /\ ChildStep(a, "report", "reportText")
  /\ pipe' = [pipe EXCEPT ![a] = Append(@, "length")]
  /\ UNCHANGED <<sem1, sem2>>

\* ... and then the text.
ChildReportText(a) ==
  /\ ChildStep(a, "reportText", "postError")
  /\ pipe' = [pipe EXCEPT ![a] = Append(@, "text")]
  /\ UNCHANGED <<sem1, sem2>>

ChildPostError(a) ==
  /\ ChildStep(a, "postError", "exit")
  /\ sem1' = [sem1 EXCEPT ![a] = @ + 1]
  /\ UNCHANGED <<sem2, pipe>>

\* A dead task leaves its cgroups.
Die(a, how) ==
  /\ life[a] = "alive"
  /\ life' = [life EXCEPT ![a] = "zombie"]
  /\ status' = [status EXCEPT ![a] = how]
  /\ member' = [member EXCEPT ![a] = {}]
  /\ UNCHANGED <<parentVars, child, killed, ipcVars, groups, limit, cleared,
                 waiter>>

\* return 1 after an error, or the end of the user's program.
Exit(a) ==
  /\ child[a] \in {"exit", "running"}
  /\ Die(a, "exited")

\* Killed by the OOM killer, an operator, or a fault of its own.
Perish(a) ==
  /\ a \notin killed
  /\ Die(a, "signaled")

\* The SIGKILL of the catch block takes effect.
KillDelivered(a) ==
  /\ a \in killed
  /\ Die(a, "signaled")

-----------------------------------------------------------------------------
(***************************************************************************)
(* WaitForProcess, on a libuv thread, once startSandbox has returned.      *)
(***************************************************************************)

WaitReap ==
  /\ waiter = "waiting"
  /\ life[attempt] = "zombie"
  /\ life' = [life EXCEPT ![attempt] = "reaped"]
  /\ waiter' = "reaped"
  /\ UNCHANGED <<parentVars, child, status, killed, ipcVars, cgroupVars>>

\* waitpid failed (EINTR): the wait is over, the child is not reaped.
WaitThrows ==
  /\ waiter = "waiting"
  /\ waiter' = "failed"
  /\ UNCHANGED <<parentVars, procVars, ipcVars, cgroupVars>>

\* Mutant: the exit status is looked at first.
WaitReadStatusFirst ==
  /\ waiter = "reaped"
  /\ waiter' = status[attempt]
  /\ UNCHANGED <<parentVars, procVars, ipcVars, cgroupVars>>

\* A report left in the pipe wins over the exit status; for half a report the
\* second read throws.
WaitRead ==
  /\ waiter = "reaped"
  /\ waiter' = IF pipe[attempt] = << >> THEN status[attempt]
               ELSE IF TextFollows(pipe[attempt]) THEN "error" ELSE "failed"
  /\ pipe' = [pipe EXCEPT ![attempt] = << >>]
  /\ UNCHANGED <<parentVars, procVars, sem1, sem2, cgroupVars>>

-----------------------------------------------------------------------------
StartSandbox ==
  \/ Clone \/ CloneFails
  \/ JoinGroup \/ JoinGroupFails
  \/ WriteLimit \/ WriteLimitFails
  \/ TimedWaitOk \/ TimedWaitExpires \/ TimedWaitFails
  \/ ReadNothing \/ ReadOk \/ ReadError \/ Probe
  \/ ClearUsage \/ ClearUsageFails \/ PostContinue
  \/ CatchKill \/ CatchReap

Parent == StartSandbox \/ Retry \/ GiveUp

ChildProcess(a) ==
  \/ ChildSetup(a) \/ ChildSetupFails(a)
  \/ ChildInform(a) \/ ChildPost(a)
  \/ ChildResume(a) \/ ChildWaitFails(a)
  \/ ChildExec(a) \/ ChildExecFails(a)
  \/ ChildReport(a) \/ ChildReportText(a) \/ ChildPostError(a)
  \/ Exit(a)

WaitForProcess == WaitReap \/ WaitThrows \/ WaitRead

Next ==
  \/ Parent
  \/ NodeCrash
  \/ WaitForProcess
  \/ \E a \in Attempts : ChildProcess(a) \/ Perish(a) \/ KillDelivered(a)

\* What the JavaScript thread does when no call fails for reasons of its own.
Forward ==
  \/ Clone \/ JoinGroup \/ WriteLimit
  \/ TimedWaitOk \/ TimedWaitExpires
  \/ ReadNothing \/ ReadOk \/ ReadError \/ Probe
  \/ ClearUsage \/ PostContinue
  \/ CatchKill \/ CatchReap
  \/ Retry \/ GiveUp

\* The JavaScript thread runs startSandbox to its end unless Node.js dies, and
\* no call has to fail for that; the kernel delivers a SIGKILL it has
\* accepted.  Nothing is assumed of the child: it may hang anywhere.
Fairness ==
  /\ WF_vars(Forward)
  /\ \A a \in Attempts : WF_vars(KillDelivered(a))

Spec == Init /\ [][Next]_vars /\ Fairness

-----------------------------------------------------------------------------
(***************************************************************************)
(* Properties.                                                             *)
(***************************************************************************)

\* The variables stay in their ranges: in particular the retry loop never
\* makes more than MAX_RETRY_TIMES + 1 attempts (index.ts:23-36).
TypeOK ==
  /\ pc \in ParentSteps \union Final
  /\ attempt \in Attempts
  /\ retryTimes \in -1..MAX_RETRY_TIMES
  /\ k \in 1..Len(LimitWrites)
  /\ waitResult \in BOOLEAN
  /\ error \in {"none", "child", "other"}
  /\ child \in [Attempts -> ChildSteps]
  /\ life \in [Attempts -> {"unborn", "alive", "zombie", "reaped"}]
  /\ status \in [Attempts -> {"none", "exited", "signaled"}]
  /\ killed \subseteq Attempts
  /\ sem1 \in [Attempts -> Nat]
  /\ sem2 \in [Attempts -> Nat]
  /\ pipe \in [Attempts -> Seq({"ok", "length", "text"})]
  /\ groups \in [Attempts -> SUBSET Controllers]
  /\ member \in [Attempts -> SUBSET Controllers]
  /\ limit \in [Attempts -> [Files -> {"max", "limit"}]]
  /\ cleared \in [Attempts -> BOOLEAN]
  /\ waiter \in {"none", "waiting", "reaped"} \union Verdicts

\* The user's program never executes outside its cgroups, before every limit
\* is written, or with usage counters that still hold the set-up's usage: the
\* two semaphores keep execvpe (sandbox.cc:256-260) after lines 305-363 of a
\* parent that runs concurrently.  And only the attempt startSandbox returned
\* executes it: the child of an attempt that failed never does, however late
\* its SIGKILL takes effect, so one call never runs the program twice
\* (sandbox.cc:365-379, index.ts:24-36).
ConfinedProgram ==
  \A a \in Attempts : child[a] \in {"exec", "running"} =>
    /\ pc = "returned" /\ a = attempt
    /\ groups[a] = Controllers
    /\ life[a] = "alive" => member[a] = Controllers
    /\ limit[a] = AllLimits
    /\ cleared[a]

\* Once semaphore1 was obtained the pipe holds a whole message: the child
\* writes before it posts on both its paths, so the bytesRead tests of
\* sandbox.cc:343 only ever matter after an expired wait, and the read of the
\* text at sandbox.cc:356 finds it.
HandshakeCarriesMessage ==
  pc = "read" /\ waitResult =>
    /\ pipe[attempt] # << >>
    /\ Head(pipe[attempt]) = "length" => TextFollows(pipe[attempt])

\* The limits are written in an order memcg accepts at every step: raise both,
\* then lower memory before memory plus swap (sandbox.cc:331-334).
LimitWritesAccepted ==
  pc = "limit" => KernelAccepts(limit[attempt], LimitWrites[k])

\* The verdict of WaitForProcess (sandbox.cc:389-411) says what happened in the
\* child.  A reported error was written whole, "exited" is a program that really
\* ran, although a child that reported an error exits too, and "signaled" hides no
\* report.  The wait fails without a verdict only when waitpid failed, the child
\* not reaped, or when the child was killed between the two writes of its report
\* (sandbox.cc:271-272): a child that reported is never taken for one that ended.
VerdictMatchesChild ==
  /\ waiter = "error" => child[attempt] \in {"postError", "exit"}
  /\ waiter = "exited" => child[attempt] = "running"
  /\ waiter = "signaled" =>
       child[attempt] \notin {"reportText", "postError", "exit"}
  /\ waiter = "failed" =>
       life[attempt] # "reaped" \/ child[attempt] = "reportText"

\* An attempt is never abandoned with a child that is alive and has not been
\* sent SIGKILL (sandbox.cc:370-379), so at most one child is not doomed.
AbandonedChildKilled ==
  \A a \in Attempts :
    /\ life[a] = "alive"
    /\ a < attempt \/ pc \in {"reap", "retry", "threw"}
    => a \in killed

\* The deadline d lies msecs after now and is normalised.
DeadlineIn(msecs, now) ==
  LET d == Deadline(now, msecs)
  IN  /\ 0 <= d.nsec /\ d.nsec < 1000000000
      /\ (d.sec - now.sec - msecs \div 1000) * 1000000000 + d.nsec
           = (msecs % 1000) * 1000000 + now.nsec

\* The parent waits with a deadline as sem_timedwait demands it
\* (semaphore.cc:48-60): else the wait fails with EINVAL or is a second short,
\* at times of the second no test chooses.
DeadlineExact ==
  pc = "timedwait" =>
  \A msecs \in {0, 500, 999, 1500}, nsec \in {0, 499999999, 500000000, 999999999} :
    DeadlineIn(msecs, [sec |-> 7, nsec |-> nsec])

\* How many steps a parent at a place has left in its attempt, at most: there are
\* 3 controllers to join and 5 limits to write.
StepsFrom(place, n) ==
  CASE place = "clone"     -> 18
    [] place = "join"      -> 18 - n
    [] place = "limit"     -> 15 - n
    [] place = "timedwait" -> 9
    [] place = "read"      -> 8
    [] place \in {"probe", "clear"} -> 7
    [] place = "post"      -> 6
    [] place = "kill"      -> 3
    [] place = "reap"      -> 2
    [] place = "retry"     -> 1
    [] OTHER               -> 0

StepsLeft == 18 * (IF retryTimes > 0 THEN retryTimes ELSE 0) + StepsFrom(pc, k)

\* Whatever moves the parent brings the end of the call nearer, failures, retries
\* and the end of Node.js included: however they follow each other, the call ends
\* within 18 steps for each attempt it may make (index.ts:23-36,
\* sandbox.cc:290-380).
WorkRunsOut == [][UNCHANGED parentVars \/ StepsLeft' < StepsLeft]_vars

\* The catch block sends SIGKILL to a pid that is no longer the child's
\* (sandbox.cc:375) only after semaphore1 has timed out and the probe has
\* taken the zombie (sandbox.cc:343-352): a child that got its message through
\* is never reaped before the kill.
StaleKillNeedsTimeout ==
  pc = "kill" /\ life[attempt] = "reaped" => ~ waitResult /\ error = "child"

(***************************************************************************)
(* The call as its caller sees it: ConfinedLaunch.  Attempts that failed   *)
(* are invisible, the semaphores and the pipe are gone.                    *)
(***************************************************************************)

outcomeView == IF pc \in ParentSteps THEN "pending" ELSE pc

confinedView ==
  /\ pc = "returned"
  /\ limit[attempt] = AllLimits
  /\ cleared[attempt]
  /\ life[attempt] = "alive" => member[attempt] = Controllers

programView ==
  IF pc # "returned" THEN "absent"
  ELSE IF life[attempt] = "alive"
  THEN IF child[attempt] = "running" THEN "running" ELSE "absent"
  ELSE IF child[attempt] = "running" THEN "finished" ELSE "failed"

verdictView == IF waiter \in Verdicts THEN waiter ELSE "none"

Launch == INSTANCE ConfinedLaunch WITH
  outcome <- outcomeView, confined <- confinedView,
  program <- programView, verdict <- verdictView

\* The whole machinery implements the launch a caller may rely on: it settles
\* once, the program runs once and only confined, and the verdict agrees;
\* and it does settle whatever the child does: nothing is assumed of the child's
\* progress, the 500 ms wait (sandbox.cc:337-339) bounds it (index.ts:15-37, sandbox.cc:290-412).
ImplementsLaunch == Launch!Spec

=============================================================================
