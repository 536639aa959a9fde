# chiko in TLA+

Chiko is an online judge under construction. What exists of it, and what runs, is
the judger: `src/judger/simple-sandbox`, a Node.js library with a C++ addon that
runs an untrusted program in namespaces, a chroot and cgroups; a set of checkers,
`src/judger/checkers`, which compare a contestant's output with the jury's; and a
test harness that puts the two together. This directory holds TLA+ specifications
of that code, the TLC configurations that check them on small instances, and
proofs, checked by TLAPS, of what they promise for every instance.

Source references are of the form `sandbox.cc:339` (paths are in section 1).

## 1. Inventory

### 1.1 Components

| Component | Code | State it keeps | Operations |
|---|---|---|---|
| startSandbox | `simple-sandbox/src/index.ts` | retry counter, cgroup name of the attempt | loop over attempts, retry on "The child process ..." |
| StartSandbox (parent side) | `simple-sandbox/native/sandbox.cc:290-380` | two semaphores, a pipe, `container_pid` | clone, join cgroups, write limits, timed wait, read, clear counters, post, catch block |
| ChildProcess (child side) | `simple-sandbox/native/sandbox.cc:161-288` | descriptors, mount namespace, root, credentials | set-up, message, post, wait, exec, error report |
| Parameter conversion | `simple-sandbox/native/addon.cc:92-183` | `SandboxParameter` | redirections, memory head room, stack size |
| Cgroup files | `simple-sandbox/native/cgroup.cc` | directories and files in three hierarchies | create, write, read, join, kill members, remove |
| PosixSemaphore, PosixPipe | `simple-sandbox/native/semaphore.cc`, `pipe.cc` | a counter, a non-blocking pipe | wait, timed wait, post; read, write |
| WaitForProcess worker | `simple-sandbox/native/addon.cc:186-237`, `sandbox.cc:382-412` | position in the libuv pool, its answer | waitpid on a pool thread, callback on the main thread |
| SandboxProcess | `simple-sandbox/src/sandboxProcess.ts` | timer, charged and actual CPU time, flags, `waitPromise` | constructor, checkIfTimedOut, stop, cleanup, classification |
| User lookup | `sandbox.cc:139-159` | none | scan of the sandbox's passwd file |
| Checkers | `checkers/*.cpp` | position in two files, a few flags | read, compare, exit code |
| Bodies of compile and run | `test/sandbox_tester.js`, `docs/simple_sandbox_setup.md:253-457` | a temporary directory each | make the directory, start a sandbox, wait, read, remove |
| SandboxTaskQueue of the guide | `docs/simple_sandbox_setup.md:106-242` | waiting tasks, the current one, a promise each | addTask, processQueue, clearQueue |
| Server pages | `server/ui-sample` | none | static |

### 1.2 How they interact

    startSandbox --call--> StartSandbox --clone--> ChildProcess --exec--> program
        |                       |   <-- pipe, semaphore1 --   |
        |                       |   -- semaphore2 ----------> |
        |                       +-- cgroup files (kernel) ----+
        v
    SandboxProcess --queue--> WaitForProcess (libuv thread, blocked in waitpid)
        |   ^                       |
        |   +---- callback ---------+
        +-- interval: reads cgroup files, may call stop() = kill(pid)

    SandboxTaskQueue --processQueue--> body of a task --startSandbox--> (above)
        |                                  |
        +---- promise of addTask           +-- directory mounted into the sandbox

The parent and the child of a launch run concurrently and share two semaphores, a
pipe and the cgroup tree. Once launched, four parties touch a sandbox: the main
thread (timer, user's calls, callbacks), a pool thread, the kernel, and the
program, which forks as it likes while its cgroups are read and removed. Tasks of
the queue meet on the main thread only, at their awaits. Checkers run alone, on
files.

### 1.3 What is hard in them

* **The launch handshake.** The child must not exec before the parent has put it
  into its cgroups, limited it and reset the counters; the parent must not wait
  for ever for a child that died; the message and the semaphore are two channels;
  a late child of an attempt that was given up must not run the program as well.
* **Partial failure.** A dozen file writes can throw after the clone.
* **Pids.** `kill` and `waitpid` name a process by a number that becomes free once
  the process is reaped, here by a probe, elsewhere by a pool thread.
* **Races of timer, user, end of the process and callback**, which meet in one
  classification that reads flags written at different times.
* **The pool.** Every running sandbox occupies one of four threads.
* **Lists that are stale when used.** The removal of a cgroup reads the pids in a
  file and kills each, while tasks fork and exit.
* **Awaits.** Between two awaits of a task, other tasks are added and cleared.
* **The order of some twenty system calls** in the child, each of which changes the
  meaning of those after it (root, directory, namespace, credentials, descriptors).
* **Numbers at a boundary**: -1 for "no limit", integer division, the limit writes.
* **Checkers that read ahead**: the word that ends one case belongs to the next.

The full list, each hazard at its line and with the properties that watch it, is
`hazards` in `PROJECT.json`.

### 1.4 What makes each component correct

* Launch: the program runs at most once, only confined, only for the attempt that
  was returned; a failed attempt leaves no living child; the call ends within a fixed
  number of steps per attempt; the verdict says what happened in the child.
  (`SandboxStart`, `ConfinedLaunch`)
* Running sandbox: the timer never fires on a removed cgroup; the charge lies
  between its two measures; stopping kills; a verdict on the program is only given
  to a program left alone within its limits; no program runs on unattended; a
  limited sandbox settles; a promise never changes once it has settled.
  (`SandboxRun`, `RunningSandboxes`)
* Removal: after a process was waited for nobody is signalled and no directory
  stays, unless two controllers share one, and only then it throws; after a failed
  wait everybody still dies; the memory reported is what the files said.
  (`CgroupTeardown`)
* Task queue: one program at a time, in the order of submission, none that was
  cleared; none is forgotten, every task settles and is reported as it went; a
  directory outlives the program that has it mounted, or that program is already
  being killed. (`TaskQueue`)
* Set-up: the child is contained, keeps root as long as needed and no longer, has
  the streams asked for, touches nothing of the host. (`ChildSetup`)
* Checkers: accept exactly the outputs that match; once the files are open, "fail"
  blames the jury's answer only. (`Checkers`)

## 2. Modules

| Module | Role |
|---|---|
| `ConfinedLaunch` | what a caller of `startSandbox` may rely on, in four variables |
| `SandboxStart` | the launch: retry loop, StartSandbox, ChildProcess, WaitForProcess; implements `ConfinedLaunch` |
| `SandboxStart_proof` | its safety theorems and the refinement step |
| `SandboxRun`, `MCSandboxRun` | running sandboxes, the pool, timers, callbacks; small instances |
| `RunningSandboxes` | what the callers of several sandboxes may rely on, in four variables; implemented by `SandboxRun`, used by `TaskQueue`; what follows from it, proved in place |
| `SandboxRun_proof` | the safety theorems of `SandboxRun` and the refinement step |
| `CgroupTeardown`, `MCCgroupTeardown` | the callback's use of the cgroup files, file by file, against tasks that fork; mount tables and file contents to consider |
| `CgroupTeardown_proof` | what `SandboxRun` assumes of the removal, and what memory is reported |
| `TaskQueue` | the task queue and the bodies of its tasks, composed with `RunningSandboxes` |
| `TaskQueue_proof` | its safety theorems |
| `ChildSetup`, `MCChildSetup` | the set-up of the child, call by call; parameters to consider |
| `ChildSetup_proof` | its safety theorems |
| `Checkers`, `MCCheckers` | nineteen checkers on sequences of tokens or lines; short files |
| `Checkers_proof` | correctness of the fifteen that compare token with token or line with line; typing and "fail" for all |
| `StructuredCheckers_proof` | correctness of the other four: `uncmp`, `caseicmp`, `casencmp`, `casewcmp` |

`map` in `PROJECT.json` gives the lines every definition stands for. Definitions
preceded by "Mutant:" are faulty variants of the definition that follows them; they
are not part of any specification, and document which slip each property would
catch.

### 2.1 SandboxStart

One call of `startSandbox`. `pc` walks through `StartSandbox` (clone, join, limit,
timedwait, read, probe, clear, post; kill and reap are the catch block) and the
retry loop around it; `attempt` stands for the cgroup name drawn for each attempt;
`child[a]` walks through `ChildProcess` of attempt `a`. `life`, `status` and
`member` are the kernel's view of the processes, `groups`, `limit` and `cleared`
that of the cgroup files. `waiter` is `WaitForProcess`, started when the call
returns. Every call that may throw has an action for its failure, the `waitpid` of
`WaitForProcess` included (`WaitThrows`): `waiter` is then "failed". A child may die
at any moment from outside (`Perish`), Node.js too (`NodeCrash`). The report of a
child that failed is two writes, the length (`ChildReport`) and the text
(`ChildReportText`); a child that dies between them leaves a length only, and
whoever reads it meets an empty pipe at the second read (`TextFollows`), whose
`ENSURE` throws. A group is fresh when `KillGroupMembers` lists it, unless the host
mounts two controllers together: the child has then joined it already and is killed
(`JoinedEarlier`). Time is abstract: the 500 ms wait may expire whenever the
semaphore is 0. `Deadline` is the arithmetic of its end.

Abstractions: the set-up of the child is one step that succeeds or throws (taken
apart in `ChildSetup`); a limit is "max" or "limit"; random cgroup names do not
collide; a write to the pipe succeeds, and arrives whole.

### 2.2 ConfinedLaunch

The abstract specification: a call is pending and then returned, threw or crashed,
once; only a returned, confined call may start its program, once; a verdict is
given once and agrees with whether the program ran, or the wait fails without one,
as the code's `ENSURE`s let it. `ImplementsLaunch` in
`SandboxStart` instantiates it with four state functions (`outcomeView`,
`confinedView`, `programView`, `verdictView`); attempts, semaphores, cgroups and the
pipe vanish behind them.

### 2.3 SandboxRun

Any number of sandboxes on one libuv pool. Every action of the main thread is one
JavaScript callback, hence atomic: `StartSandbox` (the constructor), `Tick`
(checkIfTimedOut), `UserStop` (stop), four `Callback...` actions (the callback of
`waitForProcess`, with the paths on which it throws) and `NodeExit`. `queue`,
`working` and `done` are the libuv pool: a worker is queued, blocks in `waitpid` on
a thread, and has its callback queued. `WaitReturns` is the moment at which the pid
becomes free, before the main thread knows. Programs end, are killed, use CPU time
or memory as they like.

CPU time is counted in quanta: one unit of elapsed time is worth `BusyUnit` = 5
quanta of a busy core, and a tick charges the larger of the CPU time used and
`ElapsedShare` = 2 quanta per unit, the code's 40%.

A pid stands for one sandbox: that the kernel gives the pid of a process that was
reaped to another one is not modelled. `run_stale_stop` shows that `stop()` signals
such a pid, and `VerdictJustified` speaks of sandboxes that no other one's stale pid
has hit. `Classify` compares a time limit of -1 as a number, as the code does; what
that means for the caller is the subject of `run_no_limit`.

A callback whose reads fail leaves the interval and the groups in place; every later
tick reads them again.

### 2.4 RunningSandboxes

The abstract specification of several sandboxes: a program runs, is being stopped,
ends; a promise settles once, with a verdict about a program that has ended, or
rejected, with the program ended or being stopped. A program that was stopped is
never said to have ended by its own doing, and one that was not is never reported as
Cancelled. `ImplementsSandboxes` in `SandboxRun` instantiates it: pool, clock,
counters and cgroups are hidden, `cancelled` is `stopping`.

### 2.5 CgroupTeardown

What `SandboxRun` takes as "the callback succeeds or throws", taken apart:
`ReadUsage`, `ReadLine`, `ReadCache`, `ReadCpuUsage`, `Stop`, and for each of three
controllers `ListTasks`, `KillNext`, `Rmdir`. `Fork` and `Exit` of the sandbox's
tasks may happen between any two of them. `Dir` is `GetPath` over the table of
mounts that `InitializeCgroup` read: the first mount of a controller, which two
controllers may share. `ReadLine` is one turn of the loop of `ReadGroupPropertyMap`
and `MoreLines` its condition, which ends it at a value that is no number; `Insert`
keeps the first of two lines with one name.

A tasks file that cannot be opened is read as an empty list, as `ReadArray64` does.

The kernel is modelled as far as the code relies on it: the sandbox is a PID
namespace, so nobody in it forks after its first process has exited, the others are
killed, and only then can the first be waited for. A pid stands for one task; its
reuse is the subject of `run_stale_stop`. `RemovalAsAssumed` is the contract between
the two modules: a process that was waited for is cleaned up without an exception
where the controllers are mounted apart, and with one (`CleanupThrows` of
`SandboxRun`) where two share a directory.

### 2.6 TaskQueue

The set-up guide's `SandboxTaskQueue`, and the bodies of `compile` and `run` as its
tasks; those in `Checks` have the body of `testIcmpChecker` (`test_both.js:139-255`)
instead, which removes its directory in a `finally` and catches every exception. The
sandboxes are those of `RunningSandboxes`, instantiated with one sandbox per task,
so that everything `SandboxRun` does is allowed here and nothing else. An action is
what JavaScript runs between two awaits: `AddTask` includes the start of the body
when the queue is idle, `Settle` includes the start of the next one. `dirs` is the
set of temporary directories, which `compile` and `run` remove on their normal path
only; `LeftBehind` is what an exception leaves of them. `startSandbox`'s own await
is part of the body's first half: it touches no variable of the queue, and what
happens during it is the subject of `SandboxStart`. The guide is a document, but the
queue is code a reader is told to install.

### 2.7 ChildSetup

What `SandboxStart` takes as one step. `Order` is the program order of
`ChildProcess`; `Convert` is `NodeStartSandbox`, the other actions are the system
calls in groups, with `RedirectIO` stream by stream and one bind mount at a time.
The state is what later calls depend on: `root`, `cwd`, `private`, the mount
`tree`, the descriptors `fds` and the credentials. An open file description is
identified by what was opened, the root and directory it was looked up in, and the
stream that opened it, so that sharing one description (one offset) differs from
opening the file twice; with it goes the user as whom it was opened. Mount limits and
descriptors pass through `Int32Value` (the low bits, read as signed; `Int32Size` is
2^32 in the code), and the place of a mount through `HostPath`, since `fs::relative`
follows the symbolic links of the host. Any step may fail.

Left out: the CPU affinity mask, the value of the host name, mounts nested in each
other, symbolic links inside the chroot, the user lookup. The model takes the
caller's numbers to denote open descriptors.

### 2.8 Checkers

A checker is a program over two token sequences; a token is what the readers and
tests of the checkers can see of it. The loop conditions, the order of the tests
and the exit codes are those of each program; three families share the loop that
compares token with token (`Single`, `AnswerDriven`, `Paired`), `uncmp`, `caseicmp`
and the two case checkers have their own actions. `fcmp` and `lcmp` compare line with
line; a line is one token of theirs. The repository's `testlib.h` declares the files
as plain `std::ifstream`s, which have none of the readers the checkers call. Numbers
and words are taken to be read as by `readInt` of its class `InStream` (presentation
error at the end of the file or on a wrong token). `readString` of `fcmp` and `lcmp`
is taken to read a line, as their names and messages say; `InStream::readString` reads
a token. Before anything is read, `registerTestlibCmd` exits with "fail" for a wrong
number of arguments and for a file that cannot be opened (`Refuse`).

## 3. Runs

| Run | Expected | What it asks |
|---|---|---|
| `start` | pass | Every interleaving of the parent, two children and the waiter, with every failure: is the program only run confined and by the returned attempt, does the call end, is `ConfinedLaunch` implemented? |
| `run` | pass | Timer, stop, callbacks and their errors, process ends, in every order, for a limited and an unlimited sandbox on one pool thread: are verdicts justified, do limited sandboxes settle, is `RunningSandboxes` implemented? |
| `run_stale_stop` | violation | Does stop() only signal a pid that is still the process's? |
| `run_exit` | violation | Does process.exit kill the sandboxed process? |
| `run_no_limit` | violation | Does a sandbox without a time limit never exceed it? |
| `run_starved` | violation | Does a process that ended reach its waiter whatever the others do? |
| `cgroup` | pass | Tasks fork and exit while the callback reads and removes their cgroups: does `SandboxRun`'s assumption hold, does anybody survive, what is reported as memory? |
| `tasks` | pass | Tasks are added, cleared, run, throw and are rejected in any order: one at a time, in order, all settled? |
| `setup` | pass | Is a child that says it is ready contained, and are its streams those asked for? |
| `setup_no_limit` | violation | Does -1 mean no limit? |
| `setup_outputs` | violation | Are output files that are redirected to after chroot opened with the rights of the sandbox's user? |
| `checkers` | pass | Does each checker give the verdict that a definition over the whole files gives? |

Deadlock is not checked: a call returns, a process ends, a queue is empty, a checker
exits, and then nothing is left to do.

### 3.1 Properties

`SandboxStart`

* `ConfinedProgram`: the program runs once, in the returned attempt, and only
  confined, at the level of semaphores and kills that have not taken effect yet.
* `HandshakeCarriesMessage`: a semaphore obtained means a whole message in the pipe,
  both writes of a report included, so the `bytesRead` test matters after an expired
  wait only.
* `LimitWritesAccepted`: memcg refuses a memory limit above memory plus swap; no
  write is made when it would be refused.
* `VerdictMatchesChild`: a reported error was written whole, "exited" is a program
  that ran, "signaled" hides no report; the wait fails without a verdict only when
  `waitpid` failed or the child was killed in the middle of its report.
* `AbandonedChildKilled`: no attempt is given up with a living child that has not been
  sent SIGKILL.
* `StaleKillNeedsTimeout`: the catch block kills a pid that is no longer the child's
  only after the wait expired and the probe at `sandbox.cc:345` took the zombie; a
  child that got its message through is never reaped before.
* `DeadlineExact`: the deadline of the wait is normalised and as far ahead as was
  asked for, at the ends of the second too.
* `WorkRunsOut`: whatever moves the parent, failures and retries included, brings the
  end of the call nearer: at most 18 steps for each attempt.
* `ImplementsLaunch`: the refinement, with its liveness part: the call ends whatever
  the child does.

`SandboxRun`

* `TickFindsGroup`: the interval is cleared before the cgroups go, on every path; a
  tick that found them gone would throw out of a timer and end Node.js.
* `ChargeBounds`: the charge is at least the CPU time and at least 40% of the
  elapsed time, and at most their sum.
* `Supervised`: a program that runs and is not being killed was not stopped (no flag
  without its signal), is waited for and, if it is limited, watched,
  and was within its time at the last tick: no path of the callback settles over a
  program that goes on for ever.
* `VerdictJustified`: OK, RuntimeError and MemoryLimitExceeded are only given to a
  program the judge did not kill and that kept its limit by both counts.
* `OneWorkerEach`: an unsettled sandbox has exactly one worker somewhere in the pool.
* `LimitedSettles`: waitForStop settles for every time-limited sandbox.
* `ImplementsSandboxes`: the refinement, with its liveness part: a program that is
  being stopped ends.

`CgroupTeardown`

* `RemovalAsAssumed`: the contract above. It holds because of the PID namespace:
  `KillGroupMembers` is no barrier to a task that forks. `EnsureGroup` throws for a
  directory already gone, which happens exactly where two controllers share one.
* `NobodyAtLarge`: past `stop()` or the return of `waitpid`, every task is about to be
  killed or depends on the first, which is; no list of pids is needed for it.
* `NothingSurvives`: after a failed wait every task dies, also when
  `KillGroupMembers` gives up at a task that is gone.
* `MemoryMeasured`: the memory is the peak less the cache of the first line of that
  name, or the peak alone if the file cannot be read that far.

`TaskQueue`

* `OneProgram`: of two programs that run at a time one is being stopped. Two can run:
  a body whose waitForStop was rejected goes on while its program is being killed.
* `InOrder`, `TasksSettle`: no task is overtaken, every task settles also when others
  throw.
* `NobodyForgotten`: a task that has not settled is the current one or in a queue that
  is being processed, however bodies throw and the queue is cleared.
* `ReportedTruly`: a task is reported as done only when its program ended, was judged,
  and its directory is gone, unless its body keeps its exceptions to itself; as failed
  only when its body threw; as cleared only when it never starts.
* `DirsOutlivePrograms`: the directory that `compile` or `run` mounted is there as
  long as the program runs, and what they leave for good belongs to a body that
  threw. A checker's directory may go while its program runs, but only after its
  wait was rejected, when the program is being killed.

`ChildSetup`

* `StreamsAsRequested`: the streams of a child that is ready are what was asked for, a
  path looked up in the root and directory of the documentation, stdout and stderr on
  one path sharing an offset. A number below the stream's own gives the sandbox's
  stream of that number, since the three are replaced one by one. As whom a path is
  opened is left open; `setup_outputs` is about that.
* `HostUntouched`, `PrivilegedWhileRoot`: no mount propagates; root is given up last.
* `Contained`: a ready child has the sandbox's root, no privilege and no foreign
  group, and nothing is writable that was not asked to be, by whatever name it was
  called. What was asked to be writable is so, for every limit that an int holds; a
  limit of 2^32 becomes 0 and the mount read-only.
* `MemoryHeadRoom`: the kernel's limit lies above the caller's.

`Checkers`: `SequencesJudged`, `StructuredJudged` (the verdict a definition over
whole files gives) and `FailBlamesAnswer` ("fail" is explained by a token of the
answer), all of them once the three files are open: a missing output is reported as
"fail", like a mistake of the jury (`testlib.h:136-139`).

### 3.2 What the violations show

1. `run_stale_stop`: between `waitpid` on the pool thread and the callback, and any
   time after it, `stop()` signals a pid that has been reaped and may be reused.
2. `run_exit`: `README.md:81` of simple-sandbox promises an exit listener;
   `stopCallback` is built and removed but never registered.
3. `run_no_limit`: the timer honours a time limit of -1, the classification compares
   with it as a number and reports TimeLimitExceeded.
4. `run_starved`: sandboxes without a time limit can occupy the whole pool; a
   sandbox whose process has ended is then never reported.
5. `setup_outputs`: `interfaces.ts:36-41` says that redirecting after chroot, and
   setuid, has the permission checked when the output files are created; they are
   opened at `sandbox.cc:220`, as root, before setuid at `sandbox.cc:246`.
6. `setup_no_limit`: a memory limit of -1 becomes -1 / 4 * 5 = 0 bytes, and a stack
   size of -1 is turned into "leave unchanged".

### 3.3 Bounds, and why they are enough

* `MAX_RETRY_TIMES = 1` (20 in the code): two attempts. An attempt shares nothing
  with another but `retryTimes`, the pids and a child that may outlive it; a first,
  a last and a child left over between them all exist with two. The safety
  properties are proved for every number.
* Two sandboxes, `PoolSize = 1`: with one thread for two the pool is full and the
  queue is used, which are the only ways sandboxes influence each other.
* `MaxElapsed = 2`, a limit of 3 quanta: one idle unit (2 quanta) stays below it, two
  exceed it, a busy one (5 quanta) does at once; elapsed time saturates there, so
  that a limited sandbox can also run with the clock stopped. The pair is the smallest
  with a tick below and one above the limit on either count. The safety properties are
  proved for every limit and pool.
* `cgroup`: the first task and three it forks, so that a list can be read with one
  task missing, one gone and one alive; controllers apart, with a second hierarchy
  and a second mount of one, and two in one directory (in the code a sandbox seldom
  gets that far: its child is killed when it joins the second); `memory.stat` of up
  to two lines with and without the name looked for, twice the same name, and values
  that cannot be read.
* `tasks`: three tasks, one of them a check, so that one runs, one is next and one may
  overtake it. More
  tasks only lengthen the queue; the safety properties are proved for every set.
* `setup`: every triple of streams out of two paths, the empty path, a missing one
  and two numbers, before and after chroot; every list of up to two mounts over two
  places (so the same place twice), one of them also under a name that a link of the
  host resolves, with read-only, writable and unlimited requests, with a limit
  beyond an int (`Int32Size` is 16, a limit 16) and a relative target; memory limits
  from 16 to 40 bytes, all residues of the division included, and three stack sizes.
  The three groups are varied separately: no call's effect depends on parameters of
  two of them.
* `checkers`: all pairs of files of up to three tokens over four numbers (one of
  them in two spellings), three lines over four (an empty one, and two that differ by
  blanks only), two tokens over four words; for case files up to six
  tokens, so that a second case begins and "Case" is read ahead in either file.
  Each of the four refusals of `registerTestlibCmd` is combined with all of them.
  Three tokens show a difference at the first, a middle and the last position and
  one file longer than the other by one and two.

### 3.4 Fairness

* `SandboxStart`: weak fairness of `Forward`, the disjunction of what the JavaScript
  thread does when no call fails of its own. The thread is a sequential program: it
  goes on while Node.js lives, no step of it waits for the child, since the wait
  expires, and it must not depend on a lucky failure. Weak fairness of
  `KillDelivered(a)`: the kernel delivers SIGKILL. Nothing is assumed of a child; it
  may hang anywhere, before and after its exec.
* `SandboxRun`: weak fairness, per sandbox, of the interval, of the callback of a
  finished worker, of `waitpid` returning for a zombie and of the delivery of
  SIGKILL; of a free pool thread taking the next worker; and of time. These are the
  event loop, libuv and the kernel. Programs need not end and users need not call
  anything.
* `ConfinedLaunch`: weak fairness of settling the call. `RunningSandboxes`: a program
  being stopped ends.
* `CgroupTeardown`: weak fairness of the callback's steps, which is one JavaScript
  callback with synchronous calls, and of the delivery of SIGKILL. A step that throws
  is not one it relies on.
* `TaskQueue`: weak fairness of what follows an await (`Settle`, `Resume`), and of a
  sandbox settling. The latter is `LimitedSettles`: every body sets a time limit.
* `ChildSetup` and `Checkers` have no liveness property and state no fairness.

## 4. Proofs

TLAPS (tlapm 1.4.5 with Z3, Zenon and LS4) checks every proof to its last leaf.

| Module | Theorem | Statement |
|---|---|---|
| `SandboxStart_proof` | `TypeCorrect` | `Spec => []TypeOK` |
| | `Confined` | `Spec => []ConfinedProgram` |
| | `HandshakeMessage` | `Spec => []HandshakeCarriesMessage` |
| | `LimitOrder` | `Spec => []LimitWritesAccepted` |
| | `VerdictSound` | `Spec => []VerdictMatchesChild` |
| | `AbandonedKilled` | `Spec => []AbandonedChildKilled` |
| | `StaleKill` | `Spec => []StaleKillNeedsTimeout` |
| | `DeadlineNormalised` | `DeadlineExact`, and the same for every wait and time of day |
| | `CallBounded` | `Spec => WorkRunsOut` |
| | `LaunchRefinement` | `Spec => Launch!SafeSpec` |
| `SandboxRun_proof` | `RunTypeCorrect` | `Spec => []TypeOK` |
| | `TickSafe` | `Spec => []TickFindsGroup` |
| | `ChargeBounded` | `Spec => []ChargeBounds` |
| | `VerdictCorrect` | `Spec => []VerdictJustified` |
| | `WorkersKept` | `Spec => []OneWorkerEach` |
| | `AllSupervised` | `Spec => []Supervised` |
| | `RunRefinement` | `Spec => Promised!SafeSpec` |
| | `PromisesKept` | `Spec => []Promised!SettledRightly /\ Promised!Settling` |
| `RunningSandboxes` | `SettledOnce` | `SafeSpec => []SettledRightly /\ Settling` |
| `CgroupTeardown_proof` | `NobodyLarge` | `Spec => []NobodyAtLarge` |
| | `Removal` | `Spec => []RemovalAsAssumed` |
| | `TeardownTyped` | `Spec => []TypeOK` |
| | `MemoryReported` | `Spec => []MemoryMeasured` |
| `TaskQueue_proof` | `TasksTyped` | `Spec => []TypeOK` |
| | `OneAtATime` | `Spec => []OneProgram` |
| | `DirsKept` | `Spec => []DirsOutlivePrograms` |
| | `Ordered` | `Spec => InOrder` |
| | `NoneForgotten` | `Spec => []NobodyForgotten` |
| | `TruthReported` | `Spec => []ReportedTruly` |
| | `QueueUsesSandboxes` | `Spec => Sandbox!SafeSpec` |
| | `QueueKeepsPromises` | `Spec => []Sandbox!SettledRightly /\ Sandbox!Settling` |
| `ChildSetup_proof` | `SetupTypeCorrect` | `Spec => []TypeOK` |
| | `HostStaysUntouched` | `Spec => []HostUntouched` |
| | `RootWhileNeeded` | `Spec => []PrivilegedWhileRoot` |
| | `StreamsCorrect` | `Spec => []StreamsAsRequested` |
| | `ReadyContained` | `Spec => []Contained` |
| | `HeadRoomKept` | `Spec => []MemoryHeadRoom` |
| `Checkers_proof` | `JudgedCorrectly` | `Spec => []SequencesJudged` |
| | `CheckersTyped` | `Spec => []TypeOK` |
| | `FailJustified` | `Spec => []FailBlamesAnswer` |
| `StructuredCheckers_proof` | `StructuredCorrect` | `Spec => []StructuredJudged` |

**Assumptions.** `MAX_RETRY_TIMES` is a natural number. The pool has at least one
thread, a time limit is a natural number or -1, `MaxElapsed` is a natural number;
the set of sandboxes is arbitrary. The first three descriptors are open and
descriptors are natural numbers that an int holds; an int has some number of values
(`Int32Assumption`); the links of the host lead from paths to paths
(`HostPathAssumption`); the empty path and "/" are paths; parameters have their
type. Inputs of checkers are two sequences of tokens, and a token that is a label is
not the word "Case". Every controller is mounted somewhere (else no sandbox starts),
files have lines of names and integers, the first task is a task. `NoTask` is no
task, and the checks are tasks (`CheckAssumption`). TLC evaluates all of them in the
runs above.

**SandboxStart.** No property is inductive alone: that a child in `exec` is confined
depends on where the parent was when it posted. `IInv` adds what makes it so:
attempts not made yet left no trace (`FreshInv`); `attempt + retryTimes` is constant
(`RetryInv`); how far the joins and the limit writes are at each position of the
parent (`JoinInv`, `LimitInv`, `ClearInv`); a post of semaphore2, or a child beyond
it, means that the parent has returned this attempt (`ResumeInv`); the exact
contents of the pipe and semaphore1 for each position of the child, half a report
included, before and after the parent has read (`PipeInv`); what the kernel's record
implies (`StatusInv`); and that the waiter works on the returned attempt
(`WaiterInv`). The proof has one lemma for each part, with a step for every action.
The refinement `LaunchRefinement` uses the same invariant: every step of the parent
but the last is a stutter of the caller's view, `PostContinue` is `Return`, and a
step of a child is visible for the returned attempt only. `CallBounded` needs the
types and `JoinInv` only: `StepsFrom` falls along the program text from 18 at
`clone` to 0, and a retry, which goes back to `clone`, takes one from the counter.
With it, termination (TLC, under fairness) only asks that the thread is never stuck.

**SandboxRun.** `RInv` adds to the four properties: a sandbox not started has no
trace, workers are for started sandboxes, a finished worker's answer is the end of a
reaped process or an error, the counters compared by a tick never run backwards, a
signal is explained by a flag and a charge above the limit by the time-out, a
stopped sandbox is dead or has its SIGKILL (`StopKills`), and a settled verdict is
about a reaped process whose timer is off. Each action is first reduced to a frame
lemma (what it changes, for one sandbox), and the parts of the invariant are proved
from the frames. `OneWorkerEach` is a statement about where a sandbox occurs in two
sequences and a set; it rests on lemmas about the range and the injectivity of a
sequence under Append and Tail. `RunRefinement` goes over the actions once more with
what each means to a caller: a tick or a user's call is `Stop` or nothing, the end
of a process `End`, a callback `Judge` or `Reject`, and everything the pool and the
clock do a stutter. `VerdictJustified` is what makes the verdict one of
`Verdicts(s)`. `AllSupervised` adds to `RInv` that a sandbox which has not settled
has its timer and that one which settled over a living process was stopped
(`WatchInv`), and reads off the last tick what the timer has let pass.

**RunningSandboxes.** What the abstract specification is worth is a theorem about it:
a promise that is settled stays as it is, its verdict concerns a program that has
ended, and a program that runs on after its promise was rejected is being stopped
(`SettledOnce`). By the refinements it holds of `SandboxRun` (`PromisesKept`) and,
since every step of the queue is a step of one sandbox or none of any
(`QueueUsesSandboxes`), of the programs of tasks (`QueueKeepsPromises`).

**CgroupTeardown.** `RemovalAsAssumed` needs two facts it does not state: once the
first process was waited for nobody is left and no list of pids is in use
(`NobodyLeft`), and what is left of the directories are those that no earlier
controller had (`OneByOne`), so that the next one is missing exactly when it is shared
with an earlier one. `NobodyLarge` is
inductive with one addition (`LargeInv`): at every moment, if the first task is
gone, all that are left are about to be killed. Then the callback has only to see to
the first, which `stop()` or the successful `waitpid` does. `MemoryReported` rests
on the invariant of the loop over `memory.stat` (`MapInv`): all lines before the
last one read were good, every name read is in the map, and what the map holds for
the cache is the first line of that name, 0 if it was not a number.

**TaskQueue.** A program that runs and is not being stopped belongs to a sandbox
that has not settled, so its body waits (`BodyInv`), and only the current task
waits; that gives `OneProgram`. `PromiseInv` and `QueueInv` say that the queue holds
each task once, added and not started, so that what is taken or cleared has not run
and what was added earlier stays in front. `PendingInv` follows a task that has not
settled from the queue to `current`, over the moments at which `processQueue` takes
one and `clearQueue` rejects the rest; `ReportInv` follows an outcome from the
sandbox through the body, which returns on a verdict only, to the promise of
`addTask`. `DirsKept` uses that a body of the usual kind keeps its directory until it
has a verdict, and that a rejected sandbox whose program runs is being stopped.

**ChildSetup.** `SInv` ties every variable to `pos`: root and directory, private,
credentials are functions of the position (`PlaceInv`, `MountInv`, `CredInv`); in
the loop over mounts each place is as the last request so far says; in the loop over
streams those done are as requested, and the numbers not replaced yet still denote
the caller's descriptors (`StreamInv`). That a limit or a descriptor which an int
holds is passed on unchanged is `Int32Exact`, arithmetic of the remainder. The
theorem about the memory head room is integer arithmetic about `HeadRoom`
(`HeadRoomAlways`).

**Checkers.** `JInv` is the loop invariant of the token-by-token loops: the first
`n` positions agree and the positions in both files are `n`; when the extras are
counted, one of the files is exhausted at `n`. Nothing is read before the files are
open. It holds for files of any length over
any tokens. `CheckersTyped` covers all nineteen checkers: the case checkers find the
next "Case" by a position, which stays inside the file because a non-empty set of
positions has a least one (well-founded induction on the naturals).

**StructuredCheckers.** For `caseicmp` the loop invariant is that of the triples
read so far (`TriplesInv`). `uncmp` sorts both files and compares them place by
place; that this decides equality of the multisets rests on where a value stands in
a sorted sequence: at the places between the number of smaller values and the number
of values up to it (`Place`). Counts that agree for every value therefore put the
same value at every place (`SortedSame`); conversely sequences equal after sorting
have the same counts, and matchings of each value's positions are glued into one
matching of the files. The two case checkers read one word ahead, so `CasesInv` says
where a stream stands: just behind the "Case" number `t` (`StreamAt`), where the
number of a "Case" is its rank among the positions that hold one. A "Case" read
ahead while comparing the bodies is the next by rank (`NextStart`), both for the
answer and for the output; a label, being no "Case", cannot be mistaken for one.

**Model-checked only.** Liveness (`LimitedSettles`, `NothingSurvives`,
`TasksSettle`, and the liveness parts of `ImplementsLaunch` and
`ImplementsSandboxes`), which is out of the prover's reach under fairness. The
safety that each of them rests on is proved: the steps that are left decrease
(`WorkRunsOut`), an abandoned child has its SIGKILL (`AbandonedChildKilled`), a
limited sandbox is watched (`Supervised`), nobody is at large (`NobodyAtLarge`),
nobody is forgotten (`NobodyForgotten`). Every invariant and every action property
of the passing runs is proved.

## 5. Not modelled, and why

* `GetUserEntryInSandbox`: a scan of a file by libc, without state of its own.
* `pointscmp`, `pointsinfo`: one number each, reported as points.
* The order in which `test_both.js` calls compile, run and the checker: three calls
  one after another with fixed files. Each is a body of `TaskQueue`, the first two of
  the usual kind, the third (`testIcmpChecker`) a member of `Checks`.
* Reuse of pids, inside one sandbox and between two, steps of the realtime clock
  during the timed wait, random names that collide, uid maps, the kernel's memory
  accounting, the contents of files, wording of messages.
* The server pages have no behaviour. `hasUserTask` of the queue changes nothing.

Known differences that no property states, because the code promises nothing about
them or is incomplete there:

* `testlib.h` as it is in the repository declares `inf`, `ouf` and `ans` as plain
  `std::ifstream`, and its `InStream` lacks `readLong`, `readWord`, `readToken`,
  `readWordTo` and `eof`, so the checkers need another `testlib.h` to compile.
  `compile` of `test_both.js` copies only `icmp.cpp`.
* `quitf` does not look for unread output, so `rncmp`, `rcmp4`, `rcmp6`, `rcmp9` and
  the checkers of single tokens accept extra output. `SequencesJudged` states what
  they do accept.
* A stream given as a number below its own (for instance `stderr: 1`) denotes the
  stream already replaced. `StreamsAsRequested` states that.
* A mount limit passes through `Int32Value()` (`addon.cc:160`): 2^32 becomes 0, and
  the mount read-only. `Contained` promises a writable mount for limits an int
  holds.
* The place of a mount is resolved through the host's symbolic links
  (`fs::relative`, `sandbox.cc:198`) and then used inside the chroot.
* A missing output file makes a checker exit with "fail" (`testlib.h:136-139`), as a
  missing answer does.
* A failed attempt leaves its cgroups behind, under a name no later attempt uses
  (`index.ts:18`; `interfaces.ts:79` warns of junk files). The variable `groups` of
  `SandboxStart` shows them.
* A reaped or hung child of a failed attempt: the `waitpid(WNOHANG)` right after
  `kill` usually finds the child alive, so its zombie stays.
* `stop()` between the end of a process and its callback turns a finished run into
  Cancelled; `RunningSandboxes` allows it.
* After an expired wait, the catch block kills a pid that the probe may have reaped
  (`StaleKillNeedsTimeout` says when).
* `hasUserTask` looks for ids that begin with `user-<id>-`
  (`docs/simple_sandbox_setup.md:203`, `:208`), but `submitTask` builds
  `<type>-<user>-<random>` (`:470`), so it returns true for a task type `user` only.
* A body of `compile` or `run` that throws leaves its temporary directory
  (`docs/simple_sandbox_setup.md`, `sandbox_tester.js:110`). `testIcmpChecker`
  removes its own in a `finally` (`test_both.js:244-246`) and so takes it from a
  program that may still be dying after a rejected wait.
* Where two of the controllers are mounted together, the second `KillGroupMembers`
  of a launch (`sandbox.cc:313`) kills the child, which has joined with the first,
  so that the launch fails. A sandbox that gets past it (the tasks file could not be
  read) meets the exception of the second `removeCgroup`.

## 6. Plan

Done, in this order: `ConfinedLaunch` and `SandboxStart` (the launch is where a
mistake lets an unconfined program run), `SandboxRun` (verdicts) and
`RunningSandboxes`, `ChildSetup` (containment), `Checkers` (judging),
`CgroupTeardown` (what `SandboxRun` assumed of the removal), `TaskQueue` (the callers,
on top of `RunningSandboxes`), with their proofs.

What is left, in order of importance:

1. `ChildSetup` as a refinement of the single set-up step of `SandboxStart`, and with
   it the launch and the run of one sandbox in one composition.
2. The user lookup as an operator checked against a reference definition.

## 7. Running the checks

    tlc -workers 2 -config start.cfg SandboxStart
    tlc -workers 2 -config run.cfg MCSandboxRun
    tlc -workers 2 -config cgroup.cfg MCCgroupTeardown
    tlc -workers 2 -config tasks.cfg TaskQueue
    tlc -workers 2 -config setup.cfg MCChildSetup
    tlc -workers 2 -config checkers.cfg MCCheckers
    for m in SandboxStart_proof SandboxRun_proof RunningSandboxes CgroupTeardown_proof \
             TaskQueue_proof ChildSetup_proof Checkers_proof StructuredCheckers_proof
    do tlapm $m.tla; done

`runs` in `PROJECT.json` pairs every configuration with its module. The distinct
states: `checkers` 2,306,943, `run` 652,616, `start` 538,585, `cgroup` 398,025,
`tasks` 209,634, `setup` 26,656; none takes more than a few minutes with two
workers.
