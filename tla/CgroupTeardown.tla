--------------------------- MODULE CgroupTeardown ---------------------------
(***************************************************************************)
(* What the callback of waitForProcess (sandboxProcess.ts:53-97) does with *)
(* the cgroup files of its sandbox, file by file (native/cgroup.cc), while *)
(* the sandbox's tasks may still fork and die.  SandboxRun takes all of it *)
(* as one step that succeeds or throws; this module tells when which.      *)
(*                                                                         *)
(* The kernel: the sandbox is a PID namespace (CLONE_NEWPID).  When its    *)
(* first process exits nobody in it can fork any more, the others are      *)
(* killed, and the first can be waited for once they are gone.  A task     *)
(* that has exited leaves its cgroups.  A pid stands for one task: reuse   *)
(* of pids is not modelled.                                                *)
(***************************************************************************)
EXTENDS Integers, Sequences

CONSTANTS
  Tasks, Root,   \* every task the sandbox may have, and the first of them
  MountTables,   \* contents of /proc/mounts to consider
  StatFiles,     \* contents of memory.stat to consider
  Usages         \* values of memory.memsw.max_usage_in_bytes to consider

\* The controllers in the order removeCgroup visits them.
ControllerSeq == <<"memory", "cpuacct", "pids">>

Hierarchies(mounts, controller) ==
  SelectSeq(mounts, LAMBDA m : m.type = "cgroup" /\ controller \in m.opts)

\* GetPath throws for a controller without a mount, and then no sandbox starts.
ASSUME TeardownAssumption ==
  /\ Root \in Tasks
  /\ MountTables \subseteq Seq([type : STRING, dir : STRING, opts : SUBSET STRING])
  /\ \A t \in MountTables, k \in 1..3 : Hierarchies(t, ControllerSeq[k]) # << >>
  /\ StatFiles \subseteq Seq([name : STRING, val : Int, good : BOOLEAN])
  /\ Usages \subseteq Int

VARIABLES
  mounts,    \* what InitializeCgroup read
  stat, usage,  \* contents of two files of the memory controller
  dirs,      \* hierarchies that have a directory of the sandbox
  alive,     \* tasks that run: the tasks file of every controller
  unborn,    \* tasks that were not forked yet
  doomed,    \* tasks a SIGKILL is pending for
  reaped,    \* did waitpid return the first process?
  err,       \* did WaitForProcess throw?
  pc,        \* location of the callback
  c,         \* controller being removed
  list,      \* tasks read from the tasks file and not signalled yet
  line, map, \* lines of memory.stat read, and what they were stored as
  memUsage   \* the memory the callback reports

fileVars == <<mounts, stat, usage>>
taskVars == <<alive, unborn>>
loopVars == <<line, map>>
vars == <<fileVars, taskVars, loopVars, dirs, doomed, reaped, err, pc, c, list, memUsage>>

\* GetPath: the first mount counts.  Controllers mounted together share it.
Dir(k) == Hierarchies(mounts, ControllerSeq[k])[1].dir
Final  == {"readThrew", "removeThrew", "done"}

Init ==
  /\ mounts \in MountTables /\ stat \in StatFiles /\ usage \in Usages
  /\ dirs = {Dir(k) : k \in 1..3}
  /\ alive = {Root} /\ unborn = Tasks \ {Root} /\ doomed = {}
  /\ reaped = FALSE /\ err = FALSE
  /\ pc = "wait" /\ c = 1 /\ list = {} /\ memUsage = 0
  /\ line = 0 /\ map = [name \in {} |-> 0]

-----------------------------------------------------------------------------
(***************************************************************************)
(* The tasks of the sandbox and the kernel.                                *)
(***************************************************************************)

Fork(p) ==
  /\ Root \in alive /\ p \in unborn
  /\ alive' = alive \union {p} /\ unborn' = unborn \ {p}
  /\ UNCHANGED <<fileVars, loopVars, dirs, doomed, reaped, err, pc, c, list, memUsage>>

\* Whom the exit of p takes with it.
Zapped(p) == IF p = Root THEN alive ELSE {}

Exit(p) ==
  /\ p \in alive
  /\ alive' = alive \ {p}
  /\ doomed' = (doomed \union Zapped(p)) \ {p}
  /\ UNCHANGED <<fileVars, loopVars, unborn, dirs, reaped, err, pc, c, list, memUsage>>

KillDelivered(p) == p \in doomed /\ Exit(p)

-----------------------------------------------------------------------------
(***************************************************************************)
(* The callback.                                                           *)
(***************************************************************************)

Waitable == alive = {}

\* waitpid returned; the child may have left an error in the pipe.
WaitReturns ==
  /\ pc = "wait" /\ Waitable
  /\ reaped' = TRUE
  /\ err' \in BOOLEAN
  /\ pc' = IF err' THEN "stop" ELSE "usage"
  /\ UNCHANGED <<fileVars, loopVars, taskVars, dirs, doomed, c, list, memUsage>>

WaitThrows ==
  /\ pc = "wait"
  /\ err' = TRUE /\ pc' = "stop"
  /\ UNCHANGED <<fileVars, loopVars, taskVars, dirs, doomed, reaped, c, list, memUsage>>

Goto(step) ==
  /\ pc' = step
  /\ UNCHANGED <<fileVars, loopVars, taskVars, dirs, doomed, reaped, err, c, list>>

ReadUsage == pc = "usage" /\ memUsage' = usage /\ Goto("stat")

\* Mutant: a later line of the same name wins.
InsertOverwrites(name, val) ==
  [x \in DOMAIN map \union {name} |-> IF x = name THEN val ELSE map[x]]

\* map.insert leaves a name alone that is there already.
Insert(name, val) ==
  [x \in DOMAIN map \union {name} |-> IF x \in DOMAIN map THEN map[x] ELSE val]

\* The condition of the loop of ReadGroupPropertyMap.  A file that cannot be
\* opened has no lines, and the kernel writes a value in every line.  What the
\* iteration that meets the end stores has no name, so nobody asks for it.
MoreLines == line < Len(stat) /\ (line > 0 => stat[line].good)

\* A value that is no number is stored as 0.
ReadLine ==
  /\ pc = "stat" /\ MoreLines
  /\ LET l == stat[line + 1]
     IN  map' = Insert(l.name, IF l.good THEN l.val ELSE 0)
  /\ line' = line + 1
  /\ UNCHANGED <<fileVars, taskVars, dirs, doomed, reaped, err, pc, c, list, memUsage>>

\* map[name] inserts 0 for a name that is not there.
Cache == IF "cache" \in DOMAIN map THEN map["cache"] ELSE 0

ReadCache ==
  /\ pc = "stat" /\ ~ MoreLines
  /\ memUsage' = memUsage - Cache
  /\ Goto("cpu")

ReadCpuUsage == pc = "cpu" /\ Goto("list") /\ UNCHANGED memUsage

\* ReadInt64 has the fail bit on: a file it cannot read is an exception, and
\* cleanup is never reached.
ReadThrows ==
  /\ pc \in {"usage", "stat", "cpu"}
  /\ Goto("readThrew")
  /\ UNCHANGED memUsage

\* Mutant: stop() is left out.
StoppedNone == {}

\* Mutant: the signal goes to a process that was waited for.
StoppedStale == {Root}

\* Whom the kill of stop() reaches; if it fails, that is ignored.
Stopped == {Root} \intersect alive

Stop ==
  /\ pc = "stop"
  /\ doomed' = doomed \union Stopped
  /\ pc' = "list"
  /\ UNCHANGED <<fileVars, loopVars, taskVars, dirs, reaped, err, c, list, memUsage>>

\* EnsureGroup and the reading of the tasks file: one that cannot be opened is
\* read as an empty list.
ListTasks ==
  /\ pc = "list"
  /\ IF Dir(c) \in dirs THEN list' \in {alive, {}} /\ pc' = "kill"
                        ELSE list' = list /\ pc' = "removeThrew"
  /\ UNCHANGED <<fileVars, loopVars, taskVars, dirs, doomed, reaped, err, c, memUsage>>

\* kill reaches a task that lives, and one that was not waited for.
KillNext(p) ==
  /\ pc = "kill" /\ p \in list
  /\ list' = list \ {p}
  /\ doomed' = doomed \union ({p} \intersect alive)
  /\ UNCHANGED <<fileVars, loopVars, taskVars, dirs, reaped, err, pc, c, memUsage>>

\* The task is gone: ENSURE throws.
KillThrows(p) ==
  /\ pc = "kill" /\ p \in list \ alive
  /\ p # Root \/ reaped
  /\ pc' = "removeThrew"
  /\ UNCHANGED <<fileVars, loopVars, taskVars, dirs, doomed, reaped, err, c, list, memUsage>>

\* Mutant: removeCgroup forgets the last controller.
ContinueWithoutPids ==
  IF c < 2 THEN c' = c + 1 /\ pc' = "list"
           ELSE c' = c /\ pc' = "done"

Continue ==
  IF c < 3 THEN c' = c + 1 /\ pc' = "list"
           ELSE c' = c /\ pc' = "done"

\* The result of rmdir is not looked at: EBUSY leaves the directory.
Rmdir ==
  /\ pc = "kill" /\ list = {}
  /\ dirs' = IF alive = {} THEN dirs \ {Dir(c)} ELSE dirs
  /\ Continue
  /\ UNCHANGED <<fileVars, loopVars, taskVars, doomed, reaped, err, list, memUsage>>

Callback ==
  \/ ReadUsage \/ ReadLine \/ ReadCache \/ ReadCpuUsage \/ Stop \/ ListTasks \/ Rmdir
  \/ \E p \in Tasks : KillNext(p)

Next ==
  \/ WaitReturns \/ WaitThrows \/ Callback \/ ReadThrows
  \/ \E p \in Tasks : Fork(p) \/ Exit(p) \/ KillThrows(p)

\* The main thread runs the callback to its end; the kernel delivers signals.
Fairness ==
  /\ WF_vars(Callback)
  /\ \A p \in Tasks : WF_vars(KillDelivered(p))

Spec == Init /\ [][Next]_vars /\ Fairness

-----------------------------------------------------------------------------
(***************************************************************************)
(* Properties.                                                             *)
(***************************************************************************)

\* The variables stay in their ranges.
TypeOK ==
  /\ mounts \in MountTables /\ stat \in StatFiles /\ usage \in Usages
  /\ dirs \subseteq {Dir(k) : k \in 1..3}
  /\ alive \subseteq Tasks /\ unborn \subseteq Tasks /\ alive \intersect unborn = {}
  /\ doomed \subseteq alive
  /\ reaped \in BOOLEAN /\ err \in BOOLEAN
  /\ pc \in {"wait", "usage", "stat", "cpu", "stop", "list", "kill"} \union Final
  /\ c \in 1..3
  /\ list \subseteq Tasks
  /\ line \in 0..Len(stat) /\ \A name \in DOMAIN map : map[name] \in Int
  /\ memUsage \in Int

DistinctDirs == \A j, k \in 1..3 : Dir(j) = Dir(k) => j = k

\* What cleanup does after a process that was waited for: it signals no pid read
\* from a file, and it leaves no directory behind and does not throw exactly when
\* the controllers are mounted apart; of controllers that share a directory the
\* second finds it gone, and EnsureGroup throws.  It rests on the PID namespace,
\* since KillGroupMembers is no barrier to a task that forks (cgroup.cc:106-114,
\* 195-209, sandboxProcess.ts:99-115, sandbox.cc:302).
RemovalAsAssumed ==
  reaped =>
    /\ list = {}
    /\ pc = "done" => DistinctDirs /\ dirs = {}
    /\ pc = "removeThrew" => \E k \in 1..(c - 1) : Dir(k) = Dir(c)

\* Once the callback is past stop(), or waitpid has returned, no task is at
\* large: the first task is about to be killed or gone, and when it is gone
\* all that are left are about to be killed.  No list that KillGroupMembers reads
\* is needed for it (sandboxProcess.ts:55-60, 107-115, sandbox.cc:302).
NobodyAtLarge ==
  pc \in {"usage", "stat", "cpu", "list", "kill"} \union Final =>
    \/ Root \in doomed
    \/ Root \notin alive /\ alive \subseteq doomed

\* When WaitForProcess failed every task dies, however the tasks fork while
\* they are listed and killed, and also when KillGroupMembers gives up at a
\* task that is gone (sandboxProcess.ts:55-60, cgroup.cc:195-202).
NothingSurvives == err ~> alive = {}

\* The memory reported is the peak less the cache, or the peak alone when
\* memory.stat cannot be read up to its first line of that name
\* (sandboxProcess.ts:64-66, addon.cc:25-46, cgroup.cc:177-193).
MemoryMeasured ==
  pc \in {"cpu", "list", "kill", "removeThrew", "done"} /\ ~ err =>
    LET hits  == {x \in 1..Len(stat) : stat[x].name = "cache"
                                       /\ \A y \in 1..x : stat[y].good}
        first == {x \in hits : \A y \in 1..(x - 1) : stat[y].name # "cache"}
    IN  /\ \A x \in first : memUsage = usage - stat[x].val
        /\ first = {} => memUsage = usage

=============================================================================
