----------------------------- MODULE SandboxRun -----------------------------
(***************************************************************************)
(* The life of running sandboxes, from the SandboxProcess constructor to   *)
(* the settlement of waitForStop (simple-sandbox/src/sandboxProcess.ts),   *)
(* with the asynchronous worker of native/addon.cc and the libuv thread    *)
(* pool it runs on.                                                        *)
(*                                                                         *)
(* Every action of the main thread is one JavaScript callback, hence       *)
(* atomic; worker threads, the kernel and time move between them.          *)
(*                                                                         *)
(* CPU time is counted in quanta.  One unit of elapsed time is 5 quanta of *)
(* a busy core, of which a timer tick charges at least 2, that is 40%.     *)
(* Elapsed time is measured per sandbox from the start of its timer and    *)
(* saturates at MaxElapsed; a sandbox does not use CPU time beyond that.   *)
(***************************************************************************)
EXTENDS Integers, Sequences, FiniteSets, Functions

CONSTANTS
  Sandboxes,   \* the sandboxes this Node.js process may start
  PoolSize,    \* libuv worker threads (UV_THREADPOOL_SIZE, 4 by default)
  TimeLimit,   \* parameter.time of each sandbox in quanta, -1 for no limit
  MemLimited,  \* the sandboxes whose parameter.memory is not -1
  MaxElapsed   \* bound on the elapsed time a sandbox observes

ASSUME RunAssumption ==
  /\ PoolSize \in Nat \ {0}
  /\ TimeLimit \in [Sandboxes -> Nat \union {-1}]
  /\ MemLimited \subseteq Sandboxes
  /\ MaxElapsed \in Nat

VARIABLES
  node,        \* "up", "exited" by process.exit, or "crashed"
  proc,        \* what the kernel knows of each sandboxed process
  end,         \* how that process ended; "error" if exec never succeeded
  killed,      \* processes a SIGKILL has been sent to
  cpu,         \* cpuacct.usage of each sandbox
  overMem,     \* sandboxes whose memory usage exceeds their limit
  group,       \* does the sandbox's cgroup exist?
  queue,       \* WaitForProcess workers waiting for a thread
  working,     \* workers blocked in waitpid
  done,        \* finished workers whose callback is still to run
  answer,      \* what each worker reported
  elapsed,     \* time since the timer was set
  lastCheck,   \* elapsed at the last tick
  countedCpuTime, actualCpuTime, timer, timeout, cancelled, running,
  promise      \* waitPromise: "pending", "rejected" or the result's status

kernelVars == <<proc, end, cpu, overMem, elapsed>>
poolVars   == <<queue, working, done, answer>>
clockVars  == <<lastCheck, countedCpuTime, actualCpuTime>>
flagVars   == <<timer, timeout, cancelled, running>>
judgeVars  == <<node, killed, group, promise, clockVars, flagVars>>
vars == <<judgeVars, kernelVars, poolVars>>

-----------------------------------------------------------------------------
BusyUnit     == 5   \* quanta a busy core uses in a unit of elapsed time
ElapsedShare == 2   \* quanta charged for a unit of elapsed time (40%)

Limited == {s \in Sandboxes : TimeLimit[s] # -1}
Statuses == {"OK", "TimeLimitExceeded", "MemoryLimitExceeded",
             "RuntimeError", "Cancelled"}
Larger(x, y) == IF x > y THEN x ELSE y

Alive == {s \in Sandboxes : proc[s] = "alive"}

\* Mutant: the flag without the signal.
StopFlagOnly(S) ==
  /\ cancelled' = [s \in Sandboxes |-> cancelled[s] \/ s \in S]
  /\ killed' = killed

\* stop() of the sandboxes in S: the flag, then process.kill(pid, "SIGKILL"),
\* whose error is swallowed.
Stop(S) ==
  /\ cancelled' = [s \in Sandboxes |-> cancelled[s] \/ s \in S]
  /\ killed' = killed \union (S \intersect Alive)

-----------------------------------------------------------------------------
Init ==
  /\ node = "up"
  /\ proc = [s \in Sandboxes |-> "none"]
  /\ end = [s \in Sandboxes |-> "none"]
  /\ killed = {}
  /\ cpu = [s \in Sandboxes |-> 0]
  /\ overMem = {}
  /\ group = [s \in Sandboxes |-> FALSE]
  /\ queue = << >>
  /\ working = {}
  /\ done = << >>
  /\ answer = [s \in Sandboxes |-> "none"]
  /\ elapsed = [s \in Sandboxes |-> 0]
  /\ lastCheck = [s \in Sandboxes |-> 0]
  /\ countedCpuTime = [s \in Sandboxes |-> 0]
  /\ actualCpuTime = [s \in Sandboxes |-> 0]
  /\ timer = [s \in Sandboxes |-> FALSE]
  /\ timeout = [s \in Sandboxes |-> FALSE]
  /\ cancelled = [s \in Sandboxes |-> FALSE]
  /\ running = [s \in Sandboxes |-> FALSE]
  /\ promise = [s \in Sandboxes |-> "pending"]

-----------------------------------------------------------------------------
(***************************************************************************)
(* The main thread.                                                        *)
(***************************************************************************)

\* startSandbox succeeded: the constructor sets the interval and queues the
\* worker that waits for the process.
StartSandbox(s) ==
  /\ node = "up"
  /\ proc[s] = "none"
  /\ proc' = [proc EXCEPT ![s] = "alive"]
  /\ group' = [group EXCEPT ![s] = TRUE]
  /\ running' = [running EXCEPT ![s] = TRUE]
  /\ timer' = [timer EXCEPT ![s] = s \in Limited]
  /\ queue' = Append(queue, s)
  /\ UNCHANGED <<node, end, killed, cpu, overMem, working, done, answer,
                 elapsed, clockVars, timeout, cancelled, promise>>

\* Mutants: an idle program is not charged; the time already charged for is
\* charged again.
ChargeActualOnly(s) == cpu[s] - actualCpuTime[s]
ChargeSinceStart(s) ==
  Larger(cpu[s] - actualCpuTime[s], ElapsedShare * elapsed[s])

Charge(s) ==
  Larger(cpu[s] - actualCpuTime[s], ElapsedShare * (elapsed[s] - lastCheck[s]))

\* checkIfTimedOut.
Tick(s) ==
  LET counted == countedCpuTime[s] + Charge(s)
      over    == counted > TimeLimit[s]
  IN  /\ node = "up"
      /\ timer[s]
      /\ group[s]
      /\ lastCheck' = [lastCheck EXCEPT ![s] = elapsed[s]]
      /\ countedCpuTime' = [countedCpuTime EXCEPT ![s] = counted]
      /\ actualCpuTime' = [actualCpuTime EXCEPT ![s] = cpu[s]]
      /\ timeout' = [timeout EXCEPT ![s] = @ \/ over]
      /\ Stop(IF over THEN {s} ELSE {})
      /\ UNCHANGED <<node, group, promise, kernelVars, poolVars, timer, running>>

\* A cgroup file that cannot be read throws out of a timer callback, which
\* ends Node.js.
TickThrows(s) ==
  /\ node = "up"
  /\ timer[s]
  /\ node' = "crashed"
  /\ UNCHANGED <<killed, group, promise, kernelVars, poolVars, clockVars, flagVars>>

\* stop(), called by the user of the SandboxProcess at any time.
UserStop(s) ==
  /\ node = "up"
  /\ proc[s] # "none"
  /\ Stop({s})
  /\ UNCHANGED <<node, group, promise, kernelVars, poolVars, clockVars,
                 timer, timeout, running>>

\* Mutant: the interval is not cleared.
CleanupKeepsTimer(s) ==
  /\ timer' = timer
  /\ group' = [group EXCEPT ![s] = FALSE]
  /\ running' = [running EXCEPT ![s] = FALSE]

\* cleanup().  rmdir's result is not looked at: a process that is still there
\* keeps its groups, and cleanup returns all the same.
Cleanup(s) ==
  /\ timer' = [timer EXCEPT ![s] = FALSE]
  /\ \E kept \in {FALSE, proc[s] = "alive"} : group' = [group EXCEPT ![s] = kept]
  /\ running' = [running EXCEPT ![s] = FALSE]

\* removeCgroup throws: the flag "running" stays set.
CleanupThrows(s) ==
  /\ timer' = [timer EXCEPT ![s] = FALSE]
  /\ group' \in {group, [group EXCEPT ![s] = FALSE]}
  /\ running' = running

\* Mutant: the callback may run again.
DeliverAgain(s) ==
  /\ node = "up"
  /\ done # << >>
  /\ s = Head(done)
  /\ done' = done
  /\ UNCHANGED <<node, queue, working, answer, kernelVars, lastCheck,
                 countedCpuTime, timeout>>

\* The libuv loop hands the next finished worker to the main thread.
Deliver(s) ==
  /\ node = "up"
  /\ done # << >>
  /\ s = Head(done)
  /\ done' = Tail(done)
  /\ UNCHANGED <<node, queue, working, answer, kernelVars, lastCheck,
                 countedCpuTime, timeout>>

\* Mutant: a signal is looked at before the cancellation.
ClassifySignalFirst(s) ==
  IF timeout[s] \/ cpu[s] > TimeLimit[s] THEN "TimeLimitExceeded"
  ELSE IF s \in overMem THEN "MemoryLimitExceeded"
  ELSE IF answer[s] = "signaled" THEN "RuntimeError"
  ELSE IF cancelled[s] THEN "Cancelled"
  ELSE "OK"

\* Mutant: the initial status stays where a status is not looked for.
ClassifyUnknown(s) == IF cpu[s] > TimeLimit[s] THEN "TimeLimitExceeded" ELSE "Unknown"

\* The order in which the callback looks at its evidence.
Classify(s) ==
  IF timeout[s] \/ cpu[s] > TimeLimit[s] THEN "TimeLimitExceeded"
  ELSE IF cancelled[s] THEN "Cancelled"
  ELSE IF s \in overMem THEN "MemoryLimitExceeded"
  ELSE IF answer[s] = "signaled" THEN "RuntimeError"
  ELSE "OK"

CallbackResult(s) ==
  /\ Deliver(s)
  /\ answer[s] # "error"
  /\ group[s]
  /\ actualCpuTime' = [actualCpuTime EXCEPT ![s] = cpu[s]]
  /\ Cleanup(s)
  /\ promise' = [promise EXCEPT ![s] = Classify(s)]
  /\ UNCHANGED <<killed, cancelled>>

\* A cgroup file could not be read: the sandbox is never cleaned up.
CallbackReadThrows(s) ==
  /\ Deliver(s)
  /\ answer[s] # "error"
  /\ promise' = [promise EXCEPT ![s] = "rejected"]
  /\ UNCHANGED <<actualCpuTime, timer, group, running, killed, cancelled>>

CallbackCleanupThrows(s) ==
  /\ Deliver(s)
  /\ answer[s] # "error"
  /\ group[s]
  /\ actualCpuTime' = [actualCpuTime EXCEPT ![s] = cpu[s]]
  /\ CleanupThrows(s)
  /\ promise' = [promise EXCEPT ![s] = "rejected"]
  /\ UNCHANGED <<killed, cancelled>>

CallbackError(s) ==
  /\ Deliver(s)
  /\ answer[s] = "error"
  /\ Stop({s})
  /\ Cleanup(s) \/ CleanupThrows(s)
  /\ promise' = [promise EXCEPT ![s] = "rejected"]
  /\ UNCHANGED actualCpuTime

Callback(s) == \/ CallbackResult(s) \/ CallbackReadThrows(s)
               \/ CallbackCleanupThrows(s) \/ CallbackError(s)

\* The sandboxes whose stopCallback listens to the exit event: cleanup removes
\* the listener, but nothing ever adds it.
ExitListeners == {}

\* process.exit(): the listeners run, then the process is gone.
NodeExit ==
  /\ node = "up"
  /\ node' = "exited"
  /\ Stop(ExitListeners)
  /\ UNCHANGED <<group, promise, kernelVars, poolVars, clockVars, timer,
                 timeout, running>>

-----------------------------------------------------------------------------
(***************************************************************************)
(* The thread pool.                                                        *)
(***************************************************************************)

\* Mutant: the worker is taken from the queue and stays in it.
NextWorkerStays(w) == working' = working \union {w} /\ queue' = queue

NextWorker(w) == working' = working \union {w} /\ queue' = Tail(queue)

TakeWorker ==
  /\ node = "up"
  /\ queue # << >>
  /\ Cardinality(working) < PoolSize
  /\ NextWorker(Head(queue))
  /\ UNCHANGED <<judgeVars, kernelVars, done, answer>>

Finish(s, how) ==
  /\ node = "up"
  /\ s \in working
  /\ working' = working \ {s}
  /\ done' = Append(done, s)
  /\ answer' = [answer EXCEPT ![s] = how]
  /\ UNCHANGED <<judgeVars, end, cpu, overMem, elapsed, queue>>

\* waitpid returned and the pipe was read.
WaitReturns(s) ==
  /\ proc[s] = "zombie"
  /\ proc' = [proc EXCEPT ![s] = "reaped"]
  /\ Finish(s, end[s])

\* waitpid itself failed, whatever the process does.
WaitThrows(s) ==
  /\ Finish(s, "error")
  /\ UNCHANGED proc

-----------------------------------------------------------------------------
(***************************************************************************)
(* The kernel, the programs and time.                                      *)
(***************************************************************************)

Ends(s, how) ==
  /\ proc[s] = "alive"
  /\ proc' = [proc EXCEPT ![s] = "zombie"]
  /\ end' = [end EXCEPT ![s] = how]
  /\ UNCHANGED <<judgeVars, cpu, overMem, elapsed, poolVars>>

\* The program ends by itself, or never started.
ProgramEnds(s) == \E how \in {"exited", "signaled", "error"} : Ends(s, how)

KillDelivered(s) == s \in killed /\ Ends(s, "signaled")

ExceedMemory(s) ==
  /\ s \in MemLimited
  /\ proc[s] = "alive"
  /\ overMem' = overMem \union {s}
  /\ UNCHANGED <<judgeVars, proc, end, cpu, elapsed, poolVars>>

\* Time passes for the sandboxes with a timer; the busy ones use a core.
Advance ==
  /\ node = "up"
  /\ \E s \in Sandboxes : timer[s] /\ elapsed[s] < MaxElapsed
  /\ elapsed' = [s \in Sandboxes |->
                   IF timer[s] /\ elapsed[s] < MaxElapsed THEN elapsed[s] + 1
                                                          ELSE elapsed[s]]
  /\ \E busy \in SUBSET Alive :
       cpu' = [s \in Sandboxes |->
                 IF s \in busy /\ timer[s] /\ elapsed[s] < MaxElapsed
                 THEN cpu[s] + BusyUnit ELSE cpu[s]]
  /\ UNCHANGED <<judgeVars, proc, end, overMem, poolVars>>

-----------------------------------------------------------------------------
Next ==
  \/ TakeWorker \/ Advance \/ NodeExit
  \/ \E s \in Sandboxes :
       \/ StartSandbox(s) \/ Tick(s) \/ TickThrows(s) \/ UserStop(s)
       \/ Callback(s)
       \/ WaitReturns(s) \/ WaitThrows(s)
       \/ ProgramEnds(s) \/ KillDelivered(s) \/ ExceedMemory(s)

\* The event loop, its timers and the pool threads keep running while Node.js
\* is up; the kernel delivers signals; time passes.  Programs need not end,
\* users need not stop them.
Fairness ==
  /\ WF_vars(TakeWorker) /\ WF_vars(Advance)
  /\ \A s \in Sandboxes :
       /\ WF_vars(Tick(s))
       /\ WF_vars(Callback(s))
       /\ WF_vars(WaitReturns(s))
       /\ WF_vars(KillDelivered(s))

Spec == Init /\ [][Next]_vars /\ Fairness

-----------------------------------------------------------------------------
(***************************************************************************)
(* Properties.                                                             *)
(***************************************************************************)

\* The variables stay in their ranges.
TypeOK ==
  /\ node \in {"up", "exited", "crashed"}
  /\ proc \in [Sandboxes -> {"none", "alive", "zombie", "reaped"}]
  /\ end \in [Sandboxes -> {"none", "exited", "signaled", "error"}]
  /\ killed \subseteq Sandboxes
  /\ cpu \in [Sandboxes -> Nat]
  /\ overMem \subseteq Sandboxes
  /\ group \in [Sandboxes -> BOOLEAN]
  /\ queue \in Seq(Sandboxes)
  /\ working \subseteq Sandboxes
  /\ done \in Seq(Sandboxes)
  /\ answer \in [Sandboxes -> {"none", "exited", "signaled", "error"}]
  /\ elapsed \in [Sandboxes -> 0..MaxElapsed]
  /\ lastCheck \in [Sandboxes -> 0..MaxElapsed]
  /\ countedCpuTime \in [Sandboxes -> Nat]
  /\ actualCpuTime \in [Sandboxes -> Nat]
  /\ timer \in [Sandboxes -> BOOLEAN]
  /\ timeout \in [Sandboxes -> BOOLEAN]
  /\ cancelled \in [Sandboxes -> BOOLEAN]
  /\ running \in [Sandboxes -> BOOLEAN]
  /\ promise \in [Sandboxes -> {"pending", "rejected"} \union Statuses]

\* A tick never finds a cgroup the code itself has removed, which would throw
\* in getCgroupProperty (sandboxProcess.ts:37) and end Node.js: cleanup clears
\* the interval before it removes the groups, on every path.
TickFindsGroup == \A s \in Sandboxes : timer[s] => group[s]

\* The charge stays between the two measures it mixes: at least the CPU time
\* seen so far and 40% of the time since the start, and at most their sum
\* (sandboxProcess.ts:33-42).
ChargeBounds ==
  \A s \in Sandboxes :
    /\ timer[s] => countedCpuTime[s] >= actualCpuTime[s]
    /\ countedCpuTime[s] >= ElapsedShare * lastCheck[s]
    /\ countedCpuTime[s] <= actualCpuTime[s] + ElapsedShare * lastCheck[s]

\* A program that runs and that nobody is killing was not stopped, neither by a
\* user nor by the timer: no flag is set without its signal.  It is still waited for
\* and, if it is limited, still watched: its timer is on, and at the last tick it had
\* used no more than its time, nor more elapsed time than is charged as that.
\* So no path of the callback settles over a program that goes on for ever, and
\* a program that sleeps is over within its limit divided by 40% (and the time
\* to the next tick) (sandboxProcess.ts:31-50, 53-97, 104-115).
Supervised ==
  \A s \in Alive \ killed :
    /\ ~ cancelled[s] /\ ~ timeout[s]
    /\ promise[s] = "pending"
    /\ s \in Limited =>
         /\ timer[s]
         /\ actualCpuTime[s] <= TimeLimit[s]
         /\ ElapsedShare * lastCheck[s] <= TimeLimit[s]

\* A verdict on the program itself is only given to a program the judge has
\* not killed, and that stayed within its time by the kernel's count and by
\* the charge (sandboxProcess.ts:79-89).
VerdictJustified ==
  \A s \in Sandboxes :
    /\ promise[s] \in {"OK", "RuntimeError", "MemoryLimitExceeded"} =>
         /\ s \notin killed
         /\ cpu[s] <= TimeLimit[s]
         /\ countedCpuTime[s] <= TimeLimit[s]
         /\ end[s] \in {"exited", "signaled"}
    /\ promise[s] = "OK" => end[s] = "exited" /\ s \notin overMem
    /\ promise[s] = "RuntimeError" => end[s] = "signaled"

\* Every sandbox that was started and has not settled has exactly one worker:
\* queued, blocked in waitpid, or waiting for its callback (addon.cc:227-237).
OneWorkerEach ==
  /\ IsInjective(queue) /\ IsInjective(done)
  /\ Range(queue) \intersect working = {}
  /\ Range(done) \intersect (Range(queue) \union working) = {}
  /\ \A s \in Sandboxes :
       s \in Range(queue) \union working \union Range(done)
         <=> proc[s] # "none" /\ promise[s] = "pending"

\* Sandboxes without a time limit occupy every pool thread.
Starved == Cardinality(working \ Limited) = PoolSize

\* waitForStop of a time-limited sandbox settles, whatever its program does
\* or does not do, unless sandboxes without a limit keep every pool thread for
\* ever: an idle program is charged 40% of the elapsed time
\* (sandboxProcess.ts:38-41).
LimitedSettles ==
  \/ <>[]Starved
  \/ \A s \in Limited :
       proc[s] = "alive" ~> promise[s] # "pending" \/ node # "up"

\* The sandboxes as their callers see them: RunningSandboxes.
Promised == INSTANCE RunningSandboxes WITH
  judge    <- IF node = "up" THEN "up" ELSE "down",
  program  <- [s \in Sandboxes |-> CASE proc[s] = "none"  -> "none"
                                    [] proc[s] = "alive" -> "running"
                                    [] OTHER             -> "ended"],
  stopping <- {s \in Sandboxes : cancelled[s]},
  outcome  <- promise

\* The sandboxes behave as RunningSandboxes although they share a pool: a
\* promise settles once, on evidence about its own process
\* (sandboxProcess.ts:53-97), and stop() brings about the end of the process
\* it names (README.md:62).
ImplementsSandboxes == Promised!Spec

\* stop() only sends SIGKILL while the pid still denotes the sandboxed
\* process: "To terminate the sandboxed process, just use the stop()
\* function" (README.md:62).
StopTargetsProcess ==
  [][\A s \in Sandboxes : UserStop(s) => proc[s] # "reaped"]_vars

\* "When Node.js is about to exit, it will kill the sandboxed process"
\* (README.md:81).
ExitKills == node = "exited" => Alive \subseteq killed

\* A sandbox without a time limit never exceeds it: "-1 for no limit"
\* (interfaces.ts:13).
NoLimitNoTimeout ==
  \A s \in Sandboxes \ Limited : promise[s] # "TimeLimitExceeded"

\* "You can have any number of sandboxes ... synchronously"
\* (interfaces.ts:27-28): a process that ended is reported to its waiter
\* whatever the other sandboxes do.
EndedSettles ==
  \A s \in Sandboxes :
    proc[s] = "zombie" ~> promise[s] # "pending" \/ node # "up"

=============================================================================
