------------------------------ MODULE TaskQueue ------------------------------
(***************************************************************************)
(* The callers of the sandbox: the SandboxTaskQueue that the set-up guide  *)
(* lists (docs/simple_sandbox_setup.md:106-242, 469-472), and as its tasks *)
(* the bodies of compile and run, in the guide and in                      *)
(* judger/test/sandbox_tester.js.  A body makes a directory, copies files  *)
(* into it, starts a sandbox that has it mounted, waits, reads what the    *)
(* program left and removes the directory.  The body of testIcmpChecker in *)
(* judger/test/test_both.js does the same for a checker, but removes the   *)
(* directory in a finally and keeps every exception to itself.             *)
(*                                                                         *)
(* The sandboxes are those of RunningSandboxes, which SandboxRun           *)
(* implements; a task uses one of them.  JavaScript runs to the next await *)
(* without interruption, so an action is what happens between two awaits.  *)
(***************************************************************************)
EXTENDS Integers, Sequences

CONSTANTS
  Tasks,   \* the tasks that may be submitted
  Checks,  \* those with the body of testIcmpChecker
  NoTask   \* no current task

ASSUME TaskAssumption  == NoTask \notin Tasks
ASSUME CheckAssumption == Checks \subseteq Tasks

VARIABLES
  judge, program, stopping, outcome,   \* of RunningSandboxes
  queue,          \* tasks waiting
  isProcessing,
  current,        \* currentTaskId
  body,           \* of each task: "none", "waiting" for its sandbox, "returned" or "threw"
  dirs,           \* tasks whose sandboxDir exists
  promise         \* of each task: "none", "pending", "resolved", "rejected" or "cleared"

Sandbox == INSTANCE RunningSandboxes WITH Sandboxes <- Tasks

sandboxVars == <<judge, program, stopping, outcome>>
queueVars == <<queue, isProcessing, current, promise>>
bodyVars  == <<body, dirs>>
vars == <<sandboxVars, queueVars, bodyVars>>

Init ==
  /\ Sandbox!Init
  /\ queue = << >> /\ isProcessing = FALSE /\ current = NoTask
  /\ body = [t \in Tasks |-> "none"]
  /\ dirs = {}
  /\ promise = [t \in Tasks |-> "none"]

-----------------------------------------------------------------------------
\* How a body ends in which something throws: testIcmpChecker catches it.
Failed(t) == IF t \in Checks THEN "returned" ELSE "threw"

\* A body up to its await.  It may throw before its directory is there, and
\* after: when a file cannot be copied or startSandbox throws.
Run(t) ==
  \/ /\ body' = [body EXCEPT ![t] = Failed(t)]
     /\ dirs' \in {dirs, dirs \union {t}}
     /\ UNCHANGED sandboxVars
  \/ /\ Sandbox!Start(t)
     /\ body' = [body EXCEPT ![t] = "waiting"]
     /\ dirs' = dirs \union {t}

\* Mutant: the last task is taken.
TakeLast(q) == [task |-> q[Len(q)], rest |-> SubSeq(q, 1, Len(q) - 1)]

Take(q) == [task |-> Head(q), rest |-> Tail(q)]

\* processQueue(), for a queue q that is not empty, up to its await.
ProcessQueue(q) ==
  /\ isProcessing' = TRUE
  /\ queue' = Take(q).rest
  /\ current' = Take(q).task
  /\ Run(Take(q).task)

\* Mutant: a task is started as soon as it is added.
AlwaysIdle == TRUE

Idle == ~ isProcessing

AddTask(t) ==
  /\ judge = "up"
  /\ promise[t] = "none"
  /\ promise' = [promise EXCEPT ![t] = "pending"]
  /\ IF Idle THEN ProcessQueue(Append(queue, t))
             ELSE /\ queue' = Append(queue, t)
                  /\ UNCHANGED <<isProcessing, current, bodyVars, sandboxVars>>

ClearQueue ==
  /\ judge = "up" /\ queue # << >>
  /\ promise' = [t \in Tasks |-> IF \E k \in 1..Len(queue) : queue[k] = t
                                 THEN "cleared" ELSE promise[t]]
  /\ queue' = << >>
  /\ UNCHANGED <<isProcessing, current, bodyVars, sandboxVars>>

\* Mutant: every body removes its directory in a finally.
LeftBehindNothing(t) == {dirs \ {t}}

\* What a body may leave in which something throws.  The finally of
\* testIcmpChecker also runs when the wait was rejected, and its rmSync may fail.
LeftBehind(t) == IF t \in Checks THEN {dirs, dirs \ {t}} ELSE {dirs}

\* Mutant: the await is missing.
ResumeEarly(t) ==
  /\ judge = "up" /\ body[t] = "waiting"
  /\ body' = [body EXCEPT ![t] = "returned"] /\ dirs' = dirs \ {t}
  /\ UNCHANGED <<queueVars, sandboxVars>>

\* The body goes on when waitForStop settles.  After a verdict it may still
\* throw, when it copies the program or removes the directory.
Resume(t) ==
  /\ judge = "up"
  /\ body[t] = "waiting" /\ outcome[t] # "pending"
  /\ \/ /\ body' = [body EXCEPT ![t] = Failed(t)]
        /\ dirs' \in LeftBehind(t)
     \/ /\ outcome[t] # "rejected"
        /\ body' = [body EXCEPT ![t] = "returned"]
        /\ dirs' = dirs \ {t}
  /\ UNCHANGED <<queueVars, sandboxVars>>

\* Mutant: a task that threw takes the queue down with it.
NextUnlessThrew == queue # << >> /\ body[current] # "threw"

More == queue # << >>

\* Mutant: the current task is not reset.
AfterLastKept == current

AfterLast == NoTask

\* processQueue() after its await.  A promise that settled stays as it is.
Settle ==
  /\ judge = "up"
  /\ current # NoTask /\ body[current] \in {"returned", "threw"}
  /\ promise' = [promise EXCEPT ![current] =
                   IF @ # "pending" THEN @
                   ELSE IF body[current] = "returned" THEN "resolved" ELSE "rejected"]
  /\ IF More THEN ProcessQueue(queue)
             ELSE /\ isProcessing' = FALSE /\ current' = AfterLast
                  /\ UNCHANGED <<queue, bodyVars, sandboxVars>>

\* The timer stops a program, it ends, and waitForStop settles.
SandboxStep(t) ==
  /\ Sandbox!Stop(t) \/ Sandbox!End(t) \/ Sandbox!Judge(t) \/ Sandbox!Reject(t)
  /\ UNCHANGED <<queueVars, bodyVars>>

Down == Sandbox!Down /\ UNCHANGED <<queueVars, bodyVars>>

Next ==
  \/ ClearQueue \/ Settle \/ Down
  \/ \E t \in Tasks : AddTask(t) \/ Resume(t) \/ SandboxStep(t)

\* Every body sets a time limit, so its sandbox settles (LimitedSettles of
\* SandboxRun); the event loop runs what follows an await.
Fairness ==
  /\ WF_vars(Settle)
  /\ \A t \in Tasks : /\ WF_vars(Resume(t))
                      /\ WF_vars(SandboxStep(t) /\ outcome'[t] # outcome[t])

Spec == Init /\ [][Next]_vars /\ Fairness

-----------------------------------------------------------------------------
(***************************************************************************)
(* Properties.                                                             *)
(***************************************************************************)

\* The variables stay in their ranges.
TypeOK ==
  /\ judge \in {"up", "down"}
  /\ program \in [Tasks -> {"none", "running", "ended"}]
  /\ stopping \subseteq Tasks
  /\ queue \in Seq(Tasks)
  /\ isProcessing \in BOOLEAN
  /\ current \in Tasks \union {NoTask}
  /\ isProcessing <=> current # NoTask
  /\ body \in [Tasks -> {"none", "waiting", "returned", "threw"}]
  /\ dirs \subseteq Tasks
  /\ promise \in [Tasks -> {"none", "pending", "resolved", "rejected", "cleared"}]

Running == {t \in Tasks : program[t] = "running"}

\* Of two programs that run at a time one is being stopped, however tasks are
\* added, throw and are cleared: the queue "makes sure that tasks are handled
\* in order" (docs/simple_sandbox_setup.md:104, 161-193).
OneProgram == \A t, u \in Running : t = u \/ t \in stopping \/ u \in stopping

\* The directory that compile or run mounted is there as long as the program
\* runs, also after waitForStop was rejected while it still ran
\* (sandbox_tester.js:40-112); testIcmpChecker takes it away from a program only
\* when its wait was rejected, and the program is being killed by then
\* (test_both.js:244-246).  What compile and run leave behind for good belongs
\* to a task that threw.
DirsOutlivePrograms ==
  /\ \A t \in Running \ dirs : t \in Checks \cap stopping /\ outcome[t] = "rejected"
  /\ \A t \in dirs \ Checks : body[t] \in {"waiting", "threw"}

\* A task that has not settled is the current one or waits its turn, and somebody
\* is there to take it, however tasks throw and the queue is cleared: an exception
\* that got past the catch, or a return before the last task, would strand it
\* (docs/simple_sandbox_setup.md:161-193, 231-239).
NobodyForgotten ==
  \A t \in Tasks : promise[t] = "pending" =>
    /\ isProcessing
    /\ t = current \/ \E k \in 1..Len(queue) : queue[k] = t

\* A caller is told that a task is done only when its program has ended, was
\* judged, and its directory is gone, unless its body keeps every exception to
\* itself; that it failed only when it threw; and that it was cleared only when
\* it never starts, then or later: the verdict travels through the sandbox, the
\* body and the queue's promise, with other tasks moving in between
\* (docs/simple_sandbox_setup.md:174-193, sandbox_tester.js:40-112,
\* test_both.js:242-254).
ReportedTruly ==
  \A t \in Tasks :
    /\ promise[t] = "resolved" /\ t \notin Checks =>
         /\ program[t] = "ended" /\ outcome[t] \notin {"pending", "rejected"}
         /\ t \notin dirs
    /\ promise[t] = "rejected" => body[t] = "threw"
    /\ promise[t] = "cleared" => body[t] = "none" /\ program[t] = "none"

\* No task is overtaken by one that was added later
\* (docs/simple_sandbox_setup.md:140-146, 169).
InOrder ==
  [][\A j, k \in 1..Len(queue) :
       j < k /\ body'[queue[k]] # "none" => body'[queue[j]] # "none"]_vars

\* Every task that was added settles while the judge is up, also when tasks
\* before it throw (docs/simple_sandbox_setup.md:174-193).
TasksSettle ==
  \A t \in Tasks : promise[t] = "pending" ~> promise[t] # "pending" \/ judge = "down"

=============================================================================
