--------------------------- MODULE TaskQueue_proof ---------------------------
(***************************************************************************)
(* The safety properties of TaskQueue for any set of tasks.  The one that  *)
(* matters is OneProgram: a program that runs and is not being stopped     *)
(* belongs to a sandbox that has not settled, so its body waits, and only  *)
(* the current task waits.                                                 *)
(***************************************************************************)
EXTENDS TaskQueue, TLAPS

Outcomes == {"pending", "rejected", "OK", "TimeLimitExceeded", "MemoryLimitExceeded",
             "RuntimeError", "Cancelled"}

\* Who waits for the sandbox, and what is known of the program by then.
BodyInv ==
  /\ \A t \in Tasks : body[t] = "waiting" => t = current
  /\ \A t \in Tasks : body[t] = "none" => program[t] = "none"
  /\ \A t \in Tasks : program[t] # "none" /\ outcome[t] = "pending" => body[t] = "waiting"
  /\ \A t \in Tasks : program[t] = "none" => outcome[t] = "pending"
  /\ \A t \in Tasks : outcome[t] \notin {"pending", "rejected"} => program[t] = "ended"
  /\ \A t \in Tasks : program[t] = "running" /\ t \notin stopping => outcome[t] = "pending"
  /\ DirsOutlivePrograms

\* A task that was started has a promise that was not cleared.
PromiseInv == \A t \in Tasks : body[t] # "none" => promise[t] \notin {"none", "cleared"}

\* The queue holds tasks that were added and not started, each once.
QueueInv ==
  /\ \A k \in 1..Len(queue) :
       promise[queue[k]] = "pending" /\ body[queue[k]] = "none" /\ queue[k] # current
  /\ \A j, k \in 1..Len(queue) : queue[j] = queue[k] => j = k
  /\ ~ isProcessing => queue = << >>
  /\ current # NoTask => body[current] # "none"

IInv ==
  /\ TypeOK
  /\ outcome \in [Tasks -> Outcomes]
  /\ BodyInv
  /\ PromiseInv
  /\ QueueInv

LEMMA InitInv == Init => IInv
<1> SUFFICES ASSUME Init PROVE IInv
  OBVIOUS
<1> USE DEF Init, Sandbox!Init
<1>1. TypeOK /\ outcome \in [Tasks -> Outcomes]
  <2>1. queue \in Seq(Tasks)
    OBVIOUS
  <2>2. outcome \in [Tasks -> Outcomes]
    BY DEF Outcomes
  <2>3. /\ judge \in {"up", "down"}
        /\ program \in [Tasks -> {"none", "running", "ended"}]
        /\ stopping \subseteq Tasks
        /\ isProcessing \in BOOLEAN /\ current \in Tasks \union {NoTask}
        /\ isProcessing <=> current # NoTask
    OBVIOUS
  <2>4. /\ body \in [Tasks -> {"none", "waiting", "returned", "threw"}]
        /\ dirs \subseteq Tasks
        /\ promise \in [Tasks -> {"none", "pending", "resolved", "rejected", "cleared"}]
    OBVIOUS
  <2>5. QED
    BY <2>1, <2>2, <2>3, <2>4 DEF TypeOK
<1>2. BodyInv
  BY DEF BodyInv, DirsOutlivePrograms, Running
<1>3. PromiseInv /\ QueueInv
  BY TaskAssumption DEF PromiseInv, QueueInv
<1>4. QED
  BY <1>1, <1>2, <1>3 DEF IInv

\* A body that runs up to its await when no other one waits.
LEMMA RunStep ==
  ASSUME IInv, NEW t \in Tasks, Run(t), current' = t, body[t] = "none",
         \A u \in Tasks : body[u] # "waiting"
  PROVE  /\ judge' = judge /\ stopping' = stopping /\ outcome' = outcome
         /\ program' \in [Tasks -> {"none", "running", "ended"}]
         /\ body' \in [Tasks -> {"none", "waiting", "returned", "threw"}]
         /\ dirs' \subseteq Tasks
         /\ body'[t] # "none" /\ \A u \in Tasks \ {t} : body'[u] = body[u]
         /\ BodyInv'
<1> USE DEF IInv, TypeOK
<1>1. /\ judge' = judge /\ stopping' = stopping /\ outcome' = outcome
      /\ \A u \in Tasks \ {t} : body'[u] = body[u] /\ program'[u] = program[u]
                                /\ (u \in dirs' <=> u \in dirs)
      /\ dirs \subseteq dirs' /\ dirs' \subseteq Tasks
      /\ program' \in [Tasks -> {"none", "running", "ended"}]
      /\ body' \in [Tasks -> {"none", "waiting", "returned", "threw"}]
  BY DEF Run, Failed, Sandbox!Start, sandboxVars
<1>2. program[t] = "none" /\ outcome[t] = "pending"
  BY DEF BodyInv
<1>3. \/ /\ body'[t] \in {"threw", "returned"} /\ program'[t] = "none"
         /\ t \notin Checks => body'[t] = "threw"
      \/ body'[t] = "waiting" /\ program'[t] = "running" /\ t \in dirs'
  BY <1>2 DEF Run, Failed, Sandbox!Start, sandboxVars
<1>4. DirsOutlivePrograms'
  BY <1>1, <1>2, <1>3 DEF BodyInv, DirsOutlivePrograms, Running
<1>5. \A u \in Tasks : body'[u] = "waiting" => u = current'
  BY <1>1, <1>3
<1>6. BodyInv'
  <2>1. ASSUME NEW u \in Tasks \ {t}
        PROVE  body'[u] = body[u] /\ program'[u] = program[u]
    BY <1>1
  <2>2. \A u \in Tasks : body'[u] = "none" => program'[u] = "none"
    BY <2>1, <1>3 DEF BodyInv
  <2>3. \A u \in Tasks : program'[u] # "none" /\ outcome'[u] = "pending" => body'[u] = "waiting"
    BY <1>1, <2>1, <1>3 DEF BodyInv
  <2>4. \A u \in Tasks : program'[u] = "none" => outcome'[u] = "pending"
    BY <1>1, <2>1, <1>2, <1>3 DEF BodyInv
  <2>5. \A u \in Tasks : outcome'[u] \notin {"pending", "rejected"} => program'[u] = "ended"
    BY <1>1, <2>1, <1>2, <1>3 DEF BodyInv
  <2>6. \A u \in Tasks : program'[u] = "running" /\ u \notin stopping' => outcome'[u] = "pending"
    BY <1>1, <2>1, <1>2, <1>3 DEF BodyInv
  <2>7. QED
    BY <1>4, <1>5, <2>2, <2>3, <2>4, <2>5, <2>6 DEF BodyInv
<1>7. QED
  BY <1>1, <1>3, <1>6

\* A task is added.
LEMMA AddStep ==
  ASSUME IInv, NEW t \in Tasks, AddTask(t)
  PROVE  IInv'
<1> USE DEF IInv
<1>1. /\ promise[t] = "none" /\ body[t] = "none"
      /\ promise' = [promise EXCEPT ![t] = "pending"]
      /\ promise'[t] = "pending" /\ \A u \in Tasks \ {t} : promise'[u] = promise[u]
      /\ promise' \in [Tasks -> {"none", "pending", "resolved", "rejected", "cleared"}]
  BY DEF AddTask, PromiseInv, TypeOK
<1>2. CASE Idle
  <2>1. /\ queue = << >> /\ current = NoTask
        /\ \A u \in Tasks : body[u] # "waiting"
    BY <1>2, TaskAssumption DEF Idle, QueueInv, TypeOK, BodyInv
  <2>2. ProcessQueue(<<t>>)
    <3>1. Append(queue, t) = <<t>>
      BY <2>1
    <3>2. QED
      BY <1>2, <3>1 DEF AddTask
  <2>3. isProcessing' = TRUE /\ queue' = << >> /\ current' = t /\ Run(t)
    <3>1. Head(<<t>>) = t /\ Tail(<<t>>) = << >>
      OBVIOUS
    <3>2. QED
      BY <2>2, <3>1 DEF ProcessQueue, Take
  <2>4. /\ judge' = judge /\ stopping' = stopping /\ outcome' = outcome
        /\ program' \in [Tasks -> {"none", "running", "ended"}]
        /\ body' \in [Tasks -> {"none", "waiting", "returned", "threw"}]
        /\ dirs' \subseteq Tasks
        /\ body'[t] # "none" /\ \A u \in Tasks \ {t} : body'[u] = body[u]
        /\ BodyInv'
    BY <1>1, <2>1, <2>3, RunStep
  <2>5. TypeOK'
    <3>1. queue' \in Seq(Tasks)
      BY <2>3
    <3>2. t # NoTask /\ judge \in {"up", "down"} /\ stopping \subseteq Tasks
      BY TaskAssumption DEF TypeOK
    <3>3. QED
      BY <1>1, <2>3, <2>4, <3>1, <3>2 DEF TypeOK
  <2>6. PromiseInv'
    BY <1>1, <2>4 DEF PromiseInv
  <2>7. QueueInv'
    BY <2>3, <2>4 DEF QueueInv
  <2>8. QED
    BY <2>4, <2>5, <2>6, <2>7
<1>3. CASE ~ Idle
  <2>1. /\ queue' = Append(queue, t)
        /\ UNCHANGED <<isProcessing, current, bodyVars, sandboxVars>>
    BY <1>3 DEF AddTask
  <2>2. /\ queue' \in Seq(Tasks) /\ Len(queue') = Len(queue) + 1
        /\ \A k \in 1..Len(queue) : queue'[k] = queue[k] /\ queue[k] \in Tasks
        /\ queue'[Len(queue) + 1] = t /\ Len(queue) \in Nat
    BY <2>1 DEF TypeOK
  <2>3. TypeOK' /\ outcome' \in [Tasks -> Outcomes]
    BY <1>1, <2>1, <2>2 DEF TypeOK, bodyVars, sandboxVars
  <2>4. BodyInv'
    BY <2>1 DEF BodyInv, DirsOutlivePrograms, Running, bodyVars, sandboxVars
  <2>5. PromiseInv'
    BY <1>1, <2>1 DEF PromiseInv, bodyVars
  <2>6. QueueInv'
    <3>1. \A k \in 1..Len(queue) : queue[k] # t
      BY <1>1 DEF QueueInv
    <3>2. current # t
      BY <1>1, TaskAssumption DEF QueueInv
    <3>3. \A k \in 1..Len(queue') :
            promise'[queue'[k]] = "pending" /\ body[queue'[k]] = "none" /\ queue'[k] # current
      BY <1>1, <2>2, <3>1, <3>2 DEF QueueInv
    <3>4. \A j, k \in 1..Len(queue') : queue'[j] = queue'[k] => j = k
      BY <2>2, <3>1 DEF QueueInv
    <3>5. isProcessing'
      BY <1>3, <2>1 DEF Idle, TypeOK
    <3>6. QED
      BY <2>1, <3>3, <3>4, <3>5 DEF QueueInv, bodyVars
  <2>7. QED
    BY <2>3, <2>4, <2>5, <2>6
<1>4. QED
  BY <1>2, <1>3

\* The queue is cleared.
LEMMA ClearStep ==
  ASSUME IInv, ClearQueue
  PROVE  IInv'
<1> USE DEF IInv
<1>1. /\ queue' = << >>
      /\ UNCHANGED <<isProcessing, current, bodyVars, sandboxVars>>
      /\ \A t \in Tasks : promise'[t] # promise[t] => \E k \in 1..Len(queue) : queue[k] = t
  BY DEF ClearQueue, TypeOK
<1>2. promise' \in [Tasks -> {"none", "pending", "resolved", "rejected", "cleared"}]
  BY DEF ClearQueue, TypeOK
<1>3. TypeOK' /\ outcome' \in [Tasks -> Outcomes]
  <2>1. queue' \in Seq(Tasks)
    BY <1>1
  <2>2. QED
    BY <1>1, <1>2, <2>1 DEF TypeOK, bodyVars, sandboxVars
<1>4. BodyInv'
  BY <1>1 DEF BodyInv, DirsOutlivePrograms, Running, bodyVars, sandboxVars
<1>5. PromiseInv'
  BY <1>1 DEF PromiseInv, QueueInv, bodyVars
<1>6. QueueInv'
  BY <1>1 DEF QueueInv, bodyVars
<1>7. QED
  BY <1>3, <1>4, <1>5, <1>6

\* A body goes on after its await.
LEMMA ResumeStep ==
  ASSUME IInv, NEW t \in Tasks, Resume(t)
  PROVE  IInv'
<1> USE DEF IInv
<1>1. /\ UNCHANGED <<queueVars, sandboxVars>>
      /\ body' \in [Tasks -> {"none", "waiting", "returned", "threw"}]
      /\ body[t] = "waiting" /\ body'[t] \in {"returned", "threw"}
      /\ \A u \in Tasks \ {t} : body'[u] = body[u] /\ (u \in dirs' <=> u \in dirs)
      /\ dirs' \subseteq Tasks
      /\ outcome[t] # "pending"
  BY DEF Resume, Failed, LeftBehind, TypeOK
<1>2. \/ t \notin Checks /\ body'[t] = "threw" /\ dirs' = dirs
      \/ t \in Checks
      \/ body'[t] = "returned" /\ t \notin dirs' /\ outcome[t] # "rejected"
  BY DEF Resume, Failed, LeftBehind, TypeOK
<1>3. TypeOK' /\ outcome' \in [Tasks -> Outcomes]
  BY <1>1 DEF TypeOK, queueVars, sandboxVars
<1>4. BodyInv'
  <2>1. DirsOutlivePrograms'
    BY <1>1, <1>2 DEF BodyInv, DirsOutlivePrograms, Running, sandboxVars
  <2>2. QED
    BY <1>1, <2>1 DEF BodyInv, queueVars, sandboxVars
<1>5. PromiseInv'
  BY <1>1 DEF PromiseInv, queueVars
<1>6. QueueInv'
  <2>1. \A k \in 1..Len(queue) : queue[k] # t
    BY <1>1 DEF QueueInv
  <2>2. \A k \in 1..Len(queue) : queue[k] \in Tasks
    BY DEF TypeOK
  <2>3. \A k \in 1..Len(queue) : body'[queue[k]] = body[queue[k]]
    BY <1>1, <2>1, <2>2
  <2>4. current # NoTask => body'[current] # "none"
    BY <1>1 DEF QueueInv, TypeOK
  <2>5. QED
    BY <1>1, <2>3, <2>4 DEF QueueInv, queueVars
<1>7. QED
  BY <1>3, <1>4, <1>5, <1>6

\* The sandboxes move by themselves, or the judge goes down.
LEMMA SandboxMoves ==
  ASSUME IInv, Down \/ \E t \in Tasks : SandboxStep(t)
  PROVE  IInv'
<1> USE DEF IInv
<1>1. UNCHANGED <<queueVars, bodyVars>>
  BY DEF Down, SandboxStep
<1>2. PromiseInv' /\ QueueInv'
  BY <1>1 DEF PromiseInv, QueueInv, queueVars, bodyVars
<1>3. CASE Down
  BY <1>1, <1>2, <1>3
  DEF Down, Sandbox!Down, BodyInv, DirsOutlivePrograms, Running, TypeOK, queueVars, bodyVars
<1>4. ASSUME NEW t \in Tasks, SandboxStep(t)
      PROVE  TypeOK' /\ outcome' \in [Tasks -> Outcomes] /\ BodyInv'
  <2>1. CASE Sandbox!Stop(t)
    BY <1>1, <2>1
    DEF Sandbox!Stop, BodyInv, DirsOutlivePrograms, Running, TypeOK, queueVars, bodyVars
  <2>2. CASE Sandbox!End(t)
    <3>1. TypeOK' /\ outcome' \in [Tasks -> Outcomes]
      BY <1>1, <2>2 DEF Sandbox!End, TypeOK, queueVars, bodyVars
    <3>2. /\ program[t] = "running" /\ program'[t] = "ended"
          /\ \A u \in Tasks \ {t} : program'[u] = program[u]
          /\ UNCHANGED <<stopping, outcome>>
      BY <2>2 DEF Sandbox!End, TypeOK
    <3>3. QED
      BY <1>1, <3>1, <3>2
      DEF BodyInv, DirsOutlivePrograms, Running, queueVars, bodyVars
  <2>3. CASE Sandbox!Judge(t)
    <3>1. /\ program[t] = "ended" /\ outcome'[t] \in Outcomes \ {"pending"}
          /\ outcome' = [outcome EXCEPT ![t] = outcome'[t]]
          /\ UNCHANGED <<judge, program, stopping>>
      BY <2>3 DEF Sandbox!Judge, Sandbox!Verdicts, Outcomes
    <3>2. TypeOK' /\ outcome' \in [Tasks -> Outcomes]
      BY <1>1, <3>1 DEF TypeOK, queueVars, bodyVars
    <3>3. QED
      BY <1>1, <3>1, <3>2
      DEF BodyInv, DirsOutlivePrograms, Running, queueVars, bodyVars
  <2>4. CASE Sandbox!Reject(t)
    <3>1. /\ program[t] # "none" /\ outcome'[t] = "rejected"
          /\ outcome' = [outcome EXCEPT ![t] = "rejected"]
          /\ stopping \subseteq stopping' /\ stopping' \subseteq Tasks
          /\ program[t] = "running" => t \in stopping'
          /\ UNCHANGED <<judge, program>>
      BY <2>4 DEF Sandbox!Reject, TypeOK
    <3>2. TypeOK' /\ outcome' \in [Tasks -> Outcomes]
      BY <1>1, <3>1 DEF TypeOK, Outcomes, queueVars, bodyVars
    <3>3. QED
      BY <1>1, <3>1, <3>2
      DEF BodyInv, DirsOutlivePrograms, Running, queueVars, bodyVars
  <2>5. QED
    BY <1>4, <2>1, <2>2, <2>3, <2>4 DEF SandboxStep
<1>5. QED
  BY <1>2, <1>3, <1>4

\* The current task settles and the next one is started.
LEMMA SettleStep ==
  ASSUME IInv, Settle
  PROVE  IInv'
<1> USE DEF IInv
<1>1. /\ current \in Tasks /\ body[current] \in {"returned", "threw"}
      /\ \A u \in Tasks : body[u] # "waiting"
  BY DEF Settle, BodyInv, TypeOK
<1>2. /\ promise'[current] # "none"
      /\ promise[current] # "cleared" => promise'[current] # "cleared"
      /\ \A u \in Tasks \ {current} : promise'[u] = promise[u]
      /\ promise' \in [Tasks -> {"none", "pending", "resolved", "rejected", "cleared"}]
  <2>1. promise[current] # "none"
    BY <1>1 DEF PromiseInv
  <2>2. \E v \in {promise[current], "resolved", "rejected"} :
          promise' = [promise EXCEPT ![current] = v]
    BY <1>1 DEF Settle, TypeOK
  <2>3. QED
    BY <1>1, <2>1, <2>2 DEF TypeOK
<1>3. promise'[current] \notin {"none", "cleared"}
  BY <1>1, <1>2 DEF PromiseInv
<1>4. CASE More
  <2>1. /\ isProcessing' = TRUE /\ queue' = Tail(queue)
        /\ current' = Head(queue) /\ Run(Head(queue))
    BY <1>4 DEF Settle, ProcessQueue, Take
  <2>2. /\ Head(queue) = queue[1] /\ queue[1] \in Tasks /\ Len(queue) \in Nat \ {0}
        /\ queue' \in Seq(Tasks) /\ Len(queue') = Len(queue) - 1
        /\ \A k \in 1..Len(queue') : queue'[k] = queue[k + 1] /\ queue'[k] \in Tasks
    BY <1>4, <2>1 DEF More, TypeOK
  <2>3. body[queue[1]] = "none" /\ promise[queue[1]] = "pending" /\ queue[1] # current
    BY <2>2 DEF QueueInv
  <2>4. /\ judge' = judge /\ stopping' = stopping /\ outcome' = outcome
        /\ program' \in [Tasks -> {"none", "running", "ended"}]
        /\ body' \in [Tasks -> {"none", "waiting", "returned", "threw"}]
        /\ dirs' \subseteq Tasks
        /\ body'[queue[1]] # "none"
        /\ \A u \in Tasks \ {queue[1]} : body'[u] = body[u]
        /\ BodyInv'
    BY <1>1, <2>1, <2>2, <2>3, RunStep
  <2>5. TypeOK'
    BY <1>2, <2>1, <2>2, <2>4, TaskAssumption DEF TypeOK
  <2>6. PromiseInv'
    BY <1>2, <1>3, <2>2, <2>3, <2>4 DEF PromiseInv
  <2>7. QueueInv'
    <3>0. \A k \in 1..Len(queue') :
            /\ queue'[k] = queue[k + 1]
            /\ k + 1 \in 1..Len(queue) /\ 1 \in 1..Len(queue) /\ k + 1 # 1
      BY <2>2
    <3>1. \A k \in 1..Len(queue') :
            /\ queue'[k] # queue[1] /\ queue'[k] # current
            /\ promise[queue'[k]] = "pending" /\ body[queue'[k]] = "none"
      BY <3>0 DEF QueueInv
    <3>2. \A j, k \in 1..Len(queue') : queue'[j] = queue'[k] => j = k
      <4>1. \A j, k \in 1..Len(queue') : queue'[j] = queue'[k] => j + 1 = k + 1
        BY <3>0 DEF QueueInv
      <4>2. QED
        BY <2>2, <4>1
    <3>3. QED
      BY <1>2, <2>1, <2>2, <2>4, <3>1, <3>2 DEF QueueInv
  <2>8. QED
    BY <2>4, <2>5, <2>6, <2>7
<1>5. CASE ~ More
  <2>1. /\ queue = << >> /\ isProcessing' = FALSE /\ current' = NoTask
        /\ UNCHANGED <<queue, bodyVars, sandboxVars>>
    BY <1>5 DEF Settle, More, AfterLast
  <2>2. TypeOK' /\ outcome' \in [Tasks -> Outcomes]
    BY <1>2, <2>1 DEF TypeOK, bodyVars, sandboxVars
  <2>3. BodyInv'
    BY <1>1, <2>1 DEF BodyInv, DirsOutlivePrograms, Running, bodyVars, sandboxVars
  <2>4. PromiseInv'
    BY <1>2, <1>3, <2>1 DEF PromiseInv, bodyVars
  <2>5. QueueInv'
    BY <2>1 DEF QueueInv
  <2>6. QED
    BY <2>2, <2>3, <2>4, <2>5
<1>6. QED
  BY <1>4, <1>5

LEMMA StepInv == IInv /\ [Next]_vars => IInv'
<1> SUFFICES ASSUME IInv, [Next]_vars PROVE IInv'
  OBVIOUS
<1>1. CASE UNCHANGED vars
  BY <1>1
  DEF vars, queueVars, bodyVars, sandboxVars, IInv, TypeOK, BodyInv, PromiseInv, QueueInv,
      DirsOutlivePrograms, Running
<1>2. CASE Next
  BY <1>2, ClearStep, SettleStep, SandboxMoves, AddStep, ResumeStep DEF Next
<1>3. QED
  BY <1>1, <1>2

LEMMA TasksInvariant == Spec => []IInv
  BY InitInv, StepInv, PTL DEF Spec

\* The type invariant of the queue and its sandboxes.
THEOREM TasksTyped == Spec => []TypeOK
<1>1. IInv => TypeOK
  BY DEF IInv
<1>2. QED
  BY TasksInvariant, <1>1, PTL

\* Any number of tasks added, cleared and failing in any order: two programs
\* run at a time only while one of them is being stopped (processQueue).
THEOREM OneAtATime == Spec => []OneProgram
<1>1. IInv => OneProgram
  BY DEF IInv, BodyInv, OneProgram, Running
<1>2. QED
  BY TasksInvariant, <1>1, PTL

\* compile and run never remove a directory under a program that still runs, and
\* leave one only when they throw; testIcmpChecker removes one under a program
\* only after a wait that was rejected, with the program being killed.
THEOREM DirsKept == Spec => []DirsOutlivePrograms
<1>1. IInv => DirsOutlivePrograms
  BY DEF IInv, BodyInv
<1>2. QED
  BY TasksInvariant, <1>1, PTL

Overtaken ==
  \E j, k \in 1..Len(queue) : j < k /\ body'[queue[k]] # "none" /\ body'[queue[j]] = "none"

\* A step starts the first task of the queue or none of it.
LEMMA StartsFirst == ASSUME IInv, Next PROVE ~ Overtaken
<1> USE DEF IInv
<1>1. \A k \in 1..Len(queue) : queue[k] \in Tasks /\ body[queue[k]] = "none"
  BY DEF QueueInv, TypeOK
<1>2. ASSUME NEW t, \A u \in Tasks \ {t} : body'[u] = body[u],
             t = queue[1] \/ \A k \in 1..Len(queue) : queue[k] # t
      PROVE  ~ Overtaken
  <2>1. \A k \in 1..Len(queue) : body'[queue[k]] # "none" => queue[k] = queue[1]
    BY <1>1, <1>2
  <2>2. \A k \in 1..Len(queue) : body'[queue[k]] # "none" => k = 1
    <3>1. \A k \in 1..Len(queue) : 1 \in 1..Len(queue)
      BY DEF TypeOK
    <3>2. QED
      BY <2>1, <3>1 DEF QueueInv
  <2>3. QED
    BY <2>2 DEF Overtaken
<1>3. CASE UNCHANGED body
  BY <1>1, <1>3 DEF Overtaken
<1>4. ASSUME NEW t \in Tasks, AddTask(t) PROVE ~ Overtaken
  <2>1. CASE Idle
    <3>1. Len(queue) = 0
      BY <2>1 DEF Idle, QueueInv
    <3>2. QED
      BY <3>1 DEF Overtaken
  <2>2. CASE ~ Idle
    BY <1>3, <1>4, <2>2 DEF AddTask, bodyVars
  <2>3. QED
    BY <2>1, <2>2
<1>5. ASSUME NEW t \in Tasks, Resume(t) PROVE ~ Overtaken
  <2>1. \A u \in Tasks \ {t} : body'[u] = body[u]
    BY <1>5 DEF Resume, TypeOK
  <2>2. \A k \in 1..Len(queue) : queue[k] # t
    BY <1>1, <1>5 DEF Resume
  <2>3. QED
    BY <1>2, <2>1, <2>2
<1>6. CASE Settle
  <2>1. CASE More
    <3>1. Run(queue[1])
      <4>1. Run(Head(queue))
        BY <1>6, <2>1 DEF Settle, ProcessQueue, Take
      <4>2. Head(queue) = queue[1]
        BY <2>1 DEF More, TypeOK
      <4>3. QED
        BY <4>1, <4>2
    <3>2. \A u \in Tasks \ {queue[1]} : body'[u] = body[u]
      BY <3>1 DEF Run, TypeOK
    <3>3. QED
      BY <1>2, <3>2
  <2>2. CASE ~ More
    BY <1>3, <1>6, <2>2 DEF Settle, bodyVars
  <2>3. QED
    BY <2>1, <2>2
<1>7. QED
  BY <1>3, <1>4, <1>5, <1>6 DEF Next, ClearQueue, Down, SandboxStep, bodyVars

\* No task is overtaken by one that was added later, whatever the tasks do
\* (addTask, processQueue).
THEOREM Ordered == Spec => InOrder
<1>1. IInv /\ [Next]_vars =>
        [\A j, k \in 1..Len(queue) :
           j < k /\ body'[queue[k]] # "none" => body'[queue[j]] # "none"]_vars
  BY StartsFirst DEF Overtaken
<1>2. QED
  BY TasksInvariant, <1>1, PTL DEF Spec, InOrder

-----------------------------------------------------------------------------
(***************************************************************************)
(* What the queue does to the sandboxes is what RunningSandboxes lets a    *)
(* caller do: it starts none twice, and moves none by itself.              *)
(***************************************************************************)

\* A body either starts its own sandbox or leaves all of them alone.
LEMMA RunUses ==
  ASSUME NEW t \in Tasks, Run(t)
  PROVE  [Sandbox!Next]_(Sandbox!vars)
BY DEF Run, Sandbox!Next, Sandbox!vars, sandboxVars

LEMMA StepUses == TypeOK /\ [Next]_vars => [Sandbox!Next]_(Sandbox!vars)
<1> SUFFICES ASSUME TypeOK, [Next]_vars PROVE [Sandbox!Next]_(Sandbox!vars)
  OBVIOUS
<1>1. CASE UNCHANGED sandboxVars
  BY <1>1 DEF sandboxVars, Sandbox!vars
<1>2. ASSUME NEW t \in Tasks, AddTask(t) PROVE [Sandbox!Next]_(Sandbox!vars)
  <2>1. CASE Idle
    <3>1. Run(Head(Append(queue, t))) /\ Head(Append(queue, t)) \in Tasks
      BY <1>2, <2>1 DEF AddTask, ProcessQueue, Take, TypeOK
    <3>2. QED
      BY <3>1, RunUses
  <2>2. CASE ~ Idle
    BY <1>1, <1>2, <2>2 DEF AddTask
  <2>3. QED
    BY <2>1, <2>2
<1>3. CASE Settle
  <2>1. CASE More
    <3>1. Run(Head(queue)) /\ Head(queue) \in Tasks
      BY <1>3, <2>1 DEF Settle, More, ProcessQueue, Take, TypeOK
    <3>2. QED
      BY <3>1, RunUses
  <2>2. CASE ~ More
    BY <1>1, <1>3, <2>2 DEF Settle
  <2>3. QED
    BY <2>1, <2>2
<1>4. CASE Down \/ \E t \in Tasks : SandboxStep(t)
  BY <1>4 DEF Down, SandboxStep, Sandbox!Next
<1>5. QED
  BY <1>1, <1>2, <1>3, <1>4 DEF Next, ClearQueue, Resume, vars

\* Seen through the queue the sandboxes are those of RunningSandboxes, so what
\* that module promises holds of every program a task starts.
THEOREM QueueUsesSandboxes == Spec => Sandbox!SafeSpec
<1>1. Init => Sandbox!Init
  BY DEF Init
<1>2. QED
  BY TasksTyped, <1>1, StepUses, PTL DEF Spec, Sandbox!SafeSpec

\* What the bodies rely on when they read their sandbox's result and remove its
\* directory: the result does not change any more (compile, run).
THEOREM QueueKeepsPromises == Spec => []Sandbox!SettledRightly /\ Sandbox!Settling
  BY QueueUsesSandboxes, Sandbox!SettledOnce, PTL

-----------------------------------------------------------------------------
(***************************************************************************)
(* Nobody is forgotten.                                                    *)
(***************************************************************************)

Queued(t) == \E k \in 1..Len(queue) : queue[k] = t

PendingInv == \A t \in Tasks : promise[t] = "pending" => t = current \/ Queued(t)

LEMMA PendingStep == IInv /\ PendingInv /\ [Next]_vars => PendingInv'
<1> SUFFICES ASSUME IInv, PendingInv, [Next]_vars, NEW t \in Tasks, promise'[t] = "pending"
             PROVE  t = current' \/ Queued(t)'
  BY DEF PendingInv
<1> USE DEF IInv
<1>1. CASE UNCHANGED queueVars
  BY <1>1 DEF queueVars, PendingInv, Queued
<1>2. ASSUME NEW u \in Tasks, AddTask(u) PROVE t = current' \/ Queued(t)'
  <2>1. t = u \/ promise[t] = "pending"
    BY <1>2 DEF AddTask, TypeOK
  <2>2. CASE Idle
    <3>1. queue = << >> /\ current = NoTask
      BY <2>2 DEF Idle, QueueInv, TypeOK
    <3>2. t = u
      BY <2>1, <3>1, TaskAssumption DEF PendingInv, Queued
    <3>3. current' = u
      BY <1>2, <2>2, <3>1 DEF AddTask, ProcessQueue, Take
    <3>4. QED BY <3>2, <3>3
  <2>3. CASE ~ Idle
    <3>1. queue' = Append(queue, u) /\ current' = current
      BY <1>2, <2>3 DEF AddTask
    <3>2. /\ Len(queue') = Len(queue) + 1 /\ Len(queue) \in Nat
          /\ queue'[Len(queue) + 1] = u
          /\ \A k \in 1..Len(queue) : queue'[k] = queue[k]
      BY <3>1 DEF TypeOK
    <3>3. CASE t = u
      BY <3>2, <3>3 DEF Queued
    <3>4. CASE promise[t] = "pending"
      BY <3>1, <3>2, <3>4 DEF PendingInv, Queued
    <3>5. QED BY <2>1, <3>3, <3>4
  <2>4. QED BY <2>2, <2>3
<1>3. CASE ClearQueue
  <2>1. promise'[t] = IF \E k \in 1..Len(queue) : queue[k] = t THEN "cleared" ELSE promise[t]
    BY <1>3, Zenon DEF ClearQueue
  <2>2. promise[t] = "pending" /\ ~ Queued(t) /\ current' = current
    BY <1>3, <2>1 DEF ClearQueue, Queued
  <2>3. QED BY <2>2 DEF PendingInv
<1>4. CASE Settle
  <2>1. current \in Tasks /\ body[current] \in {"returned", "threw"}
    BY <1>4 DEF Settle, TypeOK
  <2>2. t # current /\ promise[t] = "pending"
    BY <1>4, <2>1 DEF Settle, TypeOK
  <2>3. PICK k \in 1..Len(queue) : queue[k] = t
    BY <2>2 DEF PendingInv, Queued
  <2>4. Len(queue) \in Nat /\ queue # << >> /\ More
    BY <2>3 DEF TypeOK, More
  <2>5. queue' = Tail(queue) /\ current' = Head(queue)
    BY <1>4, <2>4 DEF Settle, ProcessQueue, Take
  <2>6. /\ current' = queue[1] /\ Len(queue') = Len(queue) - 1
        /\ \A i \in 1..(Len(queue) - 1) : queue'[i] = queue[i + 1]
    BY <2>4, <2>5 DEF TypeOK
  <2>7. CASE k = 1
    BY <2>3, <2>6, <2>7
  <2>8. CASE k # 1
    <3>1. k - 1 \in 1..Len(queue') /\ queue'[k - 1] = queue[(k - 1) + 1]
      BY <2>3, <2>4, <2>6, <2>8
    <3>2. (k - 1) + 1 = k
      BY <2>3
    <3>3. QED BY <2>3, <3>1, <3>2 DEF Queued
  <2>9. QED BY <2>7, <2>8
<1>5. QED
  BY <1>1, <1>2, <1>3, <1>4
  DEF Next, Resume, SandboxStep, Down, vars

\* A task that has not settled is the current one or in the queue, and the queue
\* is being processed (processQueue, clearQueue).
THEOREM NoneForgotten == Spec => []NobodyForgotten
<1>1. Init => PendingInv
  BY DEF Init, PendingInv
<1>2. IInv /\ PendingInv => NobodyForgotten
  <2> SUFFICES ASSUME IInv, PendingInv, NEW t \in Tasks, promise[t] = "pending"
               PROVE  isProcessing /\ (t = current \/ Queued(t))
    BY DEF NobodyForgotten, Queued
  <2>1. t = current \/ Queued(t)
    BY DEF PendingInv
  <2>2. CASE t = current
    BY <2>2, TaskAssumption DEF IInv, TypeOK
  <2>3. CASE Queued(t)
    <3>1. queue # << >>
      BY <2>3 DEF Queued
    <3>2. QED BY <2>1, <3>1 DEF IInv, QueueInv
  <2>4. QED BY <2>1, <2>2, <2>3
<1>3. QED
  BY TasksInvariant, <1>1, <1>2, PendingStep, PTL DEF Spec

-----------------------------------------------------------------------------
(***************************************************************************)
(* What is reported is true.                                               *)
(***************************************************************************)

\* A body returns on a verdict only, and its promise says how it ended.
ReportInv ==
  \A t \in Tasks :
    /\ body[t] = "returned" /\ t \notin Checks =>
         outcome[t] \notin {"pending", "rejected"}
    /\ promise[t] = "resolved" => body[t] = "returned"
    /\ promise[t] = "rejected" => body[t] = "threw"

LEMMA ReportStep == IInv /\ ReportInv /\ [Next]_vars => ReportInv'
<1> SUFFICES ASSUME IInv, ReportInv, [Next]_vars PROVE ReportInv'
  OBVIOUS
<1> USE DEF IInv, TypeOK, ReportInv
<1>1. CASE UNCHANGED <<body, promise, outcome>>
  BY <1>1
<1>2. ASSUME NEW t \in Tasks, Run(t), body[t] = "none",
             \A u \in Tasks : promise'[u] \in {"resolved", "rejected"} => body[u] # "none",
             \A u \in Tasks : promise'[u] = "resolved" => body[u] = "returned",
             \A u \in Tasks : promise'[u] = "rejected" => body[u] = "threw"
      PROVE  ReportInv'
  <2>1. /\ outcome' = outcome
        /\ body'[t] \in {"threw", "waiting"} \/ t \in Checks
        /\ \A u \in Tasks \ {t} : body'[u] = body[u]
    BY <1>2 DEF Run, Failed, Sandbox!Start, sandboxVars
  <2>2. QED
    BY <1>2, <2>1
<1>3. ASSUME NEW t \in Tasks, AddTask(t) PROVE ReportInv'
  <2>1. /\ promise'[t] = "pending" /\ \A u \in Tasks \ {t} : promise'[u] = promise[u]
        /\ body[t] = "none"
    BY <1>3 DEF AddTask, PromiseInv
  <2>2. CASE Idle
    <3>1. queue = << >>
      BY <2>2 DEF Idle, QueueInv
    <3>2. Head(Append(queue, t)) = t
      BY <3>1
    <3>3. Run(t)
      BY <1>3, <2>2, <3>2 DEF AddTask, ProcessQueue, Take
    <3>4. QED
      BY <1>2, <2>1, <3>3
  <2>3. CASE ~ Idle
    BY <1>3, <2>1, <2>3 DEF AddTask, bodyVars, sandboxVars
  <2>4. QED
    BY <2>2, <2>3
<1>4. CASE ClearQueue
  <2>1. UNCHANGED <<bodyVars, sandboxVars>>
        /\ \A t \in Tasks : promise'[t] \in {promise[t], "cleared"}
    BY <1>4 DEF ClearQueue
  <2>2. QED
    BY <2>1 DEF bodyVars, sandboxVars
<1>5. ASSUME NEW t \in Tasks, Resume(t) PROVE ReportInv'
  <2>1. /\ body[t] = "waiting" /\ outcome[t] # "pending"
        /\ \/ t \in Checks \/ body'[t] = "threw"
           \/ body'[t] = "returned" /\ outcome[t] # "rejected"
        /\ \A u \in Tasks \ {t} : body'[u] = body[u]
        /\ UNCHANGED <<promise, outcome>>
    BY <1>5 DEF Resume, Failed, queueVars, sandboxVars
  <2>2. QED
    BY <2>1
<1>6. CASE Settle
  <2>1. /\ current \in Tasks /\ body[current] \in {"returned", "threw"}
        /\ \A u \in Tasks \ {current} : promise'[u] = promise[u]
        /\ \/ promise'[current] = promise[current]
           \/ promise'[current] = "resolved" /\ body[current] = "returned"
           \/ promise'[current] = "rejected" /\ body[current] = "threw"
    BY <1>6 DEF Settle
  <2>2. /\ \A u \in Tasks : promise'[u] = "resolved" => body[u] = "returned"
        /\ \A u \in Tasks : promise'[u] = "rejected" => body[u] = "threw"
    BY <2>1
  <2>3. CASE More
    <3>1. Head(queue) = queue[1] /\ queue[1] \in Tasks /\ 1 \in 1..Len(queue)
      BY <2>3 DEF More
    <3>2. body[queue[1]] = "none"
      BY <3>1 DEF QueueInv
    <3>3. Run(queue[1])
      BY <1>6, <2>3, <3>1 DEF Settle, ProcessQueue, Take
    <3>4. QED
      BY <1>2, <2>2, <3>1, <3>2, <3>3
  <2>4. CASE ~ More
    BY <1>6, <2>2, <2>4 DEF Settle, bodyVars, sandboxVars
  <2>5. QED
    BY <2>3, <2>4
<1>7. ASSUME NEW t \in Tasks, SandboxStep(t) PROVE ReportInv'
  <2>1. UNCHANGED <<body, promise>>
    BY <1>7 DEF SandboxStep, queueVars, bodyVars
  <2>2. \A u \in Tasks : outcome[u] \notin {"pending", "rejected"} => outcome'[u] = outcome[u]
    BY <1>7 DEF SandboxStep, Sandbox!Stop, Sandbox!End, Sandbox!Judge, Sandbox!Reject
  <2>3. QED
    BY <2>1, <2>2
<1>8. CASE Down
  BY <1>1, <1>8 DEF Down, Sandbox!Down, queueVars, bodyVars
<1>9. CASE UNCHANGED vars
  BY <1>1, <1>9 DEF vars, queueVars, bodyVars, sandboxVars
<1>10. QED
  BY <1>3, <1>4, <1>5, <1>6, <1>7, <1>8, <1>9 DEF Next

\* "Resolved" means that the program ended, was judged and left no directory,
\* for compile and run; "rejected" that the body threw; what was cleared never
\* starts (processQueue, clearQueue, compile, run, testIcmpChecker).
THEOREM TruthReported == Spec => []ReportedTruly
<1>1. Init => ReportInv
  BY DEF Init, ReportInv
<1>2. IInv /\ ReportInv => ReportedTruly
  BY DEF IInv, BodyInv, PromiseInv, DirsOutlivePrograms, ReportInv, ReportedTruly
<1>3. QED
  BY TasksInvariant, <1>1, <1>2, ReportStep, PTL DEF Spec

=============================================================================
