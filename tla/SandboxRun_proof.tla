--------------------------- MODULE SandboxRun_proof ---------------------------
(***************************************************************************)
(* Proofs about SandboxRun for every set of sandboxes, every time limit    *)
(* and every size of the thread pool.                                      *)
(*                                                                         *)
(* RInv strengthens the safety properties with what the callbacks assume   *)
(* silently: a worker in the pool belongs to a sandbox that was started,   *)
(* the kernel's counter never runs backwards, and the two flags are set    *)
(* before the signal they explain.                                         *)
(***************************************************************************)
EXTENDS SandboxRun, SequenceTheorems, TLAPS

-----------------------------------------------------------------------------
(***************************************************************************)
(* The inductive invariant.                                                *)
(***************************************************************************)

\* Nothing has happened to a sandbox that was not started.
NewInv ==
  \A s \in Sandboxes :
    proc[s] = "none" =>
      /\ ~ timer[s] /\ ~ timeout[s] /\ ~ cancelled[s] /\ promise[s] = "pending"
      /\ countedCpuTime[s] = 0 /\ actualCpuTime[s] = 0

\* Workers wait for processes that exist.
WorkerInv ==
  \A s \in Range(queue) \union working \union Range(done) : proc[s] # "none"

\* A worker that finished reports an error or the end of a reaped process.
AnswerInv ==
  /\ \A s \in Sandboxes : proc[s] \in {"zombie", "reaped"} => end[s] # "none"
  /\ \A s \in Range(done) :
       \/ answer[s] = "error"
       \/ proc[s] = "reaped" /\ answer[s] = end[s]

\* The tick compares two readings of counters that only grow.
CounterInv ==
  \A s \in Sandboxes : actualCpuTime[s] <= cpu[s] /\ lastCheck[s] <= elapsed[s]

\* A signal is explained by a flag, a charge above the limit by the time-out.
FlagInv ==
  \A s \in Sandboxes :
    /\ s \in killed => cancelled[s]
    /\ TimeLimit[s] # -1 /\ ~ timeout[s] => countedCpuTime[s] <= TimeLimit[s]
    /\ timer[s] => TimeLimit[s] # -1

\* A settled verdict is about a process that is gone and a timer that is off.
SettledInv ==
  \A s \in Sandboxes :
    promise[s] \in Statuses => proc[s] = "reaped" /\ ~ timer[s]

\* A sandbox that the timer or a user stopped is dead or about to be, and a
\* time-out is only flagged for a charge above the limit
\* (sandboxProcess.ts:44-48, 117-122).
StopKills ==
  \A s \in Sandboxes :
    /\ timeout[s] => cancelled[s] /\ countedCpuTime[s] > TimeLimit[s]
    /\ cancelled[s] /\ proc[s] = "alive" => s \in killed

RInv ==
  /\ TypeOK
  /\ NewInv
  /\ WorkerInv
  /\ AnswerInv
  /\ CounterInv
  /\ FlagInv
  /\ SettledInv
  /\ TickFindsGroup
  /\ ChargeBounds
  /\ StopKills
  /\ VerdictJustified
  /\ OneWorkerEach

-----------------------------------------------------------------------------
(***************************************************************************)
(* Queues.                                                                 *)
(***************************************************************************)

LEMMA HeadTail ==
  ASSUME NEW q \in Seq(Sandboxes), q # << >>
  PROVE  /\ Head(q) \in Range(q) /\ Head(q) \in Sandboxes
         /\ Tail(q) \in Seq(Sandboxes)
         /\ Range(Tail(q)) \subseteq Range(q)
<1>1. /\ Head(q) = q[1] /\ 1 \in 1..Len(q) /\ Tail(q) \in Seq(Sandboxes)
      /\ \A i \in 1..Len(Tail(q)) : i + 1 \in 1..Len(q) /\ Tail(q)[i] = q[i + 1]
  OBVIOUS
<1>2. q[1] \in Sandboxes
  BY <1>1
<1>3. QED
  BY <1>1, <1>2 DEF Range

LEMMA Appended ==
  ASSUME NEW q \in Seq(Sandboxes), NEW s \in Sandboxes
  PROVE  /\ Append(q, s) \in Seq(Sandboxes)
         /\ Range(Append(q, s)) \subseteq Range(q) \union {s}
<1>1. /\ Append(q, s) \in Seq(Sandboxes)
      /\ \A i \in 1..Len(Append(q, s)) :
           (i \in 1..Len(q) /\ Append(q, s)[i] = q[i]) \/ Append(q, s)[i] = s
  OBVIOUS
<1>2. QED
  BY <1>1 DEF Range

LEMMA TailUnique ==
  ASSUME NEW q \in Seq(Sandboxes), q # << >>, IsInjective(q)
  PROVE  /\ IsInjective(Tail(q)) /\ Head(q) \in Range(q)
         /\ Range(Tail(q)) = Range(q) \ {Head(q)}
<1>1. /\ Head(q) = q[1] /\ DOMAIN q = 1..Len(q) /\ Len(q) \in Nat \ {0}
      /\ DOMAIN Tail(q) = 1..(Len(q) - 1)
      /\ \A i \in 1..(Len(q) - 1) : Tail(q)[i] = q[i + 1]
  OBVIOUS
<1>2. \A i, j \in 1..Len(q) : q[i] = q[j] => i = j
  BY <1>1 DEF IsInjective
<1>3. IsInjective(Tail(q))
  <2>1. ASSUME NEW i \in 1..(Len(q) - 1), NEW j \in 1..(Len(q) - 1),
               Tail(q)[i] = Tail(q)[j]
        PROVE  i = j
    <3>1. i + 1 \in 1..Len(q) /\ j + 1 \in 1..Len(q) /\ q[i + 1] = q[j + 1]
      BY <1>1, <2>1
    <3>2. i + 1 = j + 1
      BY <1>2, <3>1
    <3>3. QED
      BY <3>2
  <2>2. QED
    BY <1>1, <2>1 DEF IsInjective
<1>4. ASSUME NEW x \in Range(Tail(q)) PROVE x \in Range(q) /\ x # Head(q)
  <2>1. PICK i \in 1..(Len(q) - 1) : x = q[i + 1]
    BY <1>1 DEF Range
  <2>2. i + 1 \in 1..Len(q) /\ 1 \in 1..Len(q) /\ i + 1 # 1
    BY <1>1
  <2>3. QED
    BY <1>1, <1>2, <2>1, <2>2 DEF Range
<1>5. ASSUME NEW x \in Range(q), x # Head(q) PROVE x \in Range(Tail(q))
  <2>1. PICK i \in 1..Len(q) : x = q[i]
    BY <1>1 DEF Range
  <2>2. i - 1 \in 1..(Len(q) - 1) /\ (i - 1) + 1 = i
    BY <1>1, <1>5, <2>1
  <2>3. Tail(q)[i - 1] = x
    BY <1>1, <2>1, <2>2
  <2>4. QED
    BY <1>1, <2>2, <2>3 DEF Range
<1>6. Head(q) \in Range(q)
  BY <1>1 DEF Range
<1>7. QED
  BY <1>3, <1>4, <1>5, <1>6

LEMMA AppendUnique ==
  ASSUME NEW q \in Seq(Sandboxes), NEW s \in Sandboxes, IsInjective(q),
         s \notin Range(q)
  PROVE  /\ IsInjective(Append(q, s))
         /\ Range(Append(q, s)) = Range(q) \union {s}
<1> DEFINE n == Len(q)
<1>1. /\ n \in Nat /\ DOMAIN q = 1..n /\ DOMAIN Append(q, s) = 1..(n + 1)
      /\ \A i \in 1..n : Append(q, s)[i] = q[i]
      /\ Append(q, s)[n + 1] = s
  OBVIOUS
<1> HIDE DEF n
<1>2. \A i \in 1..n : q[i] # s
  BY <1>1 DEF Range
<1>3. \A i \in 1..(n + 1) : i \in 1..n \/ i = n + 1
  BY <1>1
<1>4. IsInjective(Append(q, s))
  BY <1>1, <1>2, <1>3 DEF IsInjective
<1>5. ASSUME NEW x \in Range(Append(q, s)) PROVE x \in Range(q) \union {s}
  <2>1. PICK i \in 1..(n + 1) : x = Append(q, s)[i]
    BY <1>1 DEF Range
  <2>2. QED
    BY <1>1, <1>3, <2>1 DEF Range
<1>6. ASSUME NEW x \in Range(q) \union {s} PROVE x \in Range(Append(q, s))
  <2>1. 1..n \subseteq 1..(n + 1) /\ n + 1 \in 1..(n + 1)
    BY <1>1
  <2>2. CASE x = s
    BY <1>1, <2>1, <2>2 DEF Range
  <2>3. CASE x \in Range(q)
    BY <1>1, <2>1, <2>3 DEF Range
  <2>4. QED
    BY <2>2, <2>3
<1>7. QED
  BY <1>4, <1>5, <1>6

LEMMA MembersType ==
  ASSUME TypeOK
  PROVE  Range(queue) \union working \union Range(done) \subseteq Sandboxes
BY SMTT(20) DEF TypeOK, Range

-----------------------------------------------------------------------------
(***************************************************************************)
(* Type correctness.                                                       *)
(***************************************************************************)

LEMMA RunInitType == ASSUME Init PROVE TypeOK
<1>1. 0 \in 0..MaxElapsed
  BY RunAssumption
<1>2. << >> \in Seq(Sandboxes)
  OBVIOUS
<1>3. QED
  BY <1>1, <1>2 DEF Init, TypeOK

LEMMA ChargeType ==
  ASSUME TypeOK, CounterInv, NEW s \in Sandboxes
  PROVE  /\ cpu[s] - actualCpuTime[s] \in Nat
         /\ ElapsedShare * (elapsed[s] - lastCheck[s]) \in Nat
         /\ Larger(cpu[s] - actualCpuTime[s],
                   ElapsedShare * (elapsed[s] - lastCheck[s])) \in Nat
<1>1. /\ cpu[s] \in Nat /\ actualCpuTime[s] \in Nat
      /\ elapsed[s] \in 0..MaxElapsed /\ lastCheck[s] \in 0..MaxElapsed
  BY DEF TypeOK
<1>2. actualCpuTime[s] <= cpu[s] /\ lastCheck[s] <= elapsed[s]
  BY DEF CounterInv
<1>3. QED
  BY <1>1, <1>2, RunAssumption DEF ElapsedShare, Larger

\* A tick either stops the sandbox and flags the time-out, or does neither.
LEMMA TickFlags ==
  ASSUME TypeOK, NEW s \in Sandboxes, Tick(s)
  PROVE  \/ /\ timeout' = [timeout EXCEPT ![s] = TRUE]
            /\ cancelled' = [cancelled EXCEPT ![s] = TRUE]
            /\ killed' = killed \union ({s} \intersect Alive)
            /\ countedCpuTime'[s] > TimeLimit[s]
         \/ /\ UNCHANGED <<timeout, cancelled, killed>>
            /\ ~ (countedCpuTime'[s] > TimeLimit[s])
<1> USE DEF TypeOK
<1>1. /\ countedCpuTime'[s] = countedCpuTime[s] + Charge(s)
      /\ timeout' = [timeout EXCEPT ![s] = @ \/ countedCpuTime'[s] > TimeLimit[s]]
      /\ Stop(IF countedCpuTime'[s] > TimeLimit[s] THEN {s} ELSE {})
  BY DEF Tick, judgeVars, Charge, Stop
<1>2. CASE countedCpuTime'[s] > TimeLimit[s]
  <2>1. timeout' = [timeout EXCEPT ![s] = TRUE] /\ Stop({s})
    BY <1>1, <1>2
  <2>2. cancelled' = [cancelled EXCEPT ![s] = TRUE]
    BY ZenonT(60), <2>1 DEF Stop
  <2>3. QED
    BY <1>2, <2>1, <2>2 DEF Stop
<1>3. CASE ~ (countedCpuTime'[s] > TimeLimit[s])
  <2>1. timeout' = [timeout EXCEPT ![s] = timeout[s]] /\ Stop({})
    BY <1>1, <1>3
  <2>2. cancelled' = cancelled /\ killed' = killed
    BY ZenonT(60), <2>1 DEF Stop
  <2>3. timeout' = timeout
    BY <2>1
  <2>4. QED
    BY <1>3, <2>2, <2>3
<1>4. QED
  BY <1>2, <1>3

LEMMA CleanupType ==
  ASSUME TypeOK, NEW s \in Sandboxes, Cleanup(s) \/ CleanupThrows(s)
  PROVE  /\ timer' \in [Sandboxes -> BOOLEAN] /\ running' \in [Sandboxes -> BOOLEAN]
         /\ group' \in [Sandboxes -> BOOLEAN]
<1> USE DEF TypeOK
<1>1. CASE Cleanup(s)
  <2>1. PICK kept \in BOOLEAN : group' = [group EXCEPT ![s] = kept]
    BY ZenonT(60), <1>1 DEF Cleanup
  <2>2. group' \in [Sandboxes -> BOOLEAN]
    BY ZenonT(60), <2>1
  <2>3. QED
    BY <1>1, <2>2 DEF Cleanup
<1>2. CASE CleanupThrows(s)
  BY <1>2 DEF CleanupThrows
<1>3. QED
  BY <1>1, <1>2

LEMMA RunTypeStep == ASSUME RInv, Next PROVE TypeOK'
<1> USE DEF TypeOK, kernelVars, poolVars, clockVars, flagVars
<1>0. TypeOK
  BY DEF RInv
<1>1. ASSUME NEW s \in Sandboxes, StartSandbox(s) PROVE TypeOK'
  <2>1. queue' \in Seq(Sandboxes)
    BY <1>0, <1>1, Appended DEF StartSandbox
  <2>2. QED
    BY <1>0, <1>1, <2>1 DEF StartSandbox
<1>2. ASSUME NEW s \in Sandboxes, Tick(s) PROVE TypeOK'
  <2>1. countedCpuTime' \in [Sandboxes -> Nat]
    BY SMTT(20), <1>0, <1>2, ChargeType DEF Tick, RInv, judgeVars, Charge, Stop
  <2>2. killed' \subseteq Sandboxes
    BY <1>0, <1>2 DEF Tick, Stop, judgeVars, Charge
  <2>3. timeout' \in [Sandboxes -> BOOLEAN] /\ cancelled' \in [Sandboxes -> BOOLEAN]
    BY <1>0, <1>2 DEF Tick, judgeVars, Charge, Stop
  <2>4. QED
    BY <1>0, <1>2, <2>1, <2>2, <2>3 DEF Tick, judgeVars, Charge, Stop
<1>3. ASSUME NEW s \in Sandboxes, TickThrows(s) PROVE TypeOK'
  BY <1>0, <1>3 DEF TickThrows
<1>4. ASSUME NEW s \in Sandboxes, UserStop(s) PROVE TypeOK'
  BY <1>0, <1>4 DEF UserStop, Stop, judgeVars
<1>5. ASSUME NEW s \in Sandboxes, Callback(s) PROVE TypeOK'
  <2>1. /\ done' \in Seq(Sandboxes)
        /\ UNCHANGED <<node, queue, working, answer, kernelVars, lastCheck,
                       countedCpuTime, timeout>>
    BY ZenonT(60), <1>0, <1>5, HeadTail
    DEF Callback, CallbackResult, CallbackReadThrows, CallbackCleanupThrows,
        CallbackError, Deliver
  <2>2. killed' \subseteq Sandboxes /\ cancelled' \in [Sandboxes -> BOOLEAN]
    BY <1>0, <1>5
    DEF Callback, CallbackResult, CallbackReadThrows, CallbackCleanupThrows,
        CallbackError, Stop
  <2>3. /\ timer' \in [Sandboxes -> BOOLEAN] /\ group' \in [Sandboxes -> BOOLEAN]
        /\ running' \in [Sandboxes -> BOOLEAN]
    BY <1>0, <1>5, CleanupType
    DEF Callback, CallbackResult, CallbackReadThrows, CallbackCleanupThrows,
        CallbackError
  <2>4. actualCpuTime' \in [Sandboxes -> Nat]
    BY <1>0, <1>5
    DEF Callback, CallbackResult, CallbackReadThrows, CallbackCleanupThrows,
        CallbackError
  <2>5. promise' \in [Sandboxes -> {"pending", "rejected"} \union Statuses]
    <3>1. Classify(s) \in Statuses
      BY DEF Classify, Statuses
    <3>2. QED
      BY <1>0, <1>5, <3>1
      DEF Callback, CallbackResult, CallbackReadThrows, CallbackCleanupThrows,
          CallbackError
  <2>6. QED
    BY <1>0, <2>1, <2>2, <2>3, <2>4, <2>5
<1>6. CASE NodeExit
  BY <1>0, <1>6 DEF NodeExit, Stop, ExitListeners, judgeVars
<1>7. CASE TakeWorker
  BY <1>0, <1>7, HeadTail DEF TakeWorker, judgeVars, NextWorker
<1>8. ASSUME NEW s \in Sandboxes, WaitReturns(s) \/ WaitThrows(s) PROVE TypeOK'
  <2>1. done' \in Seq(Sandboxes) /\ working' \subseteq Sandboxes
    <3>1. Append(done, s) \in Seq(Sandboxes)
      BY <1>0, Appended
    <3>2. QED
      BY <1>0, <1>8, <3>1 DEF WaitReturns, WaitThrows, Finish, judgeVars
  <2>2. answer' \in [Sandboxes -> {"none", "exited", "signaled", "error"}]
    BY <1>0, <1>8 DEF WaitReturns, WaitThrows, Finish, judgeVars
  <2>3. proc' \in [Sandboxes -> {"none", "alive", "zombie", "reaped"}]
    BY <1>0, <1>8 DEF WaitReturns, WaitThrows
  <2>4. QED
    BY <1>0, <1>8, <2>1, <2>2, <2>3 DEF WaitReturns, WaitThrows, Finish, judgeVars
<1>9. ASSUME NEW s \in Sandboxes, ProgramEnds(s) \/ KillDelivered(s) PROVE TypeOK'
  <2>1. PICK how \in {"exited", "signaled", "error"} : Ends(s, how)
    BY <1>9 DEF ProgramEnds, KillDelivered
  <2>2. QED
    BY <1>0, <2>1 DEF Ends, judgeVars
<1>10. ASSUME NEW s \in Sandboxes, ExceedMemory(s) PROVE TypeOK'
  BY <1>0, <1>10 DEF ExceedMemory, judgeVars
<1>11. CASE Advance
  <2>1. elapsed' \in [Sandboxes -> 0..MaxElapsed]
    BY <1>0, <1>11, RunAssumption DEF Advance, judgeVars
  <2>2. cpu' \in [Sandboxes -> Nat]
    BY <1>0, <1>11 DEF Advance, BusyUnit, judgeVars
  <2>3. QED
    BY <1>0, <1>11, <2>1, <2>2 DEF Advance, judgeVars
<1>12. QED
  BY <1>1, <1>2, <1>3, <1>4, <1>5, <1>6, <1>7, <1>8, <1>9, <1>10, <1>11 DEF Next

-----------------------------------------------------------------------------
(***************************************************************************)
(* The parts of RInv, one lemma each.                                      *)
(***************************************************************************)

EndsSomehow(s) == \E how \in {"exited", "signaled", "error"} : Ends(s, how)

Waits(s) == WaitReturns(s) \/ WaitThrows(s)

LEMMA RunCases ==
  ASSUME Next
  PROVE  \/ TakeWorker \/ Advance \/ NodeExit
         \/ \E s \in Sandboxes :
              \/ StartSandbox(s) \/ Tick(s) \/ TickThrows(s) \/ UserStop(s)
              \/ Callback(s) \/ Waits(s) \/ EndsSomehow(s) \/ ExceedMemory(s)
BY DEF Next, Waits, EndsSomehow, ProgramEnds, KillDelivered

\* What every callback of a worker does.
LEMMA CallbackFrame ==
  ASSUME TypeOK, WorkerInv, NEW s \in Sandboxes, Callback(s)
  PROVE  /\ UNCHANGED <<node, queue, working, answer, kernelVars, lastCheck,
                        countedCpuTime, timeout>>
         /\ done # << >> /\ s \in Range(done) /\ proc[s] # "none"
         /\ done' = Tail(done) /\ Range(done') \subseteq Range(done)
         /\ \A t \in Sandboxes : timer'[t] => timer[t] /\ group'[t] = group[t]
         /\ \A t \in Sandboxes \ {s} :
              /\ timer'[t] = timer[t] /\ promise'[t] = promise[t]
              /\ cancelled'[t] = cancelled[t]
              /\ actualCpuTime'[t] = actualCpuTime[t]
              /\ t \in killed' <=> t \in killed
         /\ \/ /\ UNCHANGED <<killed, cancelled>>
            \/ cancelled'[s] /\ killed' = killed \union ({s} \intersect Alive)
         /\ actualCpuTime'[s] \in {actualCpuTime[s], cpu[s]}
         /\ timer'[s] => actualCpuTime'[s] = actualCpuTime[s]
<1> USE DEF TypeOK
<1>1. /\ UNCHANGED <<node, queue, working, answer, kernelVars, lastCheck,
                     countedCpuTime, timeout>>
      /\ done # << >> /\ s = Head(done) /\ done' = Tail(done)
  BY DEF Callback, CallbackResult, CallbackReadThrows, CallbackCleanupThrows,
     CallbackError, Deliver
<1>2. /\ s \in Range(done) /\ proc[s] # "none"
      /\ Range(done') \subseteq Range(done)
  BY <1>1, HeadTail DEF WorkerInv
<1>3. CASE CallbackResult(s)
  BY ZenonT(60), <1>1, <1>2, <1>3 DEF CallbackResult, Cleanup
<1>4. CASE CallbackReadThrows(s)
  BY <1>1, <1>2, <1>4 DEF CallbackReadThrows
<1>5. CASE CallbackCleanupThrows(s)
  BY ZenonT(60), <1>1, <1>2, <1>5 DEF CallbackCleanupThrows, CleanupThrows
<1>6. CASE CallbackError(s)
  BY ZenonT(60), <1>1, <1>2, <1>6 DEF CallbackError, Cleanup, CleanupThrows, Stop, Alive
<1>7. QED
  BY <1>3, <1>4, <1>5, <1>6 DEF Callback

LEMMA WaitsFrame ==
  ASSUME TypeOK, NEW s \in Sandboxes, Waits(s)
  PROVE  /\ UNCHANGED <<node, killed, group, promise, end, cpu, overMem,
                        elapsed, queue, clockVars, flagVars>>
         /\ s \in working /\ working' = working \ {s}
         /\ done' = Append(done, s)
         /\ Range(done') \subseteq Range(done) \union {s}
         /\ \A t \in Sandboxes \ {s} : proc'[t] = proc[t] /\ answer'[t] = answer[t]
         /\ \/ proc'[s] = proc[s] /\ answer'[s] = "error"
            \/ proc[s] = "zombie" /\ proc'[s] = "reaped" /\ answer'[s] = end[s]
BY ZenonT(60), Appended DEF TypeOK, Waits, WaitReturns, WaitThrows, Finish, judgeVars

LEMMA EndsFrame ==
  ASSUME TypeOK, NEW s \in Sandboxes, EndsSomehow(s)
  PROVE  /\ UNCHANGED <<node, killed, group, promise, cpu, overMem, elapsed,
                        poolVars, clockVars, flagVars>>
         /\ proc[s] = "alive" /\ proc'[s] = "zombie" /\ end'[s] # "none"
         /\ \A t \in Sandboxes \ {s} : proc'[t] = proc[t] /\ end'[t] = end[t]
BY DEF TypeOK, EndsSomehow, Ends, judgeVars

LEMMA NewStep == ASSUME RInv, Next PROVE NewInv'
<1> USE DEF judgeVars, NewInv, TypeOK, kernelVars, clockVars, flagVars
<1>0. TypeOK /\ NewInv /\ FlagInv /\ WorkerInv
  BY DEF RInv
<1>1. ASSUME NEW s \in Sandboxes, StartSandbox(s) PROVE NewInv'
  BY <1>0, <1>1 DEF StartSandbox
<1>2. ASSUME NEW s \in Sandboxes, Tick(s) PROVE NewInv'
  BY <1>0, <1>2 DEF Tick, judgeVars, Charge, Stop
<1>3. ASSUME NEW s \in Sandboxes, TickThrows(s) PROVE NewInv'
  BY <1>0, <1>3 DEF TickThrows
<1>4. ASSUME NEW s \in Sandboxes, UserStop(s) PROVE NewInv'
  BY <1>0, <1>4 DEF UserStop, judgeVars, Stop
<1>5. ASSUME NEW s \in Sandboxes, Callback(s) PROVE NewInv'
  <2>1. /\ proc[s] # "none" /\ proc' = proc /\ timeout' = timeout
        /\ countedCpuTime' = countedCpuTime
        /\ \A t \in Sandboxes \ {s} :
             /\ timer'[t] = timer[t] /\ promise'[t] = promise[t]
             /\ cancelled'[t] = cancelled[t]
             /\ actualCpuTime'[t] = actualCpuTime[t]
    BY <1>0, <1>5, CallbackFrame
  <2>2. QED
    BY <1>0, <2>1
<1>6. ASSUME NEW s \in Sandboxes, Waits(s) PROVE NewInv'
  <2>1. /\ UNCHANGED <<promise, clockVars, flagVars>>
        /\ \A t \in Sandboxes : proc'[t] = "none" => proc[t] = "none"
    BY <1>0, <1>6, WaitsFrame
  <2>2. QED
    BY <1>0, <2>1
<1>7. ASSUME NEW s \in Sandboxes, EndsSomehow(s) PROVE NewInv'
  BY ZenonT(60), <1>0, <1>7, EndsFrame
<1>8. ASSUME NEW s \in Sandboxes, ExceedMemory(s) PROVE NewInv'
  BY <1>0, <1>8 DEF ExceedMemory, judgeVars
<1>9. CASE TakeWorker \/ Advance
  BY <1>0, <1>9 DEF TakeWorker, Advance, judgeVars, NextWorker
<1>10. CASE NodeExit
  BY <1>0, <1>10 DEF NodeExit, ExitListeners, judgeVars, Stop
<1>11. QED
  BY <1>1, <1>2, <1>3, <1>4, <1>5, <1>6, <1>7, <1>8, <1>9, <1>10, RunCases

\* No process goes back to "none".
LEMMA StartedStays ==
  ASSUME TypeOK, WorkerInv, Next
  PROVE  \A s \in Sandboxes : proc[s] # "none" => proc'[s] # "none"
<1> USE DEF TypeOK, kernelVars
<1>1. ASSUME NEW s \in Sandboxes,
             \/ StartSandbox(s) \/ Tick(s) \/ TickThrows(s) \/ UserStop(s)
             \/ ExceedMemory(s)
      PROVE  \A t \in Sandboxes : proc[t] # "none" => proc'[t] # "none"
  BY <1>1 DEF StartSandbox, Tick, TickThrows, UserStop, ExceedMemory, judgeVars, Charge, Stop
<1>2. ASSUME NEW s \in Sandboxes, Callback(s) \/ Waits(s) \/ EndsSomehow(s)
      PROVE  \A t \in Sandboxes : proc[t] # "none" => proc'[t] # "none"
  BY <1>2, CallbackFrame, WaitsFrame, EndsFrame
<1>3. CASE TakeWorker \/ Advance \/ NodeExit
  BY <1>3 DEF TakeWorker, Advance, NodeExit, judgeVars, NextWorker, Stop
<1>4. QED
  BY <1>1, <1>2, <1>3, RunCases

LEMMA WorkerStep == ASSUME RInv, Next PROVE WorkerInv'
<1> USE DEF TypeOK, poolVars
<1>0. TypeOK /\ WorkerInv
  BY DEF RInv
<1>1. \A s \in Sandboxes : proc[s] # "none" => proc'[s] # "none"
  BY <1>0, StartedStays
<1>2. \A s \in Range(queue) \union working \union Range(done) :
        proc'[s] # "none"
  BY <1>0, <1>1, MembersType DEF WorkerInv
<1>3. ASSUME NEW s \in Sandboxes, StartSandbox(s) PROVE WorkerInv'
  <2>1. /\ proc'[s] # "none" /\ queue' = Append(queue, s)
        /\ UNCHANGED <<working, done>>
    BY <1>0, <1>3 DEF StartSandbox
  <2>2. Range(queue') \subseteq Range(queue) \union {s}
    BY <1>0, <2>1, Appended
  <2>3. QED
    BY <1>2, <2>1, <2>2 DEF WorkerInv
<1>4. ASSUME NEW s \in Sandboxes, Callback(s) PROVE WorkerInv'
  BY <1>0, <1>2, <1>4, CallbackFrame DEF WorkerInv
<1>5. ASSUME NEW s \in Sandboxes, Waits(s) PROVE WorkerInv'
  BY <1>0, <1>2, <1>5, WaitsFrame DEF WorkerInv
<1>6. CASE TakeWorker
  <2>1. /\ queue # << >> /\ queue' = Tail(queue) /\ done' = done
        /\ working' = working \union {Head(queue)}
    BY <1>6 DEF TakeWorker, judgeVars, NextWorker
  <2>2. Range(queue') \subseteq Range(queue) /\ Head(queue) \in Range(queue)
    BY <1>0, <2>1, HeadTail
  <2>3. QED
    BY <1>2, <2>1, <2>2 DEF WorkerInv
<1>7. ASSUME UNCHANGED poolVars PROVE WorkerInv'
  BY <1>2, <1>7 DEF WorkerInv, Range
<1>8. ASSUME NEW s \in Sandboxes,
             Tick(s) \/ TickThrows(s) \/ UserStop(s) \/ ExceedMemory(s)
      PROVE  WorkerInv'
  BY <1>7, <1>8 DEF Tick, TickThrows, UserStop, ExceedMemory, judgeVars, Charge, Stop
<1>9. ASSUME NEW s \in Sandboxes, EndsSomehow(s) PROVE WorkerInv'
  BY <1>0, <1>7, <1>9, EndsFrame
<1>10. CASE Advance \/ NodeExit
  BY <1>7, <1>10 DEF Advance, NodeExit, judgeVars, Stop
<1>11. QED
  BY <1>3, <1>4, <1>5, <1>6, <1>8, <1>9, <1>10, RunCases

LEMMA AnswerStep == ASSUME RInv, Next PROVE AnswerInv'
<1> USE DEF AnswerInv, TypeOK, kernelVars, poolVars
<1>0. TypeOK /\ AnswerInv /\ WorkerInv /\ Range(done) \subseteq Sandboxes
  BY MembersType DEF RInv
<1>1. ASSUME UNCHANGED <<proc, end, done, answer>> PROVE AnswerInv'
  BY <1>0, <1>1 DEF Range
<1>2. ASSUME NEW s \in Sandboxes, StartSandbox(s) PROVE AnswerInv'
  <2>1. /\ proc[s] = "none" /\ proc' = [proc EXCEPT ![s] = "alive"]
        /\ UNCHANGED <<end, done, answer>>
    BY <1>2 DEF StartSandbox
  <2>2. s \notin Range(done) /\ Range(done') = Range(done)
    BY <1>0, <2>1 DEF WorkerInv, Range
  <2>3. QED
    BY <1>0, <2>1, <2>2
<1>3. ASSUME NEW s \in Sandboxes, Callback(s) PROVE AnswerInv'
  <2>1. /\ Range(done') \subseteq Range(done)
        /\ UNCHANGED <<proc, end, answer>>
    BY <1>0, <1>3, CallbackFrame
  <2>2. QED
    BY <1>0, <2>1
<1>4. ASSUME NEW s \in Sandboxes, Waits(s) PROVE AnswerInv'
  <2>1. /\ Range(done') \subseteq Range(done) \union {s} /\ end' = end
        /\ \A t \in Sandboxes \ {s} : proc'[t] = proc[t] /\ answer'[t] = answer[t]
        /\ \/ proc'[s] = proc[s] /\ answer'[s] = "error"
           \/ proc[s] = "zombie" /\ proc'[s] = "reaped" /\ answer'[s] = end[s]
    BY <1>0, <1>4, WaitsFrame
  <2>2. QED
    BY <1>0, <2>1
<1>5. ASSUME NEW s \in Sandboxes, EndsSomehow(s) PROVE AnswerInv'
  <2>1. /\ done' = done /\ answer' = answer /\ proc[s] = "alive"
        /\ end'[s] # "none" /\ proc'[s] = "zombie"
        /\ \A t \in Sandboxes \ {s} : proc'[t] = proc[t] /\ end'[t] = end[t]
    BY <1>0, <1>5, EndsFrame
  <2>2. Range(done') = Range(done)
    BY <2>1 DEF Range
  <2>3. QED
    BY <1>0, <2>1, <2>2
<1>6. ASSUME NEW s \in Sandboxes,
             Tick(s) \/ TickThrows(s) \/ UserStop(s) \/ ExceedMemory(s)
      PROVE  AnswerInv'
  BY <1>1, <1>6 DEF Tick, TickThrows, UserStop, ExceedMemory, judgeVars, Charge, Stop
<1>7. CASE TakeWorker \/ Advance \/ NodeExit
  BY <1>1, <1>7 DEF TakeWorker, Advance, NodeExit, judgeVars, NextWorker, Stop
<1>8. QED
  BY <1>2, <1>3, <1>4, <1>5, <1>6, <1>7, RunCases

LEMMA CounterStep == ASSUME RInv, Next PROVE CounterInv'
<1> USE DEF CounterInv, TypeOK, kernelVars, clockVars
<1>0. TypeOK /\ CounterInv /\ WorkerInv
  BY DEF RInv
<1>1. ASSUME UNCHANGED <<cpu, elapsed, actualCpuTime, lastCheck>>
      PROVE  CounterInv'
  BY <1>0, <1>1
<1>2. ASSUME NEW s \in Sandboxes, Tick(s) PROVE CounterInv'
  BY <1>0, <1>2 DEF Tick, judgeVars, Charge, Stop
<1>3. ASSUME NEW s \in Sandboxes, Callback(s) PROVE CounterInv'
  <2>1. /\ UNCHANGED <<cpu, elapsed, lastCheck>>
        /\ actualCpuTime'[s] \in {actualCpuTime[s], cpu[s]}
        /\ \A t \in Sandboxes \ {s} : actualCpuTime'[t] = actualCpuTime[t]
    BY <1>0, <1>3, CallbackFrame
  <2>2. cpu[s] \in Nat /\ actualCpuTime'[s] <= cpu[s]
    BY <1>0, <2>1
  <2>3. ASSUME NEW t \in Sandboxes
        PROVE  actualCpuTime'[t] <= cpu'[t] /\ lastCheck'[t] <= elapsed'[t]
    BY <1>0, <2>1, <2>2
  <2>4. QED
    BY <2>3
<1>4. CASE Advance
  <2>1. \A s \in Sandboxes : cpu'[s] >= cpu[s] /\ elapsed'[s] >= elapsed[s]
    BY <1>0, <1>4 DEF Advance, BusyUnit, judgeVars
  <2>2. UNCHANGED <<actualCpuTime, lastCheck>>
    BY <1>4 DEF Advance, judgeVars
  <2>3. TypeOK'
    BY RunTypeStep
  <2>4. QED
    BY <1>0, <2>1, <2>2, <2>3
<1>5. ASSUME NEW s \in Sandboxes,
             \/ StartSandbox(s) \/ TickThrows(s) \/ UserStop(s) \/ ExceedMemory(s)
      PROVE  CounterInv'
  BY <1>1, <1>5 DEF StartSandbox, TickThrows, UserStop, ExceedMemory, judgeVars, Stop
<1>6. ASSUME NEW s \in Sandboxes, Waits(s) \/ EndsSomehow(s) PROVE CounterInv'
  BY <1>0, <1>1, <1>6, WaitsFrame, EndsFrame
<1>7. CASE TakeWorker \/ NodeExit
  BY <1>1, <1>7 DEF TakeWorker, NodeExit, judgeVars, NextWorker, Stop
<1>8. QED
  BY <1>2, <1>3, <1>4, <1>5, <1>6, <1>7, RunCases

LEMMA GroupStep == ASSUME RInv, Next PROVE TickFindsGroup'
<1> USE DEF TickFindsGroup, TypeOK, flagVars
<1>0. TypeOK /\ TickFindsGroup /\ WorkerInv
  BY DEF RInv
<1>1. ASSUME UNCHANGED <<timer, group>> PROVE TickFindsGroup'
  BY <1>0, <1>1
<1>2. ASSUME NEW s \in Sandboxes, StartSandbox(s) PROVE TickFindsGroup'
  BY <1>0, <1>2 DEF StartSandbox
<1>3. ASSUME NEW s \in Sandboxes, Callback(s) PROVE TickFindsGroup'
  <2>1. \A t \in Sandboxes : timer'[t] => timer[t] /\ group'[t] = group[t]
    BY <1>0, <1>3, CallbackFrame
  <2>2. QED
    BY <1>0, <2>1
<1>4. ASSUME NEW s \in Sandboxes,
             Tick(s) \/ TickThrows(s) \/ UserStop(s) \/ ExceedMemory(s)
      PROVE  TickFindsGroup'
  BY <1>1, <1>4 DEF Tick, TickThrows, UserStop, ExceedMemory, judgeVars, Charge, Stop
<1>5. ASSUME NEW s \in Sandboxes, Waits(s) \/ EndsSomehow(s) PROVE TickFindsGroup'
  BY <1>0, <1>1, <1>5, WaitsFrame, EndsFrame
<1>6. CASE TakeWorker \/ Advance \/ NodeExit
  BY <1>1, <1>6 DEF TakeWorker, Advance, NodeExit, judgeVars, NextWorker, Stop
<1>7. QED
  BY <1>2, <1>3, <1>4, <1>5, <1>6, RunCases

\* One tick preserves the bounds: the larger of two non-negative amounts is at
\* least each of them and at most their sum.
LEMMA TickCharge ==
  ASSUME RInv, NEW s \in Sandboxes, Tick(s)
  PROVE  /\ countedCpuTime'[s] >= countedCpuTime[s]
         /\ countedCpuTime'[s] >= actualCpuTime'[s]
         /\ countedCpuTime'[s] >= ElapsedShare * lastCheck'[s]
         /\ countedCpuTime'[s] <= actualCpuTime'[s] + ElapsedShare * lastCheck'[s]
         /\ \A t \in Sandboxes \ {s} :
              /\ countedCpuTime'[t] = countedCpuTime[t]
              /\ actualCpuTime'[t] = actualCpuTime[t]
              /\ lastCheck'[t] = lastCheck[t]
<1> DEFINE used   == cpu[s] - actualCpuTime[s]
           passed == elapsed[s] - lastCheck[s]
<1>1. /\ cpu[s] \in Nat /\ actualCpuTime[s] \in Nat /\ countedCpuTime[s] \in Nat
      /\ elapsed[s] \in Nat /\ lastCheck[s] \in Nat
      /\ used >= 0 /\ passed >= 0
  BY RunAssumption DEF RInv, TypeOK, CounterInv
<1>2. /\ countedCpuTime'[s] = countedCpuTime[s] + Larger(used, 2 * passed)
      /\ actualCpuTime'[s] = cpu[s] /\ lastCheck'[s] = elapsed[s]
  BY DEF Tick, RInv, TypeOK, ElapsedShare, judgeVars, Charge, Stop
<1>3. /\ Larger(used, 2 * passed) >= used
      /\ Larger(used, 2 * passed) >= 2 * passed
      /\ Larger(used, 2 * passed) <= used + 2 * passed
      /\ Larger(used, 2 * passed) \in Int
  BY <1>1 DEF Larger
<1>4. /\ countedCpuTime[s] >= actualCpuTime[s]
      /\ countedCpuTime[s] >= 2 * lastCheck[s]
      /\ countedCpuTime[s] <= actualCpuTime[s] + 2 * lastCheck[s]
  BY DEF RInv, ChargeBounds, Tick, ElapsedShare, judgeVars, Charge, Stop
<1>5. \A t \in Sandboxes \ {s} :
        /\ countedCpuTime'[t] = countedCpuTime[t]
        /\ actualCpuTime'[t] = actualCpuTime[t]
        /\ lastCheck'[t] = lastCheck[t]
  BY DEF Tick, RInv, TypeOK, judgeVars, Charge, Stop
<1>6. QED
  BY <1>1, <1>2, <1>3, <1>4, <1>5 DEF ElapsedShare

LEMMA ChargeStep == ASSUME RInv, Next PROVE ChargeBounds'
<1> USE DEF ChargeBounds
<1>0. TypeOK /\ ChargeBounds /\ WorkerInv /\ CounterInv /\ NewInv
  BY DEF RInv
<1>1. ASSUME UNCHANGED <<countedCpuTime, actualCpuTime, lastCheck>>,
             \A s \in Sandboxes : timer'[s] => timer[s] \/ proc[s] = "none"
      PROVE  ChargeBounds'
  BY <1>0, <1>1 DEF NewInv
<1>2. ASSUME NEW s \in Sandboxes, Tick(s) PROVE ChargeBounds'
  <2>1. timer' = timer
    BY <1>2 DEF Tick, judgeVars, Charge, Stop
  <2>2. QED
    BY <1>0, <1>2, <2>1, TickCharge
<1>3. ASSUME NEW s \in Sandboxes, Callback(s) PROVE ChargeBounds'
  <2>1. /\ UNCHANGED <<countedCpuTime, lastCheck>>
        /\ actualCpuTime'[s] \in {actualCpuTime[s], cpu[s]}
        /\ timer'[s] => actualCpuTime'[s] = actualCpuTime[s]
        /\ \A t \in Sandboxes : timer'[t] => timer[t]
        /\ \A t \in Sandboxes \ {s} : actualCpuTime'[t] = actualCpuTime[t]
    BY <1>0, <1>3, CallbackFrame
  <2>2. actualCpuTime'[s] >= actualCpuTime[s]
    BY <1>0, <2>1 DEF CounterInv, TypeOK
  <2>3. /\ cpu[s] \in Nat /\ countedCpuTime[s] \in Nat
        /\ actualCpuTime[s] \in Nat /\ ElapsedShare * lastCheck[s] \in Nat
    BY <1>0, RunAssumption DEF TypeOK, ElapsedShare
  <2>4. countedCpuTime[s] <= actualCpuTime'[s] + ElapsedShare * lastCheck[s]
    BY <1>0, <2>1, <2>2, <2>3
  <2>5. QED
    BY <1>0, <2>1, <2>4
<1>4. ASSUME NEW s \in Sandboxes, StartSandbox(s) PROVE ChargeBounds'
  <2>1. \A t \in Sandboxes : timer'[t] => timer[t] \/ proc[t] = "none"
    BY <1>0, <1>4 DEF StartSandbox, TypeOK
  <2>2. QED
    BY <1>1, <1>4, <2>1 DEF StartSandbox, clockVars
<1>5. ASSUME NEW s \in Sandboxes, TickThrows(s) \/ UserStop(s) \/ ExceedMemory(s)
      PROVE  ChargeBounds'
  BY <1>1, <1>5 DEF TickThrows, UserStop, ExceedMemory, clockVars, flagVars, judgeVars, Stop
<1>6. ASSUME NEW s \in Sandboxes, Waits(s) \/ EndsSomehow(s) PROVE ChargeBounds'
  BY <1>0, <1>1, <1>6, WaitsFrame, EndsFrame DEF clockVars, flagVars
<1>7. CASE TakeWorker \/ Advance \/ NodeExit
  BY <1>1, <1>7 DEF TakeWorker, Advance, NodeExit, clockVars, flagVars, judgeVars, NextWorker, Stop
<1>8. QED
  BY <1>2, <1>3, <1>4, <1>5, <1>6, <1>7, RunCases

\* The timer and a callback set the flag before they signal; only the timer
\* adds to the charge.
LEMMA FlagStep == ASSUME RInv, Next PROVE FlagInv'
<1> USE DEF FlagInv, clockVars, flagVars
<1>0. TypeOK /\ FlagInv /\ WorkerInv
  BY DEF RInv
<1>1. ASSUME UNCHANGED <<killed, cancelled, timeout, countedCpuTime>>,
             \A s \in Sandboxes : timer'[s] => timer[s] \/ s \in Limited
      PROVE  FlagInv'
  BY <1>0, <1>1 DEF Limited
<1>2. ASSUME NEW s \in Sandboxes, StartSandbox(s) PROVE FlagInv'
  BY <1>0, <1>1, <1>2 DEF StartSandbox, TypeOK
<1>3. ASSUME NEW s \in Sandboxes, Tick(s) PROVE FlagInv'
  <2>1. timer' = timer
    BY <1>3 DEF Tick, judgeVars, Charge, Stop
  <2>2. \A t \in Sandboxes : t \in killed' => cancelled'[t]
    BY ZenonT(60), <1>0, <1>3 DEF Tick, Stop, TypeOK, judgeVars, Charge
  <2>3. \/ timeout'[s]
        \/ /\ UNCHANGED <<timeout, cancelled, killed>>
           /\ ~ (countedCpuTime'[s] > TimeLimit[s])
    BY <1>0, <1>3 DEF Tick, TypeOK, judgeVars, Charge, Stop
  <2>4. \A t \in Sandboxes \ {s} :
          timeout'[t] = timeout[t] /\ countedCpuTime'[t] = countedCpuTime[t]
    BY <1>0, <1>3 DEF Tick, TypeOK, judgeVars, Charge, Stop
  <2>5. countedCpuTime'[s] \in Nat /\ TimeLimit[s] \in Int
    BY <1>3, RunTypeStep, RunAssumption DEF TypeOK, Next
  <2>6. QED
    BY <1>0, <2>1, <2>2, <2>3, <2>4, <2>5
<1>4. ASSUME NEW s \in Sandboxes, UserStop(s) PROVE FlagInv'
  BY <1>0, <1>4 DEF UserStop, Stop, TypeOK, judgeVars
<1>5. ASSUME NEW s \in Sandboxes, Callback(s) PROVE FlagInv'
  <2>1. /\ UNCHANGED <<countedCpuTime, timeout>>
        /\ \A t \in Sandboxes : timer'[t] => timer[t]
        /\ \A t \in Sandboxes \ {s} :
             cancelled'[t] = cancelled[t] /\ (t \in killed' <=> t \in killed)
        /\ \/ UNCHANGED <<killed, cancelled>>
           \/ cancelled'[s]
    BY <1>0, <1>5, CallbackFrame
  <2>2. QED
    BY <1>0, <2>1
<1>6. ASSUME NEW s \in Sandboxes, TickThrows(s) \/ ExceedMemory(s)
      PROVE  FlagInv'
  BY <1>1, <1>6 DEF TickThrows, ExceedMemory, judgeVars
<1>7. ASSUME NEW s \in Sandboxes, Waits(s) \/ EndsSomehow(s) PROVE FlagInv'
  BY <1>0, <1>1, <1>7, WaitsFrame, EndsFrame
<1>8. CASE TakeWorker \/ Advance
  BY <1>1, <1>8 DEF TakeWorker, Advance, judgeVars, NextWorker
<1>9. CASE NodeExit
  BY <1>0, <1>9 DEF NodeExit, Stop, ExitListeners, judgeVars
<1>10. QED
  BY <1>2, <1>3, <1>4, <1>5, <1>6, <1>7, <1>8, <1>9, RunCases

\* A callback settles with a status only after its worker reaped the process,
\* and after cleanup.
LEMMA CallbackSettles ==
  ASSUME RInv, NEW s \in Sandboxes, Callback(s)
  PROVE  \/ promise'[s] = "rejected"
         \/ /\ promise'[s] = Classify(s)
            /\ UNCHANGED <<killed, cancelled>>
            /\ proc[s] = "reaped" /\ answer[s] = end[s] /\ ~ timer'[s]
            /\ answer[s] # "error"
<1> USE DEF RInv, TypeOK
<1>1. CASE CallbackResult(s)
  <2>1. s \in Range(done) /\ answer[s] # "error"
    BY <1>1, CallbackFrame DEF CallbackResult
  <2>2. proc[s] = "reaped" /\ answer[s] = end[s]
    BY <2>1 DEF AnswerInv
  <2>3. QED
    BY <1>1, <2>1, <2>2 DEF CallbackResult, Cleanup
<1>2. CASE CallbackReadThrows(s)
  BY <1>2 DEF CallbackReadThrows
<1>3. CASE CallbackCleanupThrows(s)
  BY <1>3 DEF CallbackCleanupThrows
<1>4. CASE CallbackError(s)
  BY <1>4 DEF CallbackError
<1>5. QED
  BY <1>1, <1>2, <1>3, <1>4 DEF Callback

LEMMA SettledStep == ASSUME RInv, Next PROVE SettledInv'
<1> USE DEF SettledInv, TypeOK, kernelVars, flagVars
<1>0. TypeOK /\ SettledInv /\ WorkerInv /\ NewInv
  BY DEF RInv
<1>1. ASSUME UNCHANGED <<promise, proc, timer>> PROVE SettledInv'
  BY <1>0, <1>1
<1>2. ASSUME NEW s \in Sandboxes, StartSandbox(s) PROVE SettledInv'
  <2>1. /\ proc[s] = "none" /\ promise' = promise
        /\ \A t \in Sandboxes \ {s} : proc'[t] = proc[t] /\ timer'[t] = timer[t]
    BY <1>0, <1>2 DEF StartSandbox
  <2>2. promise[s] \notin Statuses
    BY <1>0, <2>1 DEF NewInv, Statuses
  <2>3. QED
    BY <1>0, <2>1, <2>2
<1>3. ASSUME NEW s \in Sandboxes, Callback(s) PROVE SettledInv'
  <2>1. /\ proc' = proc
        /\ \A t \in Sandboxes \ {s} :
             promise'[t] = promise[t] /\ timer'[t] = timer[t]
    BY <1>0, <1>3, CallbackFrame
  <2>2. \/ promise'[s] = "rejected"
        \/ proc[s] = "reaped" /\ ~ timer'[s]
    BY <1>3, CallbackSettles
  <2>3. QED
    BY <1>0, <2>1, <2>2 DEF Statuses
<1>4. ASSUME NEW s \in Sandboxes, Waits(s) PROVE SettledInv'
  <2>1. /\ UNCHANGED <<promise, timer>>
        /\ \A t \in Sandboxes : proc[t] = "reaped" => proc'[t] = "reaped"
    BY <1>0, <1>4, WaitsFrame
  <2>2. QED
    BY <1>0, <2>1
<1>5. ASSUME NEW s \in Sandboxes, EndsSomehow(s) PROVE SettledInv'
  <2>1. /\ UNCHANGED <<promise, timer>>
        /\ \A t \in Sandboxes : proc[t] = "reaped" => proc'[t] = "reaped"
    BY <1>0, <1>5, EndsFrame
  <2>2. QED
    BY <1>0, <2>1
<1>6. ASSUME NEW s \in Sandboxes,
             Tick(s) \/ TickThrows(s) \/ UserStop(s) \/ ExceedMemory(s)
      PROVE  SettledInv'
  BY <1>1, <1>6 DEF Tick, TickThrows, UserStop, ExceedMemory, judgeVars, Charge, Stop
<1>7. CASE TakeWorker \/ Advance \/ NodeExit
  BY <1>1, <1>7 DEF TakeWorker, Advance, NodeExit, judgeVars, NextWorker, Stop
<1>8. QED
  BY <1>2, <1>3, <1>4, <1>5, <1>6, <1>7, RunCases

LEMMA StopStep == ASSUME RInv, Next PROVE StopKills'
<1> USE DEF StopKills, kernelVars, clockVars, flagVars
<1>0. TypeOK /\ StopKills /\ WorkerInv /\ NewInv
  BY DEF RInv
<1>1. ASSUME UNCHANGED <<killed, cancelled, timeout, countedCpuTime>>,
             \A s \in Sandboxes : proc'[s] = "alive" => proc[s] = "alive"
      PROVE  StopKills'
  BY <1>0, <1>1
<1>2. ASSUME NEW s \in Sandboxes, StartSandbox(s) PROVE StopKills'
  <2>1. /\ ~ cancelled[s]
        /\ \A t \in Sandboxes \ {s} : proc'[t] = proc[t]
        /\ UNCHANGED <<killed, cancelled, timeout, countedCpuTime>>
    BY <1>0, <1>2 DEF StartSandbox, NewInv, TypeOK
  <2>2. QED
    BY <1>0, <2>1
<1>3. ASSUME NEW s \in Sandboxes, Tick(s) PROVE StopKills'
  <2>1. /\ proc' = proc
        /\ \/ /\ timeout' = [timeout EXCEPT ![s] = TRUE]
              /\ cancelled' = [cancelled EXCEPT ![s] = TRUE]
              /\ killed' = killed \union ({s} \intersect Alive)
              /\ countedCpuTime'[s] > TimeLimit[s]
           \/ UNCHANGED <<timeout, cancelled, killed>>
    BY <1>0, <1>3, TickFlags DEF Tick
  <2>2. countedCpuTime'[s] >= countedCpuTime[s]
    BY <1>3, TickCharge
  <2>3. \A t \in Sandboxes \ {s} : countedCpuTime'[t] = countedCpuTime[t]
    BY <1>3, TickCharge
  <2>4. /\ TimeLimit[s] \in Int /\ countedCpuTime[s] \in Int
        /\ countedCpuTime'[s] \in Int
    BY <1>0, <1>3, RunTypeStep, RunAssumption DEF TypeOK, Next
  <2>5. countedCpuTime[s] > TimeLimit[s] => countedCpuTime'[s] > TimeLimit[s]
    BY <2>2, <2>4
  <2>6. QED
    BY <1>0, <2>1, <2>3, <2>5 DEF Alive, TypeOK
<1>4. ASSUME NEW s \in Sandboxes, UserStop(s) PROVE StopKills'
  BY <1>0, <1>4 DEF UserStop, Stop, Alive, TypeOK, judgeVars
<1>5. ASSUME NEW s \in Sandboxes, Callback(s) PROVE StopKills'
  <2>1. /\ UNCHANGED <<proc, countedCpuTime, timeout>>
        /\ \A t \in Sandboxes \ {s} :
             cancelled'[t] = cancelled[t] /\ (t \in killed' <=> t \in killed)
        /\ \/ UNCHANGED <<killed, cancelled>>
           \/ cancelled'[s] /\ killed' = killed \union ({s} \intersect Alive)
    BY <1>0, <1>5, CallbackFrame
  <2>2. QED
    BY <1>0, <2>1 DEF Alive
<1>6. ASSUME NEW s \in Sandboxes, TickThrows(s) \/ ExceedMemory(s)
      PROVE  StopKills'
  BY <1>1, <1>6 DEF TickThrows, ExceedMemory, judgeVars
<1>7. ASSUME NEW s \in Sandboxes, Waits(s) \/ EndsSomehow(s) PROVE StopKills'
  <2>1. /\ UNCHANGED <<killed, cancelled, timeout, countedCpuTime>>
        /\ \A t \in Sandboxes : proc'[t] = "alive" => proc[t] = "alive"
    BY <1>0, <1>7, WaitsFrame, EndsFrame
  <2>2. QED
    BY <1>1, <2>1
<1>8. CASE TakeWorker \/ Advance
  BY <1>1, <1>8 DEF TakeWorker, Advance, judgeVars, NextWorker
<1>9. CASE NodeExit
  BY <1>0, <1>9 DEF NodeExit, Stop, ExitListeners, judgeVars
<1>10. QED
  BY <1>2, <1>3, <1>4, <1>5, <1>6, <1>7, <1>8, <1>9, RunCases

\* The set of waiting sandboxes changes by one sandbox at a time, in step with
\* its promise.
Waiting == Range(queue) \union working \union Range(done)

LEMMA PoolStep == ASSUME RInv, Next PROVE OneWorkerEach'
<1> USE DEF judgeVars, kernelVars, poolVars
<1>0. /\ TypeOK /\ NewInv /\ WorkerInv /\ OneWorkerEach
      /\ queue \in Seq(Sandboxes) /\ done \in Seq(Sandboxes)
      /\ Waiting \subseteq Sandboxes
  BY MembersType DEF RInv, TypeOK, Waiting
<1>1. ASSUME UNCHANGED <<poolVars, promise>>,
             \A s \in Sandboxes : proc'[s] = "none" <=> proc[s] = "none"
      PROVE  OneWorkerEach'
  BY ZenonT(60), <1>0, <1>1 DEF OneWorkerEach
<1>2. ASSUME NEW s \in Sandboxes, StartSandbox(s) PROVE OneWorkerEach'
  <2>1. /\ proc[s] = "none" /\ proc'[s] = "alive" /\ promise[s] = "pending"
        /\ \A t \in Sandboxes \ {s} : proc'[t] = proc[t]
        /\ queue' = Append(queue, s) /\ UNCHANGED <<working, done, promise>>
    BY <1>0, <1>2 DEF StartSandbox, TypeOK, NewInv
  <2>2. s \notin Waiting
    BY <1>0, <2>1 DEF OneWorkerEach, Waiting
  <2>3. IsInjective(queue') /\ Range(queue') = Range(queue) \union {s}
    BY <1>0, <2>1, <2>2, AppendUnique DEF OneWorkerEach, Waiting
  <2>4. QED
    BY <1>0, <2>1, <2>2, <2>3 DEF OneWorkerEach, Waiting
<1>3. ASSUME NEW s \in Sandboxes, Callback(s) PROVE OneWorkerEach'
  <2>1. /\ done # << >> /\ s = Head(done) /\ done' = Tail(done)
        /\ UNCHANGED <<queue, working, proc>>
        /\ \A t \in Sandboxes \ {s} : promise'[t] = promise[t]
    BY <1>0, <1>3, CallbackFrame
    DEF Callback, CallbackResult, CallbackReadThrows, CallbackCleanupThrows,
        CallbackError, Deliver
  <2>2. promise'[s] # "pending"
    <3>1. Classify(s) # "pending"
      BY DEF Classify
    <3>2. QED
      BY <1>3, <3>1, CallbackSettles
  <2>3. /\ IsInjective(done') /\ Range(done') = Range(done) \ {s}
        /\ s \in Range(done)
    BY <1>0, <2>1, TailUnique DEF OneWorkerEach
  <2>4. QED
    BY <1>0, <2>1, <2>2, <2>3 DEF OneWorkerEach
<1>4. ASSUME NEW s \in Sandboxes, Waits(s) PROVE OneWorkerEach'
  <2>1. /\ UNCHANGED <<promise, queue>>
        /\ s \in working /\ working' = working \ {s} /\ done' = Append(done, s)
        /\ \A t \in Sandboxes : proc'[t] = "none" <=> proc[t] = "none"
    BY <1>0, <1>4, WaitsFrame
  <2>2. s \notin Range(done)
    BY <1>0, <2>1 DEF OneWorkerEach
  <2>3. IsInjective(done') /\ Range(done') = Range(done) \union {s}
    BY <1>0, <2>1, <2>2, AppendUnique DEF OneWorkerEach
  <2>4. QED
    BY <1>0, <2>1, <2>2, <2>3 DEF OneWorkerEach
<1>5. CASE TakeWorker
  <2>1. /\ queue # << >> /\ queue' = Tail(queue)
        /\ working' = working \union {Head(queue)}
        /\ UNCHANGED <<done, proc, promise>>
    BY <1>5 DEF TakeWorker, NextWorker
  <2>2. /\ IsInjective(queue') /\ Range(queue') = Range(queue) \ {Head(queue)}
        /\ Head(queue) \in Range(queue)
    BY <1>0, <2>1, TailUnique DEF OneWorkerEach
  <2>3. QED
    BY <1>0, <2>1, <2>2 DEF OneWorkerEach
<1>6. ASSUME NEW s \in Sandboxes,
             Tick(s) \/ TickThrows(s) \/ UserStop(s) \/ ExceedMemory(s)
      PROVE  OneWorkerEach'
  BY <1>1, <1>6 DEF Tick, TickThrows, UserStop, ExceedMemory
<1>7. ASSUME NEW s \in Sandboxes, EndsSomehow(s) PROVE OneWorkerEach'
  <2>1. /\ UNCHANGED <<poolVars, promise>>
        /\ \A t \in Sandboxes : proc'[t] = "none" <=> proc[t] = "none"
    BY <1>0, <1>7, EndsFrame
  <2>2. QED
    BY <1>1, <2>1
<1>8. CASE Advance \/ NodeExit
  BY <1>1, <1>8 DEF Advance, NodeExit
<1>9. QED
  BY <1>2, <1>3, <1>4, <1>5, <1>6, <1>7, <1>8, RunCases

\* What the verdict is about no longer changes once it is given.
Evidence(s) == <<promise[s], s \in killed, cpu[s], countedCpuTime[s], end[s],
                 s \in overMem>>

LEMMA VerdictStable ==
  ASSUME RInv, Next, NEW s \in Sandboxes, promise[s] \in Statuses, ~ Callback(s)
  PROVE  UNCHANGED Evidence(s)
<1> USE DEF Evidence
<1>0. TypeOK /\ WorkerInv /\ proc[s] = "reaped" /\ ~ timer[s]
  BY DEF RInv, SettledInv
<1> DEFINE Same == UNCHANGED <<promise, killed, cpu, countedCpuTime, end, overMem>>
<1>1. ASSUME Same PROVE UNCHANGED Evidence(s)
  BY <1>1
<1>2. ASSUME NEW t \in Sandboxes, StartSandbox(t) \/ TickThrows(t)
      PROVE  UNCHANGED Evidence(s)
  BY <1>1, <1>2 DEF StartSandbox, TickThrows, kernelVars, clockVars
<1>3. ASSUME NEW t \in Sandboxes, Tick(t) PROVE UNCHANGED Evidence(s)
  <2>1. t # s /\ UNCHANGED <<promise, cpu, end, overMem>>
    BY <1>0, <1>3 DEF Tick, kernelVars, judgeVars, Charge, Stop
  <2>2. countedCpuTime'[s] = countedCpuTime[s]
    BY <1>3, <2>1, TickCharge
  <2>3. s \in killed' <=> s \in killed
    BY <1>0, <1>3 DEF Tick, Stop, Alive, judgeVars, Charge
  <2>4. QED
    BY <2>1, <2>2, <2>3
<1>4. ASSUME NEW t \in Sandboxes, UserStop(t) PROVE UNCHANGED Evidence(s)
  <2>1. UNCHANGED <<promise, cpu, countedCpuTime, end, overMem>>
    BY <1>4 DEF UserStop, kernelVars, clockVars, judgeVars, Stop
  <2>2. s \in killed' <=> s \in killed
    BY <1>0, <1>4 DEF UserStop, Stop, Alive, judgeVars
  <2>3. QED
    BY <2>1, <2>2
<1>5. ASSUME NEW t \in Sandboxes, Callback(t) PROVE UNCHANGED Evidence(s)
  <2>1. t # s
    BY <1>5
  <2>2. /\ UNCHANGED <<cpu, countedCpuTime, end, overMem>>
        /\ promise'[s] = promise[s] /\ (s \in killed' <=> s \in killed)
    BY <1>0, <1>5, <2>1, CallbackFrame DEF kernelVars
  <2>3. QED
    BY <2>2
<1>6. ASSUME NEW t \in Sandboxes, Waits(t) PROVE UNCHANGED Evidence(s)
  BY <1>0, <1>1, <1>6, WaitsFrame DEF clockVars
<1>7. ASSUME NEW t \in Sandboxes, EndsSomehow(t) PROVE UNCHANGED Evidence(s)
  <2>1. /\ UNCHANGED <<promise, killed, cpu, countedCpuTime, overMem>>
        /\ t # s /\ end'[s] = end[s]
    BY <1>0, <1>7, EndsFrame DEF clockVars
  <2>2. QED
    BY <2>1
<1>8. ASSUME NEW t \in Sandboxes, ExceedMemory(t) PROVE UNCHANGED Evidence(s)
  <2>1. /\ UNCHANGED <<promise, killed, cpu, countedCpuTime, end>>
        /\ overMem' = overMem \union {t} /\ t # s
    BY <1>0, <1>8 DEF ExceedMemory, clockVars, judgeVars
  <2>2. QED
    BY <2>1
<1>9. CASE Advance
  <2>1. UNCHANGED <<promise, killed, countedCpuTime, end, overMem>>
    BY <1>9 DEF Advance, clockVars, judgeVars
  <2>2. cpu'[s] = cpu[s]
    BY <1>0, <1>9 DEF Advance, judgeVars
  <2>3. QED
    BY <2>1, <2>2
<1>10. CASE TakeWorker
  BY <1>1, <1>10 DEF TakeWorker, kernelVars, clockVars, judgeVars, NextWorker
<1>11. CASE NodeExit
  BY <1>1, <1>11 DEF NodeExit, Stop, ExitListeners, kernelVars, clockVars, judgeVars
<1>12. QED
  BY <1>2, <1>3, <1>4, <1>5, <1>6, <1>7, <1>8, <1>9, <1>10, <1>11, RunCases

\* The evidence the classification looks at, with what the flags imply.
LEMMA ClassifySound ==
  ASSUME RInv, NEW s \in Sandboxes, proc[s] = "reaped", answer[s] = end[s],
         answer[s] # "error"
  PROVE  /\ Classify(s) \in {"OK", "RuntimeError", "MemoryLimitExceeded"} =>
              /\ s \notin killed
              /\ cpu[s] <= TimeLimit[s]
              /\ countedCpuTime[s] <= TimeLimit[s]
              /\ end[s] \in {"exited", "signaled"}
         /\ Classify(s) = "OK" => end[s] = "exited" /\ s \notin overMem
         /\ Classify(s) = "RuntimeError" => end[s] = "signaled"
<1>1. /\ cpu[s] \in Nat /\ TimeLimit[s] \in Int
      /\ end[s] \in {"exited", "signaled"}
  BY RunAssumption DEF RInv, TypeOK, AnswerInv
<1>2. /\ s \in killed => cancelled[s]
      /\ TimeLimit[s] # -1 /\ ~ timeout[s] => countedCpuTime[s] <= TimeLimit[s]
  BY DEF RInv, FlagInv
<1>3. ASSUME ~ timeout[s], ~ (cpu[s] > TimeLimit[s]), ~ cancelled[s]
      PROVE  /\ s \notin killed /\ cpu[s] <= TimeLimit[s]
             /\ countedCpuTime[s] <= TimeLimit[s]
  <2>1. cpu[s] <= TimeLimit[s] /\ TimeLimit[s] # -1
    BY <1>1, <1>3
  <2>2. QED
    BY <1>2, <1>3, <2>1
<1>4. QED
  BY <1>1, <1>3 DEF Classify

LEMMA VerdictStep == ASSUME RInv, Next PROVE VerdictJustified'
<1>1. ASSUME NEW s \in Sandboxes, Callback(s), promise'[s] \in Statuses
      PROVE  /\ promise'[s] = Classify(s)
             /\ UNCHANGED <<killed, cpu, countedCpuTime, end, overMem>>
             /\ proc[s] = "reaped" /\ answer[s] = end[s] /\ answer[s] # "error"
  <2>1. "rejected" \notin Statuses
    BY DEF Statuses
  <2>2. UNCHANGED <<cpu, countedCpuTime, end, overMem>>
    BY <1>1, CallbackFrame DEF RInv, kernelVars
  <2>3. QED
    BY <1>1, <2>1, <2>2, CallbackSettles
<1>2. ASSUME NEW s \in Sandboxes, promise'[s] \in Statuses, ~ Callback(s)
      PROVE  promise[s] \in Statuses
  <2>1. ASSUME NEW t \in Sandboxes, Callback(t) PROVE promise'[s] = promise[s]
    <3>1. t # s
      BY <1>2, <2>1
    <3>2. QED
      BY <2>1, <3>1, CallbackFrame DEF RInv
  <2>2. ASSUME NEW t \in Sandboxes,
               \/ StartSandbox(t) \/ Tick(t) \/ TickThrows(t) \/ UserStop(t)
               \/ ExceedMemory(t)
        PROVE  promise' = promise
    BY <2>2 DEF StartSandbox, Tick, TickThrows, UserStop, ExceedMemory, judgeVars, Charge, Stop
  <2>3. ASSUME NEW t \in Sandboxes, Waits(t) \/ EndsSomehow(t)
        PROVE  promise' = promise
    BY <2>3, WaitsFrame, EndsFrame DEF RInv
  <2>4. CASE TakeWorker \/ Advance \/ NodeExit
    BY <1>2, <2>4 DEF TakeWorker, Advance, NodeExit, judgeVars, NextWorker, Stop
  <2>5. QED
    BY <1>2, <2>1, <2>2, <2>3, <2>4, RunCases
<1>3. ASSUME NEW s \in Sandboxes, promise'[s] \in Statuses, ~ Callback(s)
      PROVE  UNCHANGED Evidence(s)
  BY <1>2, <1>3, VerdictStable
<1>4. ASSUME NEW s \in Sandboxes
      PROVE /\ promise'[s] \in {"OK", "RuntimeError", "MemoryLimitExceeded"} =>
                 /\ s \notin killed'
                 /\ cpu'[s] <= TimeLimit[s]
                 /\ countedCpuTime'[s] <= TimeLimit[s]
                 /\ end'[s] \in {"exited", "signaled"}
            /\ promise'[s] = "OK" => end'[s] = "exited" /\ s \notin overMem'
            /\ promise'[s] = "RuntimeError" => end'[s] = "signaled"
  <2>1. CASE promise'[s] \notin Statuses
    BY <2>1 DEF Statuses
  <2>2. CASE promise'[s] \in Statuses /\ Callback(s)
    BY <1>1, <2>2, ClassifySound
  <2>3. CASE promise'[s] \in Statuses /\ ~ Callback(s)
    BY <1>3, <2>3 DEF Evidence, RInv, VerdictJustified
  <2>4. QED
    BY <2>1, <2>2, <2>3
<1>5. QED
  BY <1>4 DEF VerdictJustified

-----------------------------------------------------------------------------
(***************************************************************************)
(* The theorems.                                                           *)
(***************************************************************************)

LEMMA RunInit == ASSUME Init PROVE RInv
<1>1. TypeOK
  BY RunInitType
<1>2. WorkerInv /\ AnswerInv
  BY DEF Init, WorkerInv, AnswerInv, Range
<1>3. /\ NewInv /\ SettledInv /\ TickFindsGroup /\ StopKills
      /\ VerdictJustified
  BY DEF Init, NewInv, SettledInv, TickFindsGroup, StopKills,
     VerdictJustified, Statuses
<1>4. CounterInv /\ FlagInv
  BY RunAssumption DEF Init, CounterInv, FlagInv
<1>5. ChargeBounds
  BY DEF Init, ChargeBounds, ElapsedShare
<1>6. OneWorkerEach
  BY DEF Init, OneWorkerEach, IsInjective, Range
<1>7. QED
  BY <1>1, <1>2, <1>3, <1>4, <1>5, <1>6 DEF RInv

LEMMA RunStutter == ASSUME RInv, UNCHANGED vars PROVE RInv'
<1> USE DEF vars, judgeVars, kernelVars, poolVars, clockVars, flagVars
<1>1. TypeOK' /\ NewInv' /\ CounterInv' /\ FlagInv' /\ SettledInv'
  BY DEF RInv, TypeOK, NewInv, CounterInv, FlagInv, SettledInv
<1>2. WorkerInv' /\ AnswerInv'
  BY DEF RInv, WorkerInv, AnswerInv, Range
<1>3. /\ TickFindsGroup' /\ ChargeBounds' /\ StopKills' /\ VerdictJustified'
  BY DEF RInv, TickFindsGroup, ChargeBounds, StopKills, Alive,
     VerdictJustified
<1>4. OneWorkerEach'
  BY DEF RInv, OneWorkerEach
<1>5. QED
  BY <1>1, <1>2, <1>3, <1>4 DEF RInv

\* The strengthened invariant holds in every reachable state.
LEMMA RunInvariant == Spec => []RInv
<1>1. RInv /\ [Next]_vars => RInv'
  BY RunTypeStep, NewStep, WorkerStep, AnswerStep, CounterStep, FlagStep,
     SettledStep, GroupStep, ChargeStep, StopStep, VerdictStep, PoolStep,
     RunStutter
  DEF RInv
<1>2. QED
  BY RunInit, <1>1, PTL DEF Spec

\* Type correctness of the life of any number of sandboxes: every variable of
\* sandboxProcess.ts and of the pool stays in its range.
THEOREM RunTypeCorrect == Spec => []TypeOK
<1>1. RInv => TypeOK
  BY DEF RInv
<1>2. QED
  BY RunInvariant, <1>1, PTL

\* The interval never fires on a cgroup the judge has removed
\* (checkIfTimedOut, cleanup).
THEOREM TickSafe == Spec => []TickFindsGroup
<1>1. RInv => TickFindsGroup
  BY DEF RInv
<1>2. QED
  BY RunInvariant, <1>1, PTL

\* The time charged to a program lies between its CPU time and 40% of its
\* elapsed time on one side and their sum on the other (checkIfTimedOut).
THEOREM ChargeBounded == Spec => []ChargeBounds
<1>1. RInv => ChargeBounds
  BY DEF RInv
<1>2. QED
  BY RunInvariant, <1>1, PTL

\* OK, RuntimeError and MemoryLimitExceeded are about a program the judge left
\* alone and that kept its time limit (the classification after waitForProcess).
THEOREM VerdictCorrect == Spec => []VerdictJustified
<1>1. RInv => VerdictJustified
  BY DEF RInv
<1>2. QED
  BY RunInvariant, <1>1, PTL

\* A started sandbox that has not settled has exactly one worker: none is lost
\* and none is run twice, whatever the size of the pool (NodeWaitForProcess).
THEOREM WorkersKept == Spec => []OneWorkerEach
<1>1. RInv => OneWorkerEach
  BY DEF RInv
<1>2. QED
  BY RunInvariant, <1>1, PTL

-----------------------------------------------------------------------------
(***************************************************************************)
(* Supervision.                                                            *)
(***************************************************************************)

\* A sandbox that has not settled has its timer, and a promise that settles over
\* a process that runs has stopped it.
WatchInv ==
  \A s \in Sandboxes :
    /\ proc[s] # "none" /\ promise[s] = "pending" /\ s \in Limited => timer[s]
    /\ proc[s] = "alive" /\ promise[s] # "pending" => cancelled[s]

LEMMA WatchStep == ASSUME RInv, WatchInv, Next PROVE WatchInv'
<1> USE DEF WatchInv, TypeOK, kernelVars, flagVars
<1>0. TypeOK /\ WorkerInv /\ NewInv
  BY DEF RInv
<1>1. ASSUME UNCHANGED <<proc, promise, timer, cancelled>> PROVE WatchInv'
  BY <1>1
<1>2. ASSUME NEW s \in Sandboxes, StartSandbox(s) PROVE WatchInv'
  <2>1. /\ UNCHANGED <<promise, cancelled>>
        /\ promise[s] = "pending" /\ timer'[s] = (s \in Limited)
        /\ \A t \in Sandboxes \ {s} : proc'[t] = proc[t] /\ timer'[t] = timer[t]
    BY <1>0, <1>2 DEF StartSandbox, NewInv
  <2>2. QED
    BY <2>1
<1>3. ASSUME NEW s \in Sandboxes, Tick(s) \/ UserStop(s) PROVE WatchInv'
  <2>1. UNCHANGED <<proc, promise, timer>>
    BY <1>3 DEF Tick, UserStop
  <2>2. \A t \in Sandboxes : cancelled[t] => cancelled'[t]
    BY ZenonT(60), <1>3 DEF Tick, UserStop, Stop
  <2>3. QED
    BY <2>1, <2>2
<1>4. ASSUME NEW s \in Sandboxes, Callback(s) PROVE WatchInv'
  <2>1. /\ proc' = proc
        /\ \A t \in Sandboxes \ {s} :
             /\ promise'[t] = promise[t] /\ timer'[t] = timer[t]
             /\ cancelled'[t] = cancelled[t]
    BY <1>0, <1>4, CallbackFrame
  <2>2. promise'[s] # "pending"
    <3>1. Classify(s) # "pending"
      BY DEF Classify
    <3>2. QED
      BY <1>0, <1>4, <3>1
      DEF Callback, CallbackResult, CallbackReadThrows, CallbackCleanupThrows, CallbackError
  <2>3. proc[s] = "alive" => cancelled'[s]
    <3>1. CASE CallbackError(s)
      BY <1>0, <3>1 DEF CallbackError, Stop
    <3>2. CASE ~ CallbackError(s)
      <4>1. answer[s] # "error" /\ s \in Range(done)
        BY <1>0, <1>4, <3>2, CallbackFrame
        DEF Callback, CallbackResult, CallbackReadThrows, CallbackCleanupThrows
      <4>2. QED
        BY <4>1 DEF RInv, AnswerInv
    <3>3. QED
      BY <3>1, <3>2
  <2>4. QED
    BY <2>1, <2>2, <2>3
<1>5. ASSUME NEW s \in Sandboxes, Waits(s) \/ EndsSomehow(s) PROVE WatchInv'
  <2>1. /\ UNCHANGED <<promise, timer, cancelled>>
        /\ \A t \in Sandboxes :
             /\ proc'[t] = "alive" => proc[t] = "alive"
             /\ proc'[t] # "none" => proc[t] # "none"
    BY <1>0, <1>5, WaitsFrame, EndsFrame
  <2>2. QED
    BY <2>1
<1>6. ASSUME NEW s \in Sandboxes, TickThrows(s) \/ ExceedMemory(s) PROVE WatchInv'
  BY <1>1, <1>6 DEF TickThrows, ExceedMemory, judgeVars
<1>7. CASE TakeWorker \/ Advance
  BY <1>1, <1>7 DEF TakeWorker, Advance, judgeVars, NextWorker
<1>8. CASE NodeExit
  BY <1>0, <1>8 DEF NodeExit, Stop, ExitListeners, judgeVars
<1>9. QED
  BY <1>2, <1>3, <1>4, <1>5, <1>6, <1>7, <1>8, RunCases

\* What a program that nobody kills has used by the last tick.
LEMMA WithinLimit ==
  ASSUME RInv, NEW s \in Sandboxes, s \in Limited, timer[s], ~ timeout[s]
  PROVE  /\ actualCpuTime[s] <= TimeLimit[s]
         /\ ElapsedShare * lastCheck[s] <= TimeLimit[s]
<1>1. /\ actualCpuTime[s] \in Int /\ countedCpuTime[s] \in Int /\ TimeLimit[s] \in Int
      /\ lastCheck[s] \in Int
  BY RunAssumption DEF RInv, TypeOK
<1>2. countedCpuTime[s] <= TimeLimit[s]
  BY DEF RInv, FlagInv, Limited
<1>3. /\ countedCpuTime[s] >= actualCpuTime[s]
      /\ countedCpuTime[s] >= ElapsedShare * lastCheck[s]
  BY DEF RInv, ChargeBounds
<1>4. QED
  BY <1>1, <1>2, <1>3 DEF ElapsedShare

\* No program is left alone by the judge, and none that nobody kills is over
\* its limit by more than the time since the last tick (checkIfTimedOut, the
\* callback of waitForProcess).
THEOREM AllSupervised == Spec => []Supervised
<1>1. Init => WatchInv
  BY DEF Init, WatchInv
<1>2. RInv /\ WatchInv /\ [Next]_vars => WatchInv'
  BY WatchStep DEF WatchInv, vars, judgeVars, kernelVars, flagVars
<1>3. RInv /\ WatchInv => Supervised
  <2> SUFFICES ASSUME RInv, WatchInv, NEW s \in Alive \ killed
               PROVE  /\ ~ cancelled[s] /\ ~ timeout[s]
                      /\ promise[s] = "pending"
                      /\ s \in Limited =>
                           /\ timer[s]
                           /\ actualCpuTime[s] <= TimeLimit[s]
                           /\ ElapsedShare * lastCheck[s] <= TimeLimit[s]
    BY DEF Supervised
  <2>1. s \in Sandboxes /\ proc[s] = "alive" /\ s \notin killed
    BY DEF Alive
  <2>2. ~ cancelled[s] /\ ~ timeout[s]
    BY <2>1 DEF RInv, StopKills
  <2>3. promise[s] = "pending" /\ (s \in Limited => timer[s])
    BY <2>1, <2>2 DEF WatchInv
  <2>4. QED
    BY <2>1, <2>2, <2>3, WithinLimit
<1>4. QED
  BY RunInvariant, <1>1, <1>2, <1>3, PTL DEF Spec

-----------------------------------------------------------------------------
(***************************************************************************)
(* Every step is a step of RunningSandboxes or changes nothing there.      *)
(***************************************************************************)

Judging   == IF node = "up" THEN "up" ELSE "down"
Programs  == [s \in Sandboxes |-> CASE proc[s] = "none"  -> "none"
                                   [] proc[s] = "alive" -> "running"
                                   [] OTHER             -> "ended"]
Stopping  == {s \in Sandboxes : cancelled[s]}

Seen == <<Judging, Programs, Stopping, promise>>

LEMMA SeenVars == UNCHANGED Seen => UNCHANGED Promised!vars
BY DEF Promised!vars, Seen, Judging, Programs, Stopping

LEMMA PromisedSteps ==
  ASSUME NEW s \in Sandboxes
  PROVE  /\ Promised!Start(s) <=>
              /\ Judging = "up" /\ Programs[s] = "none"
              /\ Programs' = [Programs EXCEPT ![s] = "running"]
              /\ UNCHANGED <<Judging, Stopping, promise>>
         /\ Promised!Stop(s) <=>
              /\ Judging = "up" /\ Programs[s] # "none"
              /\ Stopping' = Stopping \union {s}
              /\ UNCHANGED <<Judging, Programs, promise>>
         /\ Promised!End(s) <=>
              /\ Programs[s] = "running"
              /\ Programs' = [Programs EXCEPT ![s] = "ended"]
              /\ UNCHANGED <<Judging, Stopping, promise>>
         /\ Promised!Down <=>
              /\ Judging = "up" /\ Judging' = "down"
              /\ UNCHANGED <<Programs, Stopping, promise>>
BY DEF Promised!Start, Promised!Stop, Promised!End, Promised!Down, Judging,
       Programs, Stopping

LEMMA CallbackRefines ==
  ASSUME RInv, NEW s \in Sandboxes, Callback(s)
  PROVE  Promised!Judge(s) \/ Promised!Reject(s)
<1> USE DEF Judging, Programs, Stopping
<1>1. /\ TypeOK /\ WorkerInv /\ Classify(s) \in Statuses
  BY DEF RInv, Classify, Statuses
<1>2. /\ proc' = proc /\ node' = node /\ node = "up"
      /\ s \in Range(done) /\ proc[s] # "none"
      /\ \A t \in Sandboxes \ {s} : cancelled'[t] = cancelled[t]
  <2>1. node = "up" /\ UNCHANGED kernelVars
    BY <1>1, CallbackFrame
    DEF Callback, CallbackResult, CallbackReadThrows, CallbackCleanupThrows,
        CallbackError, Deliver
  <2>2. QED
    BY <1>1, <2>1, CallbackFrame DEF kernelVars
<1>3. promise[s] = "pending"
  BY <1>2 DEF RInv, OneWorkerEach
<1>4. promise' = [promise EXCEPT ![s] = promise'[s]]
  BY <1>1
  DEF Callback, CallbackResult, CallbackReadThrows, CallbackCleanupThrows,
      CallbackError, TypeOK
<1>5. CASE promise'[s] = "rejected"
  <2>1. Stopping' \in {Stopping, Stopping \union {s}}
    <3>1. CASE cancelled'[s] = cancelled[s]
      BY <1>2, <3>1
    <3>2. CASE cancelled'[s] # cancelled[s]
      <4>1. cancelled'[s]
        BY <1>1, <3>2, CallbackFrame
      <4>2. QED
        BY <1>2, <4>1
    <3>3. QED
      BY <3>1, <3>2
  <2>2. proc[s] = "alive" => cancelled'[s]
    <3>1. CASE CallbackError(s)
      BY <1>1, <3>1 DEF CallbackError, Stop
    <3>2. CASE ~ CallbackError(s)
      <4>1. answer[s] # "error"
        BY <3>2 DEF Callback, CallbackResult, CallbackReadThrows, CallbackCleanupThrows
      <4>2. proc[s] = "reaped"
        BY <1>2, <4>1 DEF RInv, AnswerInv
      <4>3. QED
        BY <4>2
    <3>3. QED
      BY <3>1, <3>2
  <2>3. Programs[s] = "running" => s \in Stopping'
    BY <2>2
  <2>4. QED
    BY <1>2, <1>3, <1>4, <1>5, <2>1, <2>3 DEF Promised!Reject
<1>6. CASE promise'[s] # "rejected"
  <2>1. /\ promise'[s] = Classify(s) /\ UNCHANGED cancelled /\ proc[s] = "reaped"
    BY <1>6, CallbackSettles
  <2>2. Classify(s) \in Promised!Verdicts(s)
    BY DEF Classify, Promised!Verdicts
  <2>3. Programs[s] = "ended"
    BY <2>1
  <2>4. QED
    BY <1>2, <1>3, <1>4, <2>1, <2>2, <2>3 DEF Promised!Judge
<1>7. QED
  BY <1>5, <1>6

LEMMA StepRefines == ASSUME RInv, Next PROVE Promised!Next \/ UNCHANGED Seen
<1> USE DEF judgeVars, kernelVars
<1>0. TypeOK /\ NewInv /\ WorkerInv
  BY DEF RInv
<1>1. ASSUME UNCHANGED <<node, proc, cancelled, promise>> PROVE UNCHANGED Seen
  BY <1>1 DEF Seen, Judging, Programs, Stopping
<1>2. ASSUME NEW s \in Sandboxes, StartSandbox(s) PROVE Promised!Start(s)
  <2>1. /\ node = "up" /\ UNCHANGED <<node, cancelled, promise>>
        /\ proc[s] = "none" /\ proc'[s] = "alive"
        /\ \A t \in Sandboxes \ {s} : proc'[t] = proc[t]
    BY <1>0, <1>2 DEF StartSandbox, TypeOK
  <2>2. Programs' = [Programs EXCEPT ![s] = "running"] /\ Programs[s] = "none"
    BY <2>1 DEF Programs
  <2>3. Judging = "up" /\ UNCHANGED <<Judging, Stopping, promise>>
    BY <2>1 DEF Judging, Stopping
  <2>4. QED
    BY <2>2, <2>3, PromisedSteps
<1>3. ASSUME NEW s \in Sandboxes, node = "up", proc[s] # "none",
             cancelled' = [cancelled EXCEPT ![s] = TRUE],
             UNCHANGED <<node, proc, promise>>
      PROVE  Promised!Stop(s)
  <2>1. Stopping' = Stopping \union {s}
    BY <1>0, <1>3 DEF Stopping, TypeOK
  <2>2. Programs[s] # "none"
    BY <1>3 DEF Programs
  <2>3. Judging = "up" /\ UNCHANGED <<Judging, Programs, promise>>
    BY <1>3 DEF Judging, Programs
  <2>4. QED
    BY <2>1, <2>2, <2>3, PromisedSteps
<1>4. ASSUME NEW s \in Sandboxes, Tick(s)
      PROVE  Promised!Stop(s) \/ UNCHANGED Seen
  <2>1. /\ node = "up" /\ proc[s] # "none" /\ UNCHANGED <<node, proc, promise>>
    BY <1>0, <1>4 DEF Tick, NewInv
  <2>2. cancelled' = [cancelled EXCEPT ![s] = TRUE] \/ UNCHANGED cancelled
    BY <1>0, <1>4, TickFlags
  <2>3. QED
    BY <1>1, <1>3, <2>1, <2>2
<1>5. ASSUME NEW s \in Sandboxes, UserStop(s) PROVE Promised!Stop(s)
  <2>1. cancelled' = [cancelled EXCEPT ![s] = TRUE]
    BY ZenonT(60), <1>0, <1>5 DEF UserStop, Stop, TypeOK
  <2>2. QED
    BY <1>3, <1>5, <2>1 DEF UserStop
<1>6. ASSUME NEW s \in Sandboxes, EndsSomehow(s) PROVE Promised!End(s)
  <2>1. /\ UNCHANGED <<node, cancelled, promise>>
        /\ proc[s] = "alive" /\ proc'[s] = "zombie"
        /\ \A t \in Sandboxes \ {s} : proc'[t] = proc[t]
    BY <1>0, <1>6, EndsFrame DEF flagVars
  <2>2. QED
    <3>1. Programs' = [Programs EXCEPT ![s] = "ended"] /\ Programs[s] = "running"
      BY <2>1 DEF Programs
    <3>2. UNCHANGED <<Judging, Stopping, promise>>
      BY <2>1 DEF Judging, Stopping
    <3>3. QED
      BY <3>1, <3>2, PromisedSteps
<1>7. ASSUME NEW s \in Sandboxes, Waits(s) PROVE UNCHANGED Seen
  <2>1. /\ UNCHANGED <<node, cancelled, promise>>
        /\ \A t \in Sandboxes \ {s} : proc'[t] = proc[t]
        /\ \/ proc'[s] = proc[s]
           \/ proc[s] = "zombie" /\ proc'[s] = "reaped"
    BY ZenonT(60), <1>0, <1>7, WaitsFrame DEF flagVars
  <2>2. Programs' = Programs
    BY <2>1 DEF Programs
  <2>3. QED
    BY <2>1, <2>2 DEF Seen, Judging, Stopping
<1>8. ASSUME node = "up", node' # "up", UNCHANGED <<proc, cancelled, promise>>
      PROVE  Promised!Down
  BY <1>8 DEF Promised!Down, Judging, Programs, Stopping
<1>9. CASE NodeExit
  <2>1. cancelled' = cancelled
    BY ZenonT(60), <1>0, <1>9 DEF NodeExit, Stop, ExitListeners, TypeOK
  <2>2. Promised!Down
    BY <1>8, <1>9, <2>1 DEF NodeExit
  <2>3. QED
    BY <2>2 DEF Promised!Next
<1>10. ASSUME NEW s \in Sandboxes, TickThrows(s) PROVE Promised!Down
  BY <1>8, <1>10 DEF TickThrows, flagVars
<1>11. ASSUME NEW s \in Sandboxes, ExceedMemory(s) PROVE UNCHANGED Seen
  BY <1>1, <1>11 DEF ExceedMemory, flagVars
<1>12. CASE TakeWorker \/ Advance
  BY <1>1, <1>12 DEF TakeWorker, NextWorker, Advance, flagVars
<1>13. QED
  BY <1>2, <1>4, <1>5, <1>6, <1>7, <1>9, <1>10, <1>11, <1>12,
     CallbackRefines, RunCases DEF Promised!Next

\* Any number of sandboxes on a pool of any size behave as RunningSandboxes:
\* each promise settles once, on evidence about its own process
\* (the SandboxProcess constructor and its callback).
THEOREM RunRefinement == Spec => Promised!SafeSpec
<1>1. Init => Promised!Init
  BY DEF Init, Promised!Init
<1>2. RInv /\ [Next]_vars => [Promised!Next]_(Promised!vars)
  <2>1. ASSUME UNCHANGED vars PROVE UNCHANGED Seen
    BY <2>1 DEF vars, judgeVars, kernelVars, flagVars, Seen, Judging, Programs, Stopping
  <2>2. QED
    BY <2>1, SeenVars, StepRefines
<1>3. QED
  BY RunInvariant, <1>1, <1>2, PTL DEF Spec, Promised!SafeSpec

\* So the promises of any number of sandboxes on any pool settle once and rightly:
\* a verdict is about a process that is gone, and nobody runs on unattended
\* (the SandboxProcess constructor and its callback).
THEOREM PromisesKept == Spec => []Promised!SettledRightly /\ Promised!Settling
  BY RunRefinement, Promised!SettledOnce, PTL

=============================================================================
