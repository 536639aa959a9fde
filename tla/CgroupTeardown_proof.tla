------------------------ MODULE CgroupTeardown_proof ------------------------
(***************************************************************************)
(* The safety properties of CgroupTeardown for every set of tasks, every   *)
(* table of mounts and every content of the files.                         *)
(*                                                                         *)
(* Which tasks there are when the first was waited for is all that         *)
(* RemovalAsAssumed needs: none, so the lists that are read are empty,     *)
(* nobody is signalled, and the directories go one after another until one *)
(* that two controllers share is visited again.  MemoryMeasured rests on   *)
(* the invariant of the loop over memory.stat: the map holds the first of  *)
(* the lines of a name, and only the last line read may have been bad.     *)
(***************************************************************************)
EXTENDS CgroupTeardown, TLAPS

Before  == {"wait", "usage", "stat", "cpu", "stop", "readThrew"}
\* The directories that are left when those of the controllers before k are gone,
\* and whether those of the first k are different.
DirsFrom(k) == {Dir(j) : j \in 1..3} \ {Dir(j) : j \in 1..(k - 1)}
Apart(k)    == \A i, j \in 1..k : Dir(i) = Dir(j) => i = j

AllDirsBefore == pc \in Before => c = 1 /\ list = {} /\ dirs = DirsFrom(1)
NobodyLeft    == reaped => alive = {} /\ list = {} /\ pc # "wait"
OneByOne ==
  reaped =>
    /\ pc \in {"list", "kill"} => dirs = DirsFrom(c)
    /\ pc = "list" => Apart(c - 1)
    /\ pc = "kill" => Apart(c)
    /\ pc = "removeThrew" => \E k \in 1..(c - 1) : Dir(k) = Dir(c)
    /\ pc = "done" => Apart(3) /\ dirs = {}

\* RemovalAsAssumed is not inductive: the next directory is there unless an
\* earlier controller had it, and nobody may be left to be listed.
IInv ==
  /\ c \in 1..3
  /\ AllDirsBefore
  /\ NobodyLeft
  /\ OneByOne

\* The directories are where they were as long as the mounts are.
LEMMA DirsStay ==
  ASSUME mounts' = mounts
  PROVE  /\ \A k : Dir(k)' = Dir(k)
         /\ \A k : DirsFrom(k)' = DirsFrom(k)
         /\ \A k : Apart(k)' <=> Apart(k)
<1>1. ASSUME NEW k PROVE Dir(k)' = Dir(k)
  BY Zenon DEF Dir
<1>2. ASSUME NEW k PROVE DirsFrom(k)' = DirsFrom(k)
  BY <1>1, Zenon DEF DirsFrom
<1>3. ASSUME NEW k PROVE Apart(k)' <=> Apart(k)
  BY <1>1, Zenon DEF Apart
<1>4. QED BY <1>1, <1>2, <1>3

\* The directory of the c-th controller is gone exactly when an earlier one had
\* it, and what is left when it is removed.
LEMMA DirsAfter ==
  ASSUME c \in 1..3
  PROVE  /\ Dir(c) \in DirsFrom(c) <=> ~ \E k \in 1..(c - 1) : Dir(k) = Dir(c)
         /\ Apart(c - 1) /\ Dir(c) \in DirsFrom(c) => Apart(c)
         /\ c < 3 => DirsFrom(c) \ {Dir(c)} = DirsFrom(c + 1)
         /\ c = 3 => DirsFrom(c) \ {Dir(c)} = {}
<1>1. Dir(c) \in DirsFrom(c) <=> ~ \E k \in 1..(c - 1) : Dir(k) = Dir(c)
  BY DEF DirsFrom
<1>2. ASSUME Apart(c - 1), Dir(c) \in DirsFrom(c) PROVE Apart(c)
  <2>1. \A k \in 1..(c - 1) : Dir(k) # Dir(c)
    BY <1>1, <1>2
  <2>2. \A i \in 1..c : i = c \/ i \in 1..(c - 1)
    OBVIOUS
  <2>3. QED BY <1>2, <2>1, <2>2, Zenon DEF Apart
<1>3. ASSUME c < 3 PROVE DirsFrom(c) \ {Dir(c)} = DirsFrom(c + 1)
  <2>1. 1..((c + 1) - 1) = 1..(c - 1) \union {c}
    OBVIOUS
  <2>2. QED BY <2>1, Zenon DEF DirsFrom
<1>4. ASSUME c = 3 PROVE DirsFrom(c) \ {Dir(c)} = {}
  BY <1>4 DEF DirsFrom
<1>5. QED BY <1>1, <1>2, <1>3, <1>4

LEMMA InitInv == Init => IInv
<1> SUFFICES ASSUME Init PROVE IInv
  OBVIOUS
<1>1. DirsFrom(1) = {Dir(k) : k \in 1..3}
  BY DEF DirsFrom
<1>2. QED
  BY <1>1 DEF Init, IInv, AllDirsBefore, NobodyLeft, OneByOne, Before

\* A step of a task, which forks or exits.
LEMMA TaskStep ==
  ASSUME IInv, NEW p, Fork(p) \/ Exit(p)
  PROVE  IInv'
<1>1. mounts' = mounts /\ UNCHANGED <<dirs, reaped, pc, c, list>>
  BY DEF Fork, Exit, fileVars
<1>2. reaped => alive' = {}
  BY DEF Fork, Exit, IInv, NobodyLeft
<1>3. QED
  BY <1>1, <1>2, DirsStay DEF IInv, AllDirsBefore, NobodyLeft, OneByOne

\* The end of the wait, the reads before cleanup, and stop().
LEMMA StepBefore ==
  ASSUME IInv, WaitReturns \/ WaitThrows \/ ReadUsage \/ ReadLine \/ ReadCache \/ ReadCpuUsage
               \/ ReadThrows \/ Stop
  PROVE  IInv'
<1>1. mounts' = mounts /\ UNCHANGED <<dirs, alive, c, list>>
  BY DEF WaitReturns, WaitThrows, ReadUsage, ReadLine, ReadCache, ReadCpuUsage, ReadThrows,
         Stop, Goto, fileVars, taskVars
<1>2. pc \in Before /\ pc' \in (Before \ {"wait"}) \union {"list"}
  BY DEF WaitReturns, WaitThrows, ReadUsage, ReadLine, ReadCache, ReadCpuUsage, ReadThrows,
         Stop, Goto, Before
<1>3. reaped' => alive = {}
  BY DEF WaitReturns, Waitable, WaitThrows, ReadUsage, ReadLine, ReadCache, ReadCpuUsage,
         ReadThrows, Stop, Goto, IInv, NobodyLeft
<1>4. Apart(0) /\ 1 - 1 = 0
  BY DEF Apart
<1>5. QED
  BY <1>1, <1>2, <1>3, <1>4, DirsStay
     DEF IInv, AllDirsBefore, NobodyLeft, OneByOne, Before

\* The tasks file of a directory that is there is empty.
LEMMA ListStep ==
  ASSUME IInv, ListTasks
  PROVE  IInv'
<1>1. mounts' = mounts /\ UNCHANGED <<dirs, alive, reaped, c>> /\ pc = "list"
  BY DEF ListTasks, fileVars, taskVars
<1>2. reaped => list' = {}
  BY DEF ListTasks, IInv, NobodyLeft
<1>3. reaped =>
        /\ pc' = "kill" => Apart(c)
        /\ pc' = "removeThrew" => \E k \in 1..(c - 1) : Dir(k) = Dir(c)
  BY <1>1, DirsAfter DEF ListTasks, IInv, OneByOne
<1>4. pc' \in {"kill", "removeThrew"}
  BY DEF ListTasks
<1>5. QED
  BY <1>1, <1>2, <1>3, <1>4, DirsStay
     DEF IInv, AllDirsBefore, NobodyLeft, OneByOne, Before

\* Signals are only sent while the first process was not waited for.
LEMMA KillStep ==
  ASSUME IInv, NEW p, KillNext(p) \/ KillThrows(p)
  PROVE  IInv'
<1>1. mounts' = mounts /\ UNCHANGED <<dirs, alive, reaped, c>>
  BY DEF KillNext, KillThrows, fileVars, taskVars
<1>2. ~ reaped
  BY DEF KillNext, KillThrows, IInv, NobodyLeft
<1>3. pc' \in {"kill", "removeThrew"}
  BY DEF KillNext, KillThrows
<1>4. QED
  BY <1>1, <1>2, <1>3 DEF IInv, AllDirsBefore, NobodyLeft, OneByOne, Before

\* The directory goes, and the next one's turn comes.
LEMMA RmdirStep ==
  ASSUME IInv, Rmdir
  PROVE  IInv'
<1>1. mounts' = mounts /\ UNCHANGED <<alive, reaped, list>> /\ pc = "kill"
  BY DEF Rmdir, fileVars, taskVars
<1>2. c' \in 1..3 /\ pc' \in {"list", "done"}
  BY DEF Rmdir, Continue, IInv
<1>3. CASE reaped
  <2>1. dirs' = DirsFrom(c) \ {Dir(c)} /\ Apart(c)
    BY <1>1, <1>3 DEF Rmdir, IInv, NobodyLeft, OneByOne
  <2>2. CASE c < 3
    <3>1. dirs' = DirsFrom(c') /\ pc' = "list" /\ c' - 1 = c
      BY <2>1, <2>2, DirsAfter DEF Rmdir, Continue, IInv
    <3>2. QED
      BY <2>1, <3>1, <1>1, <1>2, DirsStay
         DEF IInv, AllDirsBefore, NobodyLeft, OneByOne, Before
  <2>3. CASE c = 3
    <3>1. dirs' = {} /\ pc' = "done"
      BY <2>1, <2>3, DirsAfter DEF Rmdir, Continue, IInv
    <3>2. QED
      BY <2>1, <2>3, <3>1, <1>1, <1>2, DirsStay
         DEF IInv, AllDirsBefore, NobodyLeft, OneByOne, Before
  <2>4. QED BY <2>2, <2>3 DEF IInv
<1>4. CASE ~ reaped
  BY <1>1, <1>2, <1>4 DEF IInv, AllDirsBefore, NobodyLeft, OneByOne, Before
<1>5. QED BY <1>3, <1>4

LEMMA StepInv == IInv /\ [Next]_vars => IInv'
<1> SUFFICES ASSUME IInv, [Next]_vars PROVE IInv'
  OBVIOUS
<1>1. CASE UNCHANGED vars
  <2>1. mounts' = mounts /\ UNCHANGED <<dirs, alive, reaped, pc, c, list>>
    BY <1>1 DEF vars, fileVars, taskVars
  <2>2. QED
    BY <2>1, DirsStay DEF IInv, AllDirsBefore, NobodyLeft, OneByOne
<1>2. CASE WaitReturns \/ WaitThrows \/ ReadUsage \/ ReadLine \/ ReadCache \/ ReadCpuUsage
           \/ ReadThrows \/ Stop
  BY <1>2, StepBefore
<1>3. CASE ListTasks
  BY <1>3, ListStep
<1>4. CASE Rmdir
  BY <1>4, RmdirStep
<1>5. CASE \E p \in Tasks : Fork(p) \/ Exit(p)
  BY <1>5, TaskStep
<1>6. CASE \E p \in Tasks : KillNext(p) \/ KillThrows(p)
  BY <1>6, KillStep
<1>7. QED
  BY <1>1, <1>2, <1>3, <1>4, <1>5, <1>6 DEF Next, Callback

\* Cleanup after a process that was waited for signals nobody, and removes every
\* directory unless two controllers share one: then, and only then, it throws
\* (cgroup.cc:106-114, 195-209, sandboxProcess.ts:99-115).
THEOREM Removal == Spec => []RemovalAsAssumed
<1>1. IInv => RemovalAsAssumed
  BY DEF IInv, NobodyLeft, OneByOne, RemovalAsAssumed, Apart, DistinctDirs
<1>2. QED
  BY InitInv, StepInv, <1>1, PTL DEF Spec

-----------------------------------------------------------------------------
(***************************************************************************)
(* Types.                                                                  *)
(***************************************************************************)

\* What TypeOK says of the tasks and of the reading of memory.stat.
TasksType ==
  /\ alive \subseteq Tasks /\ unborn \subseteq Tasks /\ alive \intersect unborn = {}
  /\ doomed \subseteq alive
  /\ list \subseteq Tasks
StatType ==
  /\ line \in 0..Len(stat) /\ \A name \in DOMAIN map : map[name] \in Int
  /\ memUsage \in Int

\* The lines of a file.
LEMMA StatLines ==
  ASSUME stat \in StatFiles
  PROVE  /\ Len(stat) \in Nat
         /\ \A k \in 1..Len(stat) : stat[k].val \in Int
<1> DEFINE Line == [name : STRING, val : Int, good : BOOLEAN]
<1>1. stat \in Seq(Line)
  BY TeardownAssumption
<1>2. \A l \in Line : l.val \in Int
  OBVIOUS
<1> HIDE DEF Line
<1>3. Len(stat) \in Nat /\ \A k \in 1..Len(stat) : stat[k] \in Line
  BY <1>1
<1>4. QED BY <1>2, <1>3

LEMMA InitTyped == Init => TypeOK
<1> SUFFICES ASSUME Init PROVE TypeOK
  OBVIOUS
<1>1. /\ mounts \in MountTables /\ stat \in StatFiles /\ usage \in Usages
      /\ dirs = {Dir(k) : k \in 1..3}
      /\ pc = "wait" /\ c = 1 /\ reaped = FALSE /\ err = FALSE
  BY DEF Init
<1>2. TasksType
  BY TeardownAssumption DEF Init, TasksType
<1>3. StatType
  BY <1>1, StatLines DEF Init, StatType
<1>4. dirs \subseteq {Dir(k) : k \in 1..3}
  BY <1>1, Zenon
<1>5. /\ pc \in {"wait", "usage", "stat", "cpu", "stop", "list", "kill"} \union Final
      /\ reaped \in BOOLEAN /\ err \in BOOLEAN
  BY <1>1, Zenon
<1>6. c \in 1..3
  BY <1>1
<1>7. QED
  BY <1>1, <1>2, <1>3, <1>4, <1>5, <1>6, Zenon DEF TypeOK, TasksType, StatType

LEMMA TasksTyped == TypeOK /\ [Next]_vars => TasksType'
<1> SUFFICES ASSUME TypeOK, [Next]_vars PROVE TasksType'
  OBVIOUS
<1> USE DEF TypeOK, TasksType
<1>1. CASE \E p \in Tasks : Fork(p) \/ Exit(p)
  BY <1>1 DEF Fork, Exit, Zapped
<1>2. CASE \E p \in Tasks : KillNext(p) \/ KillThrows(p)
  BY <1>2 DEF KillNext, KillThrows, taskVars
<1>3. CASE Stop
  BY <1>3 DEF Stop, Stopped, taskVars
<1>4. CASE ListTasks
  BY <1>4 DEF ListTasks, taskVars
<1>5. CASE WaitReturns \/ WaitThrows \/ ReadUsage \/ ReadLine \/ ReadCache
           \/ ReadCpuUsage \/ ReadThrows \/ Rmdir \/ UNCHANGED vars
  BY <1>5 DEF WaitReturns, WaitThrows, ReadUsage, ReadLine, ReadCache, ReadCpuUsage,
              ReadThrows, Goto, Rmdir, taskVars, vars
<1>6. QED
  BY <1>1, <1>2, <1>3, <1>4, <1>5 DEF Next, Callback

\* Only three actions touch what was read.
LEMMA StatKept ==
  ASSUME [Next]_vars, ~ ReadUsage, ~ ReadLine, ~ ReadCache
  PROVE  UNCHANGED <<stat, usage, loopVars, memUsage>>
<1>1. CASE UNCHANGED vars
  BY <1>1 DEF vars, fileVars
<1>2. CASE \E p \in Tasks : Fork(p) \/ Exit(p) \/ KillThrows(p) \/ KillNext(p)
  BY <1>2 DEF Fork, Exit, KillThrows, KillNext, fileVars
<1>3. CASE WaitReturns \/ WaitThrows \/ ReadCpuUsage \/ ReadThrows \/ Stop
           \/ ListTasks \/ Rmdir
  BY <1>3 DEF WaitReturns, WaitThrows, ReadCpuUsage, ReadThrows, Goto, Stop,
              ListTasks, Rmdir, fileVars
<1>4. QED
  BY <1>1, <1>2, <1>3 DEF Next, Callback

\* A line that is stored: a name that is there already keeps its value.
LEMMA LineStored ==
  ASSUME ReadLine
  PROVE  LET l == stat[line + 1]
         IN  /\ DOMAIN map' = DOMAIN map \union {l.name}
             /\ \A name \in DOMAIN map : map'[name] = map[name]
             /\ l.name \notin DOMAIN map => map'[l.name] = IF l.good THEN l.val ELSE 0
             /\ line' = line + 1 /\ MoreLines
             /\ UNCHANGED <<stat, usage, memUsage, pc, err>>
<1> DEFINE name == stat[line + 1].name
           val  == IF stat[line + 1].good THEN stat[line + 1].val ELSE 0
<1>1. map' = Insert(name, val) /\ line' = line + 1 /\ MoreLines
      /\ UNCHANGED <<stat, usage, memUsage, pc, err>>
  BY DEF ReadLine, fileVars
<1> HIDE DEF name, val
<1>2. /\ DOMAIN map' = DOMAIN map \union {name}
      /\ \A x \in DOMAIN map : map'[x] = map[x]
      /\ name \notin DOMAIN map => map'[name] = val
  BY <1>1 DEF Insert
<1>3. QED
  BY <1>1, <1>2, Zenon DEF name, val

LEMMA StatTyped == TypeOK /\ [Next]_vars => StatType'
<1> SUFFICES ASSUME TypeOK, [Next]_vars PROVE StatType'
  OBVIOUS
<1>1. /\ Len(stat) \in Nat /\ line \in 0..Len(stat) /\ usage \in Int
      /\ \A k \in 1..Len(stat) : stat[k].val \in Int
  BY StatLines, TeardownAssumption DEF TypeOK
<1>2. CASE ReadUsage
  BY <1>1, <1>2 DEF ReadUsage, Goto, fileVars, loopVars, TypeOK, StatType
<1>3. CASE ReadLine
  <2>1. line < Len(stat)
    BY <1>3, LineStored DEF MoreLines
  <2>2. stat[line + 1].val \in Int
    BY <1>1, <2>1
  <2>3. \A name \in DOMAIN map' : map'[name] \in Int
    BY <1>3, <2>2, LineStored DEF TypeOK
  <2>4. QED
    BY <1>1, <1>3, <2>1, <2>3, LineStored DEF TypeOK, StatType
<1>4. CASE ReadCache
  <2>1. Cache \in Int
    BY DEF Cache, TypeOK
  <2>2. QED
    BY <1>1, <1>4, <2>1 DEF ReadCache, Goto, fileVars, loopVars, TypeOK, StatType
<1>5. CASE ~ ReadUsage /\ ~ ReadLine /\ ~ ReadCache
  BY <1>5, StatKept DEF loopVars, TypeOK, StatType
<1>6. QED
  BY <1>2, <1>3, <1>4, <1>5

LEMMA StepTyped == TypeOK /\ [Next]_vars => TypeOK'
<1> SUFFICES ASSUME TypeOK, [Next]_vars PROVE TypeOK'
  OBVIOUS
<1> DEFINE Rest ==
      /\ UNCHANGED fileVars
      /\ dirs' \subseteq dirs
      /\ reaped' \in BOOLEAN /\ err' \in BOOLEAN
      /\ pc' \in {"wait", "usage", "stat", "cpu", "stop", "list", "kill"} \union Final
      /\ c' \in 1..3
<1>1. ASSUME UNCHANGED vars PROVE Rest
  BY <1>1 DEF vars, TypeOK
<1>2. ASSUME NEW p \in Tasks, Fork(p) \/ Exit(p) \/ KillThrows(p) \/ KillNext(p)
      PROVE  Rest
  BY <1>2 DEF Fork, Exit, KillThrows, KillNext, TypeOK, Final
<1>3. ASSUME WaitReturns \/ WaitThrows \/ ReadUsage \/ ReadLine \/ ReadCache
             \/ ReadCpuUsage \/ ReadThrows \/ Stop \/ ListTasks
      PROVE  Rest
  BY <1>3 DEF WaitReturns, WaitThrows, ReadUsage, ReadLine, ReadCache, ReadCpuUsage,
              ReadThrows, Goto, Stop, ListTasks, TypeOK, Final
<1>4. ASSUME Rmdir PROVE Rest
  BY <1>4 DEF Rmdir, Continue, TypeOK, Final
<1>5. Rest
  BY <1>1, <1>2, <1>3, <1>4 DEF Next, Callback
<1>6. \A k : Dir(k)' = Dir(k)
  BY <1>5, DirsStay DEF fileVars
<1>7. dirs' \subseteq {Dir(k) : k \in 1..3}'
  BY <1>5, <1>6 DEF TypeOK
<1>8. TasksType' /\ StatType'
  BY TasksTyped, StatTyped
<1>9. QED
  BY <1>5, <1>7, <1>8 DEF TypeOK, TasksType, StatType, fileVars

\* Every variable stays in its range.
THEOREM TeardownTyped == Spec => []TypeOK
  BY InitTyped, StepTyped, PTL DEF Spec

-----------------------------------------------------------------------------
(***************************************************************************)
(* The loop over memory.stat.                                              *)
(***************************************************************************)

\* x is the first of the lines up to l that hold the cache.
FirstCache(x, last) ==
  /\ x \in 1..last /\ stat[x].name = "cache"
  /\ \A y \in 1..(x - 1) : stat[y].name # "cache"

\* Whatever was read, the map holds the first line of that name.
MapInv ==
  /\ \A x \in 1..(line - 1) : stat[x].good
  /\ \A x \in 1..line : stat[x].name \in DOMAIN map
  /\ "cache" \in DOMAIN map =>
       \E x \in 1..line :
         FirstCache(x, line) /\ map["cache"] = IF stat[x].good THEN stat[x].val ELSE 0

ReadInv ==
  /\ MapInv
  /\ pc \in {"wait", "usage"} => line = 0 /\ ~ err
  /\ pc = "stop" => err
  /\ pc = "stat" => memUsage = usage
  /\ MemoryMeasured

LEMMA InitRead == Init => ReadInv
  BY DEF Init, ReadInv, MapInv, MemoryMeasured

\* Before the loop the map is empty, and in it the lines are read in order.
LEMMA MapStep == TypeOK /\ ReadInv /\ [Next]_vars => MapInv'
<1> SUFFICES ASSUME TypeOK, ReadInv, [Next]_vars PROVE MapInv'
  OBVIOUS
<1>1. Len(stat) \in Nat /\ line \in 0..Len(stat)
  BY StatLines DEF TypeOK
<1>2. CASE ReadLine
  <2> DEFINE l == stat[line + 1]
  <2>1. line' = line + 1 /\ line' \in 1..Len(stat) /\ stat' = stat
    BY <1>1, <1>2, LineStored DEF MoreLines
  <2>2. \A x \in 1..(line' - 1) : stat'[x].good
    BY <1>1, <1>2, <2>1, LineStored DEF MoreLines, ReadInv, MapInv
  <2>3. /\ DOMAIN map' = DOMAIN map \union {l.name}
        /\ \A name \in DOMAIN map : map'[name] = map[name]
        /\ l.name \notin DOMAIN map => map'[l.name] = IF l.good THEN l.val ELSE 0
    BY <1>2, LineStored, Zenon
  <2>4. \A x \in 1..line' : stat'[x].name \in DOMAIN map'
    <3> SUFFICES ASSUME NEW x \in 1..line' PROVE stat[x].name \in DOMAIN map'
      BY <2>1
    <3>1. CASE x = line + 1
      BY <3>1, <2>3
    <3>2. CASE x \in 1..line
      BY <3>2, <2>3 DEF ReadInv, MapInv
    <3>3. QED BY <1>1, <2>1, <3>1, <3>2
  <2>5. ASSUME "cache" \in DOMAIN map'
        PROVE  \E x \in 1..line' :
                 /\ FirstCache(x, line)'
                 /\ map'["cache"] = IF stat'[x].good THEN stat'[x].val ELSE 0
    <3>1. CASE "cache" \in DOMAIN map
      <4>1. PICK x \in 1..line :
              FirstCache(x, line) /\ map["cache"] = IF stat[x].good THEN stat[x].val ELSE 0
        BY <3>1 DEF ReadInv, MapInv
      <4>2. x \in 1..line' /\ FirstCache(x, line)'
        BY <1>1, <2>1, <4>1 DEF FirstCache
      <4>3. map'["cache"] = map["cache"]
        BY <2>3, <3>1, Zenon
      <4>4. QED BY <4>1, <4>2, <4>3, <2>1, Zenon
    <3>2. CASE "cache" \notin DOMAIN map
      <4>1. l.name = "cache"
        BY <2>3, <2>5, <3>2, Zenon
      <4>2. \A y \in 1..line : stat[y].name # "cache"
        BY <3>2 DEF ReadInv, MapInv
      <4>3. \A z : z = line + 1 => z \in 1..line' /\ FirstCache(z, line)'
        BY <1>1, <2>1, <4>1, <4>2 DEF FirstCache
      <4>4. map'["cache"] = IF l.good THEN l.val ELSE 0
        BY <2>3, <3>2, <4>1, Zenon
      <4>5. QED BY <4>3, <4>4, <2>1, Zenon
    <3>3. QED BY <3>1, <3>2
  <2>6. QED BY <2>2, <2>4, <2>5 DEF MapInv
<1>3. CASE ~ ReadLine
  <2>1. UNCHANGED <<stat, line, map>>
    BY <1>3, StatKept DEF ReadUsage, ReadCache, Goto, fileVars, loopVars
  <2>2. QED BY <2>1 DEF ReadInv, MapInv, FirstCache
<1>4. QED BY <1>2, <1>3

\* When the loop ends, what the map says of the cache is what the file says.
LEMMA CacheRead ==
  ASSUME TypeOK, MapInv, ~ MoreLines
  PROVE  LET hits  == {x \in 1..Len(stat) : stat[x].name = "cache"
                                            /\ \A y \in 1..x : stat[y].good}
             first == {x \in hits : \A y \in 1..(x - 1) : stat[y].name # "cache"}
         IN  /\ \A x \in first : Cache = stat[x].val
             /\ first = {} => Cache = 0
<1> DEFINE hits  == {x \in 1..Len(stat) : stat[x].name = "cache"
                                          /\ \A y \in 1..x : stat[y].good}
           first == {x \in hits : \A y \in 1..(x - 1) : stat[y].name # "cache"}
<1>1. Len(stat) \in Nat /\ line \in 0..Len(stat)
  BY StatLines DEF TypeOK
<1>2. line = Len(stat) \/ (line > 0 /\ ~ stat[line].good)
  BY <1>1 DEF MoreLines
<1>3. ASSUME NEW x \in first PROVE Cache = stat[x].val
  <2>1. x \in 1..line
    BY <1>1, <1>2
  <2>2. "cache" \in DOMAIN map
    BY <2>1 DEF MapInv
  <2>3. PICK z \in 1..line :
          FirstCache(z, line) /\ map["cache"] = IF stat[z].good THEN stat[z].val ELSE 0
    BY <2>2 DEF MapInv
  <2>4. z = x
    BY <1>1, <2>1, <2>3 DEF FirstCache
  <2>5. stat[x].good
    BY <1>1
  <2>6. QED BY <2>2, <2>3, <2>4, <2>5 DEF Cache
<1>4. ASSUME first = {} PROVE Cache = 0
  <2>1. CASE "cache" \in DOMAIN map
    <3>1. PICK z \in 1..line :
            FirstCache(z, line) /\ map["cache"] = IF stat[z].good THEN stat[z].val ELSE 0
      BY <2>1 DEF MapInv
    <3>2. ~ stat[z].good
      <4>1. SUFFICES ASSUME stat[z].good PROVE z \in first
        BY <1>4
      <4>2. \A y \in 1..z : stat[y].good
        BY <1>1, <4>1 DEF MapInv
      <4>3. QED BY <1>1, <3>1, <4>2 DEF FirstCache
    <3>3. QED BY <2>1, <3>1, <3>2 DEF Cache
  <2>2. CASE "cache" \notin DOMAIN map
    BY <2>2 DEF Cache
  <2>3. QED BY <2>1, <2>2
<1>5. QED BY <1>3, <1>4

\* The places where the memory was computed, unless the wait failed.
Measured == {"cpu", "list", "kill", "removeThrew", "done"}

LEMMA MemoryStep == TypeOK /\ ReadInv /\ [Next]_vars => MemoryMeasured'
<1> SUFFICES ASSUME TypeOK, ReadInv, [Next]_vars, pc' \in Measured, ~ err'
             PROVE  MemoryMeasured'
  BY DEF MemoryMeasured, Measured
<1>1. CASE ReadCache
  <2>1. memUsage = usage /\ memUsage' = memUsage - Cache /\ UNCHANGED <<stat, usage>>
    BY <1>1 DEF ReadCache, Goto, fileVars, ReadInv
  <2>2. usage \in Int /\ Cache \in Int
    BY TeardownAssumption DEF TypeOK, Cache
  <2>3. ~ MoreLines
    BY <1>1 DEF ReadCache
  <2>4. \A C : memUsage' = usage - C /\ C = 0 => memUsage' = usage
    BY <2>2
  <2>5. QED
    BY <2>1, <2>2, <2>3, CacheRead DEF ReadInv, MemoryMeasured
<1>2. CASE ~ ReadCache
  <2>1. ~ ReadUsage /\ ~ ReadLine
    BY DEF ReadUsage, ReadLine, Goto, Measured, ReadInv
  <2>2. UNCHANGED <<stat, usage, memUsage>>
    BY <1>2, <2>1, StatKept
  <2>3. pc \in Measured /\ ~ err
    BY <1>2, <2>1 DEF Next, Callback, WaitReturns, WaitThrows, ReadCpuUsage, ReadThrows,
       Goto, Stop, ListTasks, Rmdir, Continue, KillNext, KillThrows, Fork, Exit, vars, Measured,
       ReadInv
  <2>4. QED BY <2>2, <2>3 DEF ReadInv, MemoryMeasured, Measured
<1>3. QED BY <1>1, <1>2

LEMMA StepRead == TypeOK /\ ReadInv /\ [Next]_vars => ReadInv'
<1> SUFFICES ASSUME TypeOK, ReadInv, [Next]_vars PROVE ReadInv'
  OBVIOUS
<1> DEFINE Rest ==
      /\ pc' \in {"wait", "usage"} => line' = 0 /\ ~ err'
      /\ pc' = "stop" => err'
      /\ pc' = "stat" => memUsage' = usage'
<1>1. ASSUME UNCHANGED vars PROVE Rest
  BY <1>1 DEF vars, fileVars, loopVars, ReadInv
<1>2. ASSUME NEW p, Fork(p) \/ Exit(p) \/ KillThrows(p) \/ KillNext(p) PROVE Rest
  BY <1>2 DEF Fork, Exit, KillThrows, KillNext, fileVars, loopVars, ReadInv
<1>3. ASSUME WaitReturns \/ WaitThrows \/ ReadUsage \/ ReadLine PROVE Rest
  BY <1>3 DEF WaitReturns, WaitThrows, ReadUsage, ReadLine, Goto, fileVars, loopVars,
              ReadInv
<1>4. ASSUME ReadCache \/ ReadCpuUsage \/ ReadThrows \/ Stop \/ ListTasks \/ Rmdir PROVE Rest
  BY <1>4 DEF ReadCache, ReadCpuUsage, ReadThrows, Goto, Stop, ListTasks, Rmdir,
              Continue, fileVars, loopVars, ReadInv
<1>5. Rest
  BY <1>1, <1>2, <1>3, <1>4 DEF Next, Callback
<1>6. QED BY <1>5, MapStep, MemoryStep DEF ReadInv

\* The memory reported is the peak less the first value of cache in
\* memory.stat, or the peak when reading ends before one (cgroup.cc:177-193,
\* sandboxProcess.ts:64-66).
THEOREM MemoryReported == Spec => []MemoryMeasured
<1>1. TypeOK /\ ReadInv /\ [Next]_vars => (TypeOK /\ ReadInv)'
  BY StepTyped, StepRead
<1>2. ReadInv => MemoryMeasured
  BY DEF ReadInv
<1>3. QED
  BY InitTyped, InitRead, <1>1, <1>2, PTL DEF Spec

-----------------------------------------------------------------------------
(***************************************************************************)
(* Nobody is at large.                                                     *)
(***************************************************************************)

\* All that is left when the first task is gone is about to be killed, at any
\* time: this is what lets stop() leave the others alone.
Orphaned == Root \notin alive => alive \subseteq doomed

Past == {"usage", "stat", "cpu", "list", "kill"} \union Final

LargeInv ==
  /\ Orphaned
  /\ pc \in Past => Root \notin alive \/ Root \in doomed

LEMMA InitLarge == Init => LargeInv
  BY DEF Init, LargeInv, Orphaned, Past, Final

\* Only the first task's presence lets others fork, and its exit dooms them.
LEMMA TaskLarge ==
  ASSUME LargeInv, NEW p, Fork(p) \/ Exit(p)
  PROVE  LargeInv'
  BY DEF Fork, Exit, Zapped, LargeInv, Orphaned

\* A step of the callback only dooms more, and it gets past stop() by signalling
\* the first task or by waiting for it.
LEMMA CallbackLarge ==
  ASSUME LargeInv, WaitReturns \/ WaitThrows \/ Callback \/ ReadThrows
                   \/ \E p \in Tasks : KillThrows(p)
  PROVE  LargeInv'
<1>1. UNCHANGED alive /\ doomed \subseteq doomed'
  BY DEF WaitReturns, WaitThrows, Callback, ReadUsage, ReadLine, ReadCache, ReadCpuUsage,
         ReadThrows, Goto, Stop, ListTasks, Rmdir, KillNext, KillThrows, taskVars
<1>2. Orphaned'
  BY <1>1 DEF LargeInv, Orphaned
<1>3. CASE WaitReturns
  BY <1>2, <1>3 DEF WaitReturns, Waitable, taskVars, LargeInv
<1>4. CASE Stop
  BY <1>2, <1>4 DEF Stop, Stopped, taskVars, LargeInv
<1>5. CASE ~ WaitReturns /\ ~ Stop
  <2>1. pc' \in Past => pc \in Past
    BY <1>5 DEF WaitThrows, Callback, ReadUsage, ReadLine, ReadCache, ReadCpuUsage,
       ReadThrows, Goto, ListTasks, Rmdir, Continue, KillNext, KillThrows, Past, Final
  <2>2. QED BY <1>1, <1>2, <2>1 DEF LargeInv
<1>6. QED BY <1>3, <1>4, <1>5

LEMMA StepLarge == LargeInv /\ [Next]_vars => LargeInv'
<1> SUFFICES ASSUME LargeInv, [Next]_vars PROVE LargeInv'
  OBVIOUS
<1>1. CASE UNCHANGED vars
  BY <1>1 DEF vars, taskVars, LargeInv, Orphaned
<1>2. CASE Next
  BY <1>2, TaskLarge, CallbackLarge DEF Next
<1>3. QED BY <1>1, <1>2

\* From stop(), or the return of waitpid, on every task dies without being
\* listed (sandboxProcess.ts:55-60, sandbox.cc:302).
THEOREM NobodyLarge == Spec => []NobodyAtLarge
<1>1. LargeInv => NobodyAtLarge
  BY DEF LargeInv, Orphaned, Past, NobodyAtLarge
<1>2. QED
  BY InitLarge, StepLarge, <1>1, PTL DEF Spec

=============================================================================
