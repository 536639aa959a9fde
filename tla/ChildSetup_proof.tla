-------------------------- MODULE ChildSetup_proof --------------------------
(***************************************************************************)
(* The set-up of the child, proved for every set of parameters: any number *)
(* of mounts, any streams, any limits.                                     *)
(*                                                                         *)
(* Every property of the end state depends on what each earlier step has   *)
(* or has not yet done, so the invariant SInv says it for every position.  *)
(***************************************************************************)
EXTENDS ChildSetup, TLAPS

\* The mounts asked for at place p among the first n.
Asked(p, n) == { m \in 1..n : HostPath[js.mounts[m].dst] = p }

\* Place p is read-only as the last of the first n requests for it says.
LastWins(p, n) ==
  IF Asked(p, n) = {} THEN tree[p]
  ELSE \E m \in Asked(p, n) :
         /\ \A l \in Asked(p, n) : l <= m
         /\ tree[p] = (Int32Value(js.mounts[m].limit) = 0)

\* A stream that RedirectIO has dealt with.
Done(i) == \/ /\ js.stdio[i].type = "number" /\ js.stdio[i].num < i
              /\ fds[i] = fds[js.stdio[i].num]
           \/ fds[i] = Requested(i, Root)

\* The position at which this child redirects its streams.
RedirectPos == IF js.redirectBeforeChroot THEN 3 ELSE 10

PosInv ==
  /\ pos # 6 => k <= 3
  /\ k > 1 => pos \in {6, RedirectPos}
  /\ pos = 6 => k <= Len(js.mounts) + 1

MountInv ==
  /\ pos > 1 => parameter.limits = [n \in 1..Len(js.mounts) |->
                                      Int32Value(js.mounts[n].limit)]
  /\ pos > 4 => private
  /\ ~ leaked
  /\ pos <= 5 => DOMAIN tree = {}
  /\ pos > 5 => "/" \in DOMAIN tree
  /\ pos = 6 => \A p \in DOMAIN tree : LastWins(p, k - 1)
  /\ pos > 6 => \A p \in DOMAIN tree : LastWins(p, Len(js.mounts))

PlaceInv ==
  /\ root = IF pos <= 7 THEN "host" ELSE "sandbox"
  /\ cwd  = IF pos <= 8 THEN "node" ELSE "working"
  /\ pos > 13 => core = 0

CredInv ==
  /\ cred.uid    = IF pos <= 16 THEN Root ELSE User
  /\ cred.gid    = IF pos <= 14 THEN Root ELSE User
  /\ cred.groups = IF pos <= 15 THEN {Root} ELSE {User}

StreamInv ==
  /\ pos > 1 => /\ parameter.stdio = [i \in Stdio |-> Redirection(js.stdio[i])]
                /\ parameter.memory = HeadRoom(js.memory)
  /\ pos < RedirectPos => fds = [n \in OpenFds |-> Given(n)]
  /\ pos = RedirectPos =>
       /\ \A i \in Stdio : i < k - 1 => Done(i)
       /\ k > 2 /\ parameter.stdio[1].fd = -1 => fds[1] = Requested(1, Root)
       /\ \A n \in OpenFds : n \notin Stdio \/ n >= k - 1 => fds[n] = Given(n)
  /\ pos > RedirectPos => \A i \in Stdio : Done(i)

SInv == TypeOK /\ PosInv /\ MountInv /\ PlaceInv /\ CredInv /\ StreamInv

-----------------------------------------------------------------------------
\* Which step a position stands for.
LEMMA Positions ==
  ASSUME pos \in 1..Len(Order)
  PROVE  /\ Len(Order) = 17
         /\ At("convert")        => pos = 1
         /\ At("null")           => pos = 2
         /\ At("redirectBefore") => pos = 3
         /\ At("private")        => pos = 4
         /\ At("root")           => pos = 5
         /\ At("mounts")         => pos = 6
         /\ At("chroot")         => pos = 7
         /\ At("chdir")          => pos = 8
         /\ At("proc")           => pos = 9
         /\ At("redirectAfter")  => pos = 10
         /\ At("hostname")       => pos = 11
         /\ At("stack")          => pos = 12
         /\ At("core")           => pos = 13
         /\ At("gid")            => pos = 14
         /\ At("groups")         => pos = 15
         /\ At("uid")            => pos = 16
         /\ At("ready")          => pos = 17
         /\ Order[17] = "ready"
<1>1. Len(Order) = 17
  BY DEF Order
<1>2. pos \in 1..17
  BY <1>1
<1> QED
  BY <1>1, <1>2 DEF Order, At

\* The low bits of a number, for the numbers they change and those they do not.
LEMMA LowBits ==
  /\ \A n \in Int : n % Int32Size \in 0..(Int32Size - 1)
  /\ \A n \in 0..(Int32Size - 1) : n % Int32Size = n
  /\ \A n \in Int : n + Int32Size \in 0..(Int32Size - 1)
                     => n % Int32Size = n + Int32Size
<1>0. Int32Size \in Nat \ {0}
  BY Int32Assumption
<1>1. \A n \in Int : n % Int32Size \in 0..(Int32Size - 1)
  BY <1>0, SMT
<1>2. \A n \in 0..(Int32Size - 1) : n % Int32Size = n
  BY <1>0, SMT
<1>3. \A n \in Int : n + Int32Size \in 0..(Int32Size - 1)
                     => n % Int32Size = n + Int32Size
  BY <1>0, SMT
<1> QED
  BY <1>1, <1>2, <1>3

\* Int32Value gives an integer (addon.cc:160).
LEMMA Int32Type == \A n \in Int : Int32Value(n) \in Int
<1>1. Int32Size \in Nat \ {0}
  BY Int32Assumption
<1> QED
  BY <1>1, LowBits, SMT DEF Int32Value

\* Int32Value changes no number that an int can hold (addon.cc:160).
LEMMA Int32Exact ==
  ASSUME NEW n \in Int, FitsInt32(n)
  PROVE  Int32Value(n) = n
<1>1. CASE n >= 0
  BY <1>1, Int32Assumption, LowBits, SMT DEF Int32Value, FitsInt32
<1>2. CASE n < 0
  BY <1>2, Int32Assumption, LowBits, SMT DEF Int32Value, FitsInt32
<1> QED
  BY <1>1, <1>2

\* Descriptors are small numbers, so they are converted exactly.
LEMMA DescriptorExact ==
  ASSUME NEW n \in OpenFds
  PROVE  Int32Value(n) = n
<1>1. n \in Int /\ n >= 0 /\ 2 * n < Int32Size /\ Int32Size \in Nat
  BY OpenFdsAssumption, Int32Assumption
<1>2. FitsInt32(n)
  BY <1>1, SMT DEF FitsInt32
<1> QED
  BY <1>1, <1>2, Int32Exact

\* The conversion of one stream keeps its range.
LEMMA RedirectionType ==
  ASSUME NEW v \in JsStream
  PROVE  Redirection(v) \in [fd : OpenFds \union {-1}, path : Paths]
<1>1. v.type = "number" => Int32Value(v.num) = v.num
  BY DescriptorExact DEF JsStream
<1> QED
  BY <1>1, PathsAssumption DEF Redirection, JsStream

\* C++ division of integers by a positive number gives an integer.
LEMMA HeadRoomType == \A m \in Int : HeadRoom(m) \in Int
BY SMT DEF HeadRoom, Quotient

\* The kernel's memory limit lies above the caller's from 16 bytes on, whatever
\* the limit (addon.cc:112).
THEOREM HeadRoomAlways ==
  ASSUME NEW m \in Int, m >= 16
  PROVE  Written(HeadRoom(m)) > m
BY SMT DEF Written, HeadRoom, Quotient

\* The JavaScript parameters have their type.
LEMMA JsType ==
  ASSUME js \in Parameters
  PROVE  /\ js \in JsParameter
         /\ js.stdio \in [Stdio -> JsStream]
         /\ js.mounts \in Seq(MountInfo)
         /\ Len(js.mounts) \in Nat
         /\ \A n \in 1..Len(js.mounts) : js.mounts[n].limit \in Int
         /\ js.memory \in Int /\ js.stackSize \in Int
         /\ js.redirectBeforeChroot \in BOOLEAN
         /\ js.mountProc \in BOOLEAN
<1>1. js \in JsParameter
  BY ParametersAssumption
<1>2. js.mounts \in Seq(MountInfo)
  BY <1>1 DEF JsParameter
<1>3. ASSUME NEW s \in Seq(MountInfo), NEW n \in 1..Len(s)
      PROVE  s[n].limit \in Int
  <2>1. s[n] \in MountInfo
    OBVIOUS
  <2> QED
    BY <2>1 DEF MountInfo
<1>4. \A n \in 1..Len(js.mounts) : js.mounts[n].limit \in Int
  BY <1>2, <1>3
<1> QED
  BY <1>1, <1>2, <1>4 DEF JsParameter

-----------------------------------------------------------------------------
LEMMA InitInv == Init => SInv
<1> SUFFICES ASSUME Init PROVE SInv
  OBVIOUS
<1>1. js \in JsParameter /\ Len(js.mounts) \in Nat
  BY JsType DEF Init
<1>2. TypeOK
  <2>1. fds \in [OpenFds -> Description]
    BY OpenFdsAssumption, PathsAssumption DEF Init, Given, Description
  <2>2. parameter \in [ stdio : [Stdio -> [fd : OpenFds \union {-1}, path : Paths]],
                        limits : Seq(Int), memory : Int,
                        stackSize : Nat \union {Inherited} ]
    BY PathsAssumption DEF Init
  <2>3. 1 \in 1..Len(Order)
    BY DEF Order
  <2>4. cred \in [uid : {Root, User}, gid : {Root, User}, groups : {{Root}, {User}}]
    BY DEF Init
  <2>5. /\ stack \in Nat \union {Unlimited, Inherited} /\ core \in {0, Inherited}
        /\ k \in Nat \ {0} /\ pos \in 1..Len(Order)
    BY <2>3 DEF Init
  <2> QED
    BY <2>1, <2>2, <2>4, <2>5 DEF TypeOK, Init
<1>3. PosInv /\ MountInv /\ PlaceInv /\ CredInv /\ StreamInv
  BY DEF Init, PosInv, MountInv, PlaceInv, CredInv, StreamInv, RedirectPos
<1> QED
  BY <1>2, <1>3 DEF SInv

-----------------------------------------------------------------------------
(***************************************************************************)
(* Each part of the invariant is preserved by every step.                  *)
(***************************************************************************)

LEMMA TypeStep == SInv /\ Next => TypeOK'
<1> SUFFICES ASSUME SInv, Next PROVE TypeOK'
  OBVIOUS
<1> USE DEF SInv, TypeOK, Advance
<1>0. /\ js \in JsParameter /\ js.mounts \in Seq(MountInfo)
      /\ js.stdio \in [Stdio -> JsStream]
      /\ js.memory \in Int /\ js.stackSize \in Int /\ js.mountProc \in BOOLEAN
  BY JsType
<1>1. /\ Len(Order) = 17 /\ pos \in 1..17
      /\ ~ At("ready") => (pos # 17 \/ failed)
  BY Positions DEF At
<1>2. CASE Convert
  <2>1. parameter'.stdio \in [Stdio -> [fd : OpenFds \union {-1}, path : Paths]]
    BY <1>0, <1>2, RedirectionType DEF Convert
  <2>2. parameter'.memory \in Int
    BY <1>0, <1>2, HeadRoomType DEF Convert
  <2>3. parameter'.stackSize \in Nat \union {Inherited}
    BY <1>0, <1>2 DEF Convert, Inherited
  <2>6. parameter'.limits \in Seq(Int)
    <3>1. parameter'.limits = [n \in 1..Len(js.mounts) |->
                                 Int32Value(js.mounts[n].limit)]
      BY <1>2 DEF Convert
    <3>2. \A n \in 1..Len(js.mounts) : js.mounts[n].limit \in Int
      BY JsType
    <3>3. \A n \in 1..Len(js.mounts) : Int32Value(js.mounts[n].limit) \in Int
      BY <3>2, Int32Type
    <3>4. Len(js.mounts) \in Nat
      BY <1>0
    <3> QED
      BY <3>1, <3>3, <3>4
  <2>4. parameter' \in [ stdio : [Stdio -> [fd : OpenFds \union {-1}, path : Paths]],
                         limits : Seq(Int), memory : Int,
                         stackSize : Nat \union {Inherited} ]
    BY <1>2, <2>1, <2>2, <2>3, <2>6 DEF Convert
  <2>5. pos' \in 1..Len(Order)
    BY <1>1, <1>2, Positions DEF Convert
  <2> QED
    BY <1>2, <2>4, <2>5 DEF Convert
<1>3. CASE Redirect
  <2>1. k - 1 \in Stdio /\ pos + 1 \in 1..17
    BY <1>1, <1>3, Positions DEF Redirect, Redirecting, PosInv, Stdio
  <2>2. SourceOf(k - 1) \in Description
    <3> DEFINE r == parameter.stdio[k - 1]
    <3>1. r \in [fd : OpenFds \union {-1}, path : Paths] /\ 1 \in OpenFds
      BY <2>1, OpenFdsAssumption DEF Stdio
    <3>2. Null \in Description
      BY PathsAssumption DEF Null, Description
    <3>3. File(k - 1, r.path, root, cwd, cred.uid) \in Description
      BY <2>1, <3>1 DEF File, Description, Stdio
    <3> QED
      BY <3>1, <3>2, <3>3 DEF SourceOf
  <2>3. fds' \in [OpenFds -> Description]
    BY <1>3, <2>1, <2>2 DEF Redirect
  <2>4. /\ k' \in {1, k + 1} /\ pos' \in {pos, pos + 1}
        /\ UNCHANGED <<js, parameter, failed, root, cwd, private, leaked, tree,
                       proc, stack, core, cred>>
    BY <1>3 DEF Redirect
  <2>5. k' \in Nat \ {0} /\ pos' \in 1..17
    BY <1>1, <2>1, <2>4
  <2> QED
    BY <1>1, <2>3, <2>4, <2>5
<1>4. CASE LimitStack
  BY <1>0, <1>1, <1>4, Positions DEF LimitStack, Inherited
<1>5. CASE SetGid
  <2>1. cred' \in [uid : {Root, User}, gid : {Root, User}, groups : {{Root}, {User}}]
    <3>1. cred' = [cred EXCEPT !.gid = User]
      BY <1>5 DEF SetGid, SetCredential
    <3> QED
      BY <3>1
  <2>2. pos + 1 \in 1..17 /\ pos' = pos + 1 /\ k' = 1
    BY <1>1, <1>5, Positions DEF SetGid, SetCredential
  <2>3. UNCHANGED <<js, parameter, failed, fds, root, cwd, private, leaked,
                    tree, proc, stack, core>>
    BY <1>5 DEF SetGid, SetCredential
  <2> QED
    BY <1>1, <2>1, <2>2, <2>3
<1>6. CASE SetGroups
  <2>1. cred' \in [uid : {Root, User}, gid : {Root, User}, groups : {{Root}, {User}}]
    <3>1. cred' = [cred EXCEPT !.groups = {User}]
      BY <1>6 DEF SetGroups, SetCredential
    <3> QED
      BY <3>1
  <2>2. pos + 1 \in 1..17 /\ pos' = pos + 1 /\ k' = 1
    BY <1>1, <1>6, Positions DEF SetGroups, SetCredential
  <2>3. UNCHANGED <<js, parameter, failed, fds, root, cwd, private, leaked,
                    tree, proc, stack, core>>
    BY <1>6 DEF SetGroups, SetCredential
  <2> QED
    BY <1>1, <2>1, <2>2, <2>3
<1>7. CASE SetUid
  <2>1. cred' \in [uid : {Root, User}, gid : {Root, User}, groups : {{Root}, {User}}]
    BY <1>7 DEF SetUid, SetCredential
  <2>2. pos + 1 \in 1..17 /\ pos' = pos + 1 /\ k' = 1
    BY <1>1, <1>7, Positions DEF SetUid, SetCredential
  <2>3. UNCHANGED <<js, parameter, failed, fds, root, cwd, private, leaked,
                    tree, proc, stack, core>>
    BY <1>7 DEF SetUid, SetCredential
  <2> QED
    BY <1>1, <2>1, <2>2, <2>3
<1>8. CASE OpenNull
  BY <1>0, <1>1, <1>8, Positions DEF OpenNull
<1>9. CASE SkipRedirect
  BY <1>0, <1>1, <1>9, Positions DEF SkipRedirect
<1>10. CASE MakePrivate
  BY <1>0, <1>1, <1>10, Positions DEF MakePrivate
<1>11. CASE BindRoot
  BY <1>0, <1>1, <1>11, Positions DEF BindRoot, MountAt
<1>12. CASE MountsDone
  BY <1>0, <1>1, <1>12, Positions DEF MountsDone
<1>13. CASE Chroot
  BY <1>0, <1>1, <1>13, Positions DEF Chroot
<1>14. CASE Chdir
  BY <1>0, <1>1, <1>14, Positions DEF Chdir
<1>15. CASE MountProc
  BY <1>0, <1>1, <1>15, Positions DEF MountProc
<1>16. CASE SetHostname
  BY <1>0, <1>1, <1>16, Positions DEF SetHostname
<1>17. CASE LimitCore
  BY <1>0, <1>1, <1>17, Positions DEF LimitCore
<1>18. CASE BindMount
  BY <1>18 DEF BindMount, MountAt
<1>19. CASE Fail
  BY <1>19 DEF Fail
<1> QED
  BY <1>2, <1>3, <1>4, <1>5, <1>6, <1>7, <1>8, <1>9,
     <1>10, <1>11, <1>12, <1>13, <1>14, <1>15, <1>16, <1>17,
     <1>18, <1>19
     DEF Next

LEMMA PosStep == SInv /\ Next => PosInv'
<1> SUFFICES ASSUME SInv, Next PROVE PosInv'
  OBVIOUS
<1> USE DEF SInv, PosInv, Advance, RedirectPos
<1>1. /\ Len(Order) = 17 /\ pos \in 1..17 /\ k \in Nat \ {0}
      /\ js \in Parameters /\ Len(js.mounts) \in Nat
  BY Positions, JsType DEF TypeOK
<1>2. CASE Redirect
  BY <1>1, <1>2, Positions DEF Redirect, Redirecting, TypeOK
<1>3. CASE BindMount
  BY <1>1, <1>3, Positions DEF BindMount, TypeOK
<1>4. CASE Convert
  BY <1>1, <1>4 DEF Convert
<1>5. CASE OpenNull
  BY <1>1, <1>5 DEF OpenNull
<1>6. CASE SkipRedirect
  BY <1>1, <1>6 DEF SkipRedirect
<1>7. CASE MakePrivate
  BY <1>1, <1>7 DEF MakePrivate
<1>8. CASE BindRoot
  BY <1>1, <1>8 DEF BindRoot
<1>9. CASE MountsDone
  BY <1>1, <1>9 DEF MountsDone
<1>10. CASE Chroot
  BY <1>1, <1>10 DEF Chroot
<1>11. CASE Chdir
  BY <1>1, <1>11 DEF Chdir
<1>12. CASE MountProc
  BY <1>1, <1>12 DEF MountProc
<1>13. CASE SetHostname
  BY <1>1, <1>13 DEF SetHostname
<1>14. CASE LimitStack
  BY <1>1, <1>14 DEF LimitStack
<1>15. CASE LimitCore
  BY <1>1, <1>15 DEF LimitCore
<1>16. CASE SetGid
  BY <1>1, <1>16 DEF SetGid, SetCredential
<1>17. CASE SetGroups
  BY <1>1, <1>17 DEF SetGroups, SetCredential
<1>18. CASE SetUid
  BY <1>1, <1>18 DEF SetUid, SetCredential
<1>19. CASE Fail
  BY <1>1, <1>19 DEF Fail
<1> QED
  BY <1>2, <1>3, <1>4, <1>5, <1>6, <1>7, <1>8, <1>9,
     <1>10, <1>11, <1>12, <1>13, <1>14, <1>15, <1>16, <1>17,
     <1>18, <1>19
     DEF Next

LEMMA PlaceStep == SInv /\ Next => PlaceInv' /\ CredInv'
<1> SUFFICES ASSUME SInv, Next PROVE PlaceInv' /\ CredInv'
  OBVIOUS
<1> USE DEF SInv, PlaceInv, CredInv, Advance
<1>1. /\ Len(Order) = 17 /\ pos \in 1..17
      /\ cred \in [uid : {Root, User}, gid : {Root, User}, groups : {{Root}, {User}}]
  BY Positions DEF TypeOK
<1>2. CASE Redirect
  BY <1>1, <1>2, Positions DEF Redirect, Redirecting, TypeOK
<1>3. CASE Convert
  BY <1>1, <1>3, Positions DEF Convert, TypeOK
<1>4. CASE OpenNull
  BY <1>1, <1>4, Positions DEF OpenNull, TypeOK
<1>5. CASE SkipRedirect
  BY <1>1, <1>5, Positions DEF SkipRedirect, TypeOK
<1>6. CASE MakePrivate
  BY <1>1, <1>6, Positions DEF MakePrivate, TypeOK
<1>7. CASE BindRoot
  BY <1>1, <1>7, Positions DEF BindRoot, TypeOK
<1>8. CASE MountsDone
  BY <1>1, <1>8, Positions DEF MountsDone, TypeOK
<1>9. CASE Chroot
  BY <1>1, <1>9, Positions DEF Chroot, TypeOK
<1>10. CASE Chdir
  BY <1>1, <1>10, Positions DEF Chdir, TypeOK
<1>11. CASE MountProc
  BY <1>1, <1>11, Positions DEF MountProc, TypeOK
<1>12. CASE SetHostname
  BY <1>1, <1>12, Positions DEF SetHostname, TypeOK
<1>13. CASE LimitStack
  BY <1>1, <1>13, Positions DEF LimitStack, TypeOK
<1>14. CASE LimitCore
  BY <1>1, <1>14, Positions DEF LimitCore, TypeOK
<1>15. CASE SetGid
  BY <1>1, <1>15, Positions DEF SetGid, SetCredential, TypeOK
<1>16. CASE SetGroups
  BY <1>1, <1>16, Positions DEF SetGroups, SetCredential, TypeOK
<1>17. CASE SetUid
  BY <1>1, <1>17, Positions DEF SetUid, SetCredential, TypeOK
<1>18. CASE BindMount \/ Fail
  BY <1>18 DEF BindMount, Fail
<1> QED
  BY <1>2, <1>3, <1>4, <1>5, <1>6, <1>7, <1>8, <1>9,
     <1>10, <1>11, <1>12, <1>13, <1>14, <1>15, <1>16, <1>17,
     <1>18
     DEF Next

LEMMA MountStep == SInv /\ Next => MountInv'
<1> SUFFICES ASSUME SInv, Next PROVE MountInv'
  OBVIOUS
<1> USE DEF SInv, MountInv, Advance
<1>1. /\ Len(Order) = 17 /\ pos \in 1..17 /\ k \in Nat \ {0}
      /\ js \in Parameters /\ Len(js.mounts) \in Nat
  BY Positions, JsType DEF TypeOK
<1>2. CASE BindRoot
  <2>1. /\ pos = 5 /\ pos' = 6 /\ k' = 1 /\ js' = js /\ private /\ private'
        /\ parameter' = parameter
    BY <1>1, <1>2, Positions DEF BindRoot
  <2>5. tree' = [p \in {"/"} |-> IF p = "/" THEN TRUE ELSE tree[p]]
    BY <1>2, <2>1 DEF BindRoot, MountAt
  <2>2. DOMAIN tree' = {"/"} /\ tree'["/"] /\ ~ leaked'
    <3>1. ~ leaked'
      BY <1>2, <2>1 DEF BindRoot, MountAt
    <3>2. DOMAIN tree' = {"/"} /\ tree'["/"]
      BY <2>5
    <3> QED
      BY <3>1, <3>2
  <2>3. \A p \in DOMAIN tree' : Asked(p, k - 1)' = {}
    BY <2>1 DEF Asked
  <2>4. \A p \in DOMAIN tree' : LastWins(p, k - 1)'
    BY <2>2, <2>3 DEF LastWins
  <2> QED
    BY <2>1, <2>2, <2>4
<1>3. CASE BindMount
  <2> PICK n \in Nat, d \in {HostPath[js.mounts[k].dst]} : n = k
    BY <1>1
  <2>1. /\ pos = 6 /\ pos' = 6 /\ js' = js /\ private /\ private'
        /\ n \in 1..Len(js.mounts) /\ HostPath[js.mounts[n].dst] = d
        /\ k' - 1 = n /\ parameter' = parameter
        /\ parameter.limits[n] = Int32Value(js.mounts[n].limit)
    BY <1>1, <1>3, Positions DEF BindMount
  <2>2. tree' = [p \in DOMAIN tree \union {d} |->
                   IF p = d THEN Int32Value(js.mounts[n].limit) = 0 ELSE tree[p]]
    BY <1>3, <2>1 DEF BindMount, MountAt
  <2>3. /\ DOMAIN tree' = DOMAIN tree \union {d}
        /\ \A p \in DOMAIN tree : p # d => tree'[p] = tree[p]
    BY <2>2
  <2>4. tree'[d] = (Int32Value(js.mounts[n].limit) = 0)
    BY <2>2
  <2>5. ~ leaked'
    BY <1>3, <2>1 DEF BindMount, MountAt
  <2>6. LastWins(d, n)'
    <3>1. n \in Asked(d, n)' /\ \A l \in Asked(d, n)' : l <= n
      BY <2>1 DEF Asked
    <3>2. tree'[d] = (Int32Value(js'.mounts[n].limit) = 0)
      BY <2>1, <2>4
    <3> QED
      BY <3>1, <3>2 DEF LastWins
  <2>7. ASSUME NEW p \in DOMAIN tree, p # d
        PROVE  LastWins(p, n)'
    <3>1. Asked(p, n)' = Asked(p, n - 1)
      BY <2>1, <2>7 DEF Asked
    <3>2. LastWins(p, n - 1)
      BY <2>1
    <3>3. tree'[p] = tree[p] /\ js' = js
      BY <2>1, <2>3, <2>7
    <3> QED
      BY <3>1, <3>2, <3>3 DEF LastWins
  <2>8. \A p \in DOMAIN tree' : LastWins(p, n)'
    BY <2>3, <2>6, <2>7
  <2>9. \A p \in DOMAIN tree' : LastWins(p, k - 1)'
    BY <2>1, <2>8 DEF LastWins, Asked
  <2> QED
    BY <2>1, <2>3, <2>5, <2>9
<1>4. CASE MountsDone
  <2>1. pos = 6 /\ pos' = 7 /\ UNCHANGED <<js, parameter, tree, private, leaked>>
    BY <1>1, <1>4, Positions DEF MountsDone
  <2>2. k - 1 = Len(js.mounts)
    BY <1>1, <1>4, <2>1 DEF MountsDone, PosInv
  <2>3. \A p \in DOMAIN tree' : LastWins(p, Len(js.mounts))'
    BY <2>1, <2>2 DEF LastWins, Asked
  <2> QED
    BY <2>1, <2>3
<1>5. CASE MakePrivate
  BY <1>1, <1>5, Positions DEF MakePrivate
<1>6. ASSUME UNCHANGED <<js, private, tree>>, ~ leaked', pos # 6, pos # 5, pos # 4,
             pos' \in {pos, pos + 1}, Convert \/ (pos # 1 /\ parameter' = parameter)
      PROVE  MountInv'
  <2>1. pos > 6 => \A p \in DOMAIN tree' : LastWins(p, Len(js.mounts))'
    BY <1>6 DEF LastWins, Asked
  <2>2. parameter'.limits = [n \in 1..Len(js.mounts) |->
                               Int32Value(js.mounts[n].limit)]
    BY <1>1, <1>6 DEF Convert
  <2> QED
    BY <1>1, <1>6, <2>1, <2>2
<1>7. CASE Fail
  <2>1. UNCHANGED <<js, parameter, private, tree, leaked, pos, k>>
    BY <1>7 DEF Fail
  <2>2. \A p, n : LastWins(p, n)' <=> LastWins(p, n)
    BY <2>1 DEF LastWins, Asked
  <2> QED
    BY <2>1, <2>2
<1>8. CASE Convert
  BY <1>1, <1>6, <1>8, Positions DEF Convert
<1>9. CASE OpenNull
  BY <1>1, <1>6, <1>9, Positions DEF OpenNull
<1>10. CASE Redirect
  BY <1>1, <1>6, <1>10, Positions DEF Redirect, Redirecting
<1>11. CASE SkipRedirect
  BY <1>1, <1>6, <1>11, Positions DEF SkipRedirect
<1>12. CASE Chroot
  BY <1>1, <1>6, <1>12, Positions DEF Chroot
<1>13. CASE Chdir
  BY <1>1, <1>6, <1>13, Positions DEF Chdir
<1>14. CASE MountProc
  <2>1. pos = 9 /\ pos' = 10 /\ UNCHANGED <<js, parameter, private, tree>> /\ private
    BY <1>1, <1>14, Positions DEF MountProc
  <2>2. ~ leaked'
    BY <1>14, <2>1 DEF MountProc
  <2> QED
    BY <1>6, <2>1, <2>2
<1>15. CASE SetHostname
  BY <1>1, <1>6, <1>15, Positions DEF SetHostname
<1>16. CASE LimitStack
  BY <1>1, <1>6, <1>16, Positions DEF LimitStack
<1>17. CASE LimitCore
  BY <1>1, <1>6, <1>17, Positions DEF LimitCore
<1>18. CASE SetGid
  BY <1>1, <1>6, <1>18, Positions DEF SetGid, SetCredential
<1>19. CASE SetGroups
  BY <1>1, <1>6, <1>19, Positions DEF SetGroups, SetCredential
<1>20. CASE SetUid
  BY <1>1, <1>6, <1>20, Positions DEF SetUid, SetCredential
<1> QED
  BY <1>2, <1>3, <1>4, <1>5, <1>7, <1>8, <1>9, <1>10,
     <1>11, <1>12, <1>13, <1>14, <1>15, <1>16, <1>17, <1>18,
     <1>19, <1>20
     DEF Next

\* One stream of RedirectIO gives the description that was asked for.
LEMMA SourceRequested ==
  ASSUME SInv, pos = RedirectPos, NEW i \in Stdio, i = k - 1,
         fds'[i] = SourceOf(i), js' = js,
         \A n \in OpenFds : n # i => fds'[n] = fds[n]
  PROVE  Done(i)'
<1> USE DEF SInv, Stdio
<1>1. i \in {0, 1, 2} /\ k = i + 1
  BY DEF TypeOK
<1>2. /\ js.stdio[i] \in JsStream /\ js.stdio[1] \in JsStream
      /\ js.redirectBeforeChroot \in BOOLEAN
  BY JsType DEF TypeOK
<1>3. /\ parameter.stdio[i] = Redirection(js.stdio[i])
      /\ parameter.stdio[1] = Redirection(js.stdio[1])
  BY DEF StreamInv, RedirectPos
<1>4. /\ <<root, cwd>> = IF js.redirectBeforeChroot THEN <<"host", "node">>
                                                    ELSE <<"sandbox", "working">>
      /\ cred.uid = Root
  BY <1>2 DEF PlaceInv, CredInv, RedirectPos
<1>5. CASE js.stdio[i].type = "number"
  <2>1. js.stdio[i].num \in OpenFds /\ js.stdio[i].num \in Nat
    BY <1>2, OpenFdsAssumption DEF JsStream
  <2>2. SourceOf(i) = fds[js.stdio[i].num]
    BY <1>3, <1>5, <2>1, DescriptorExact DEF SourceOf, Redirection
  <2>6. js.stdio[i].num < i => fds'[i] = fds'[js.stdio[i].num]
    BY <1>1, <2>1, <2>2
  <2>3. js.stdio[i].num >= i => fds[js.stdio[i].num] = Given(js.stdio[i].num)
    BY <1>1, <2>1 DEF StreamInv
  <2>4. js.stdio[i].num >= i => fds'[i] = Given(js.stdio[i].num)
    BY <1>1, <2>2, <2>3
  <2>5. Requested(i, Root)' = Given(js.stdio[i].num)
    BY <1>5 DEF Requested
  <2> QED
    BY <1>1, <1>5, <2>1, <2>4, <2>5, <2>6 DEF Done
<1>6. CASE js.stdio[i].type # "number"
  <2>1. /\ parameter.stdio[i].fd = -1
        /\ parameter.stdio[i].path =
             IF js.stdio[i].type = "string" THEN js.stdio[i].path ELSE NoPath
    BY <1>3, <1>6 DEF Redirection
  <2>2. CASE parameter.stdio[i].path = NoPath
    BY <1>1, <1>2, <1>6, <2>1, <2>2 DEF SourceOf, Requested, Done, JsStream
  <2>3. CASE parameter.stdio[i].path # NoPath
    <3>1. js.stdio[i].type = "string" /\ parameter.stdio[i].path = js.stdio[i].path
      BY <2>1, <2>3
    <3>2. CASE i = 2 /\ parameter.stdio[i].path = parameter.stdio[1].path
      <4>1. /\ js.stdio[1].type = "string" /\ js.stdio[1].path = js.stdio[i].path
            /\ parameter.stdio[1].fd = -1
        BY <1>3, <2>3, <3>1, <3>2 DEF Redirection
      <4>2. fds[1] = Requested(1, Root)
        BY <1>1, <3>2, <4>1 DEF StreamInv
      <4>3. fds'[i] = Requested(1, Root)
        BY <1>1, <2>1, <2>3, <3>2, <4>2 DEF SourceOf
      <4>4. Requested(i, Root)' = Requested(1, Root)
        BY <2>3, <3>1, <3>2, <4>1 DEF Requested
      <4> QED
        BY <1>1, <4>3, <4>4 DEF Done
    <3>3. CASE ~ (i = 2 /\ parameter.stdio[i].path = parameter.stdio[1].path)
      <4>1. ~ (i = 2 /\ js.stdio[1].type = "string" /\ js.stdio[1].path = js.stdio[i].path)
        BY <1>3, <3>1, <3>3 DEF Redirection
      <4>2. fds'[i] = File(i, js.stdio[i].path, root, cwd, Root)
        BY <1>1, <1>4, <2>1, <2>3, <3>1, <3>3 DEF SourceOf
      <4>3. Requested(i, Root)' = File(i, js.stdio[i].path, root, cwd, Root)
        BY <1>4, <2>3, <3>1, <4>1 DEF Requested
      <4> QED
        BY <1>1, <4>2, <4>3 DEF Done
    <3> QED
      BY <3>2, <3>3
  <2> QED
    BY <2>2, <2>3
<1> QED
  BY <1>5, <1>6

LEMMA StreamStep == SInv /\ Next => StreamInv'
<1> SUFFICES ASSUME SInv, Next PROVE StreamInv'
  OBVIOUS
<1> USE DEF SInv, Advance
<1>1. /\ Len(Order) = 17 /\ pos \in 1..17 /\ k \in Nat \ {0}
      /\ RedirectPos \in {3, 10} /\ PosInv
  BY Positions DEF TypeOK, RedirectPos
<1>2. CASE Convert
  <2>1. pos = 1 /\ pos' = 2 /\ k' = 1 /\ js' = js /\ fds' = fds
    BY <1>1, <1>2, Positions DEF Convert
  <2>2. RedirectPos' = RedirectPos
    BY <2>1 DEF RedirectPos
  <2>3. /\ parameter'.stdio = [i \in Stdio |-> Redirection(js.stdio[i])]
        /\ parameter'.memory = HeadRoom(js.memory)
    BY <1>2 DEF Convert
  <2> QED
    BY <1>1, <2>1, <2>2, <2>3 DEF StreamInv
<1>3. ASSUME UNCHANGED <<js, parameter, fds>>, pos # 1, pos # RedirectPos,
             pos' = pos + 1, k' = 1
      PROVE  StreamInv'
  <2>1. RedirectPos' = RedirectPos /\ \A i : Done(i)' <=> Done(i)
    BY <1>3 DEF RedirectPos, Done, Requested
  <2>2. pos < RedirectPos => \A n \in OpenFds : fds'[n] = Given(n)
    BY <1>3 DEF StreamInv
  <2>3. pos' = RedirectPos => \A n \in OpenFds : fds'[n] = Given(n)
    BY <1>1, <1>3, <2>2
  <2>4. pos' > RedirectPos => \A i \in Stdio : Done(i)'
    BY <1>1, <1>3, <2>1 DEF StreamInv
  <2>5. \A i \in Stdio : ~ (i < k' - 1)
    BY <1>3 DEF Stdio
  <2> QED
    BY <1>1, <1>3, <2>1, <2>3, <2>4, <2>5 DEF StreamInv
<1>4. CASE Redirect
  <2>1. /\ pos = RedirectPos /\ k \in 1..3 /\ ~ failed /\ js' = js
        /\ parameter' = parameter
        /\ fds' = [fds EXCEPT ![k - 1] = SourceOf(k - 1)]
        /\ \/ k < 3 /\ k' = k + 1 /\ pos' = pos
           \/ k = 3 /\ pos' = pos + 1 /\ k' = 1
    BY <1>1, <1>4, Positions DEF Redirect, Redirecting, RedirectPos, At, PosInv
  <2>2. RedirectPos' = RedirectPos
    BY <2>1 DEF RedirectPos
  <2>3. k - 1 \in Stdio /\ Stdio \subseteq OpenFds /\ OpenFds \subseteq Nat
        /\ fds \in [OpenFds -> Description]
    BY <2>1, OpenFdsAssumption DEF Stdio, TypeOK
  <2>4. /\ fds'[k - 1] = SourceOf(k - 1)
        /\ \A n \in OpenFds : n # k - 1 => fds'[n] = fds[n]
    BY <2>1, <2>3
  <2>5. PICK i \in Stdio : i = k - 1
    BY <2>3
  <2>6. Done(i)'
    BY <2>1, <2>4, <2>5, SourceRequested
  <2>7. \A j \in Stdio : j < k => Done(j)'
    <3> SUFFICES ASSUME NEW j \in Stdio, j < k PROVE Done(j)'
      OBVIOUS
    <3>1. CASE j = i
      BY <2>6, <3>1
    <3>2. CASE j # i
      <4>1. /\ j < k - 1 /\ fds'[j] = fds[j]
            /\ \A n \in OpenFds : n < j => fds'[n] = fds[n]
        BY <2>1, <2>3, <2>4, <2>5, <3>2 DEF Stdio
      <4>2. Done(j)
        BY <2>1, <4>1 DEF StreamInv
      <4>3. js.stdio[j].type = "number" => js.stdio[j].num \in OpenFds
        BY JsType DEF TypeOK, JsStream
      <4> QED
        BY <2>1, <4>1, <4>2, <4>3 DEF Done, Requested
    <3> QED
      BY <3>1, <3>2
  <2>8. CASE k = 3
    <3>1. \A j \in Stdio : Done(j)'
      BY <2>7, <2>8 DEF Stdio
    <3> QED
      BY <1>1, <2>1, <2>2, <2>8, <3>1 DEF StreamInv
  <2>9. CASE k < 3
    <3>1. k' = k + 1 /\ pos' = RedirectPos'
      BY <2>1, <2>2, <2>9
    <3>2. \A j \in Stdio : j < k' - 1 => Done(j)'
      BY <2>1, <2>7, <3>1 DEF Stdio
    <3>3. k' > 2 /\ parameter'.stdio[1].fd = -1 => fds'[1] = Requested(1, Root)'
      <4>1. SUFFICES ASSUME k = 2, parameter.stdio[1].fd = -1
                     PROVE  fds'[1] = Requested(1, Root)'
        BY <2>1, <2>9, <3>1
      <4>2. Done(1)'
        BY <2>7, <4>1 DEF Stdio
      <4>3. js.stdio[1] \in JsStream
        BY JsType DEF TypeOK, Stdio
      <4>4. js.stdio[1].type # "number"
        <5>1. parameter.stdio[1] = Redirection(js.stdio[1])
          BY <1>1, <2>1 DEF StreamInv, Stdio
        <5>2. SUFFICES ASSUME js.stdio[1].type = "number" PROVE FALSE
          OBVIOUS
        <5>3. js.stdio[1].num \in OpenFds
          BY <4>3 DEF JsStream
        <5>4. Int32Value(js.stdio[1].num) = js.stdio[1].num
          BY <5>3, DescriptorExact
        <5>5. parameter.stdio[1].fd = js.stdio[1].num
          BY <5>1, <5>2, <5>4 DEF Redirection
        <5> QED
          BY <2>3, <4>1, <5>3, <5>5
      <4> QED
        BY <2>1, <4>2, <4>4 DEF Done
    <3>4. \A n \in OpenFds : n \notin Stdio \/ n >= k' - 1 => fds'[n] = Given(n)
      BY <2>1, <2>3, <2>4, <3>1 DEF StreamInv
    <3> QED
      BY <1>1, <2>1, <2>2, <3>1, <3>2, <3>3, <3>4 DEF StreamInv
  <2> QED
    BY <2>1, <2>8, <2>9
<1>7. CASE MakePrivate
  BY <1>1, <1>3, <1>7, Positions DEF MakePrivate
<1>8. CASE BindRoot
  BY <1>1, <1>3, <1>8, Positions DEF BindRoot
<1>9. CASE MountsDone
  BY <1>1, <1>3, <1>9, Positions DEF MountsDone
<1>10. CASE Chroot
  BY <1>1, <1>3, <1>10, Positions DEF Chroot
<1>11. CASE Chdir
  BY <1>1, <1>3, <1>11, Positions DEF Chdir
<1>12. CASE MountProc
  BY <1>1, <1>3, <1>12, Positions DEF MountProc
<1>13. CASE SetHostname
  BY <1>1, <1>3, <1>13, Positions DEF SetHostname
<1>14. CASE LimitStack
  BY <1>1, <1>3, <1>14, Positions DEF LimitStack
<1>15. CASE LimitCore
  BY <1>1, <1>3, <1>15, Positions DEF LimitCore
<1>16. CASE SetGid
  BY <1>1, <1>3, <1>16, Positions DEF SetGid, SetCredential
<1>17. CASE SetGroups
  BY <1>1, <1>3, <1>17, Positions DEF SetGroups, SetCredential
<1>18. CASE SetUid
  BY <1>1, <1>3, <1>18, Positions DEF SetUid, SetCredential
<1>19. CASE OpenNull
  BY <1>1, <1>3, <1>19, Positions DEF OpenNull
<1>20. CASE SkipRedirect
  <2>1. pos \in {3, 10} /\ pos # RedirectPos
    BY <1>1, <1>20, Positions DEF SkipRedirect, Redirecting, RedirectPos, At
  <2>2. UNCHANGED <<js, parameter, fds>> /\ pos' = pos + 1 /\ k' = 1
    BY <1>20 DEF SkipRedirect
  <2> QED
    BY <1>3, <2>1, <2>2
<1>21. CASE BindMount
  <2>1. UNCHANGED <<js, parameter, fds, pos>> /\ pos = 6
    BY <1>1, <1>21, Positions DEF BindMount
  <2>2. RedirectPos' = RedirectPos /\ \A i : Done(i)' <=> Done(i)
    BY <2>1 DEF RedirectPos, Done, Requested
  <2> QED
    BY <1>1, <2>1, <2>2 DEF StreamInv
<1>22. CASE Fail
  <2>1. UNCHANGED <<js, parameter, fds, pos, k>>
    BY <1>22 DEF Fail
  <2>2. RedirectPos' = RedirectPos /\ \A i : Done(i)' <=> Done(i)
    BY <2>1 DEF RedirectPos, Done, Requested
  <2>3. Requested(1, Root)' = Requested(1, Root)
    BY <2>1 DEF Requested
  <2> QED
    BY <1>1, <2>1, <2>2, <2>3 DEF StreamInv
<1> QED
  BY <1>2, <1>4, <1>7, <1>8, <1>9, <1>10, <1>11, <1>12,
     <1>13, <1>14, <1>15, <1>16, <1>17, <1>18, <1>19, <1>20,
     <1>21, <1>22
     DEF Next

-----------------------------------------------------------------------------
LEMMA StutterInv == SInv /\ UNCHANGED vars => SInv'
<1> SUFFICES ASSUME SInv, UNCHANGED vars PROVE SInv'
  OBVIOUS
<1> USE DEF vars
<1>1. TypeOK' /\ PosInv' /\ PlaceInv' /\ CredInv'
  BY DEF SInv, TypeOK, PosInv, RedirectPos, PlaceInv, CredInv
<1>2. MountInv'
  <2>1. \A p, n : LastWins(p, n)' <=> LastWins(p, n)
    BY DEF LastWins, Asked
  <2> QED
    BY <2>1 DEF SInv, MountInv, LastWins, Asked
<1>3. StreamInv'
  BY DEF SInv, StreamInv, RedirectPos, Done, Requested
<1> QED
  BY <1>1, <1>2, <1>3 DEF SInv

LEMMA Inductive == Spec => []SInv
<1>1. SInv /\ [Next]_vars => SInv'
  BY TypeStep, PosStep, MountStep, PlaceStep, StreamStep, StutterInv DEF SInv
<1> QED
  BY InitInv, <1>1, PTL DEF Spec

\* The variables keep their ranges, and "ready" is the last step
\* (sandbox.cc:161-258).
THEOREM SetupTypeCorrect == Spec => []TypeOK
<1>1. SInv => TypeOK
  BY DEF SInv
<1> QED
  BY Inductive, <1>1, PTL

\* No mount of any sandbox reaches the host (sandbox.cc:185-218).
THEOREM HostStaysUntouched == Spec => []HostUntouched
<1>1. SInv => HostUntouched
  BY DEF SInv, MountInv, HostUntouched
<1> QED
  BY Inductive, <1>1, PTL

\* Root is kept until the last call that needs it (sandbox.cc:185-246).
THEOREM RootWhileNeeded == Spec => []PrivilegedWhileRoot
<1>1. SInv => PrivilegedWhileRoot
  <2> SUFFICES ASSUME SInv, Order[pos] \in Privileged PROVE cred.uid = Root
    BY DEF PrivilegedWhileRoot
  <2>1. pos \in 1..17
    BY Positions DEF SInv, TypeOK
  <2>2. pos # 17
    BY <2>1, Positions DEF Privileged, SInv, TypeOK
  <2> QED
    BY <2>1, <2>2 DEF SInv, CredInv
<1> QED
  BY Inductive, <1>1, PTL

\* A child that is ready has the streams asked for, whatever paths they are and
\* whatever descriptors from the stream's own number on; a smaller number gives
\* it the sandbox's own stream of that number (sandbox.cc:44-110, called at
\* 180-183 or 220-223).  The rights a path was opened with are not part of it.
THEOREM StreamsCorrect == Spec => []StreamsAsRequested
<1>1. SInv => StreamsAsRequested
  <2> SUFFICES ASSUME SInv, At("ready") PROVE \A i \in Stdio : Done(i)
    BY DEF StreamsAsRequested, Done
  <2>1. pos = 17 /\ RedirectPos \in {3, 10}
    BY Positions DEF SInv, TypeOK, RedirectPos
  <2> QED
    BY <2>1 DEF SInv, StreamInv
<1> QED
  BY Inductive, <1>1, PTL

\* A child that is ready is contained, for every list of mounts and every width
\* of an int: a place is writable only when the last mount there asked for it,
\* and then if an int can hold the limit it asked with (sandbox.cc:187-246,
\* addon.cc:160).
THEOREM ReadyContained == Spec => []Contained
<1>1. SInv => Contained
  <2> SUFFICES ASSUME SInv, At("ready") PROVE Contained
    BY DEF Contained
  <2>1. pos = 17
    BY Positions DEF SInv, TypeOK
  <2>2. cred = [uid |-> User, gid |-> User, groups |-> {User}]
    BY <2>1 DEF SInv, TypeOK, CredInv
  <2>3. root = "sandbox" /\ cwd = "working" /\ core = 0 /\ "/" \in DOMAIN tree
    BY <2>1 DEF SInv, PlaceInv, MountInv
  <2>4. \A p \in DOMAIN tree : LastWins(p, Len(js.mounts))
    BY <2>1 DEF SInv, MountInv
  <2>5. ASSUME NEW n \in 1..Len(js.mounts)
        PROVE  LET limit == js.mounts[n].limit
               IN  /\ limit = 0 => Int32Value(limit) = 0
                   /\ Int32Value(limit) = 0 /\ FitsInt32(limit) => limit = 0
    <3>1. js.mounts[n].limit \in Int
      BY JsType DEF SInv, TypeOK
    <3>2. FitsInt32(0)
      BY Int32Assumption, SMT DEF FitsInt32
    <3> QED
      BY <3>1, <3>2, Int32Exact
  <2> DEFINE Wanted(p) == { n \in 1..Len(js.mounts) :
                             HostPath[js.mounts[n].dst] = p }
  <2>6. ASSUME NEW p \in DOMAIN tree
        PROVE  IF Wanted(p) = {} THEN tree[p]
               ELSE \E n \in Wanted(p) :
                      /\ \A m \in Wanted(p) : m <= n
                      /\ js.mounts[n].limit = 0 => tree[p]
                      /\ tree[p] /\ FitsInt32(js.mounts[n].limit)
                           => js.mounts[n].limit = 0
    <3>1. Asked(p, Len(js.mounts)) = Wanted(p)
      BY DEF Asked
    <3>2. CASE Wanted(p) = {}
      BY <2>4, <3>1, <3>2 DEF LastWins
    <3>3. CASE Wanted(p) # {}
      <4>1. PICK n \in Wanted(p) :
              /\ \A m \in Wanted(p) : m <= n
              /\ tree[p] = (Int32Value(js.mounts[n].limit) = 0)
        BY <2>4, <3>1, <3>3 DEF LastWins
      <4>2. /\ js.mounts[n].limit = 0 => tree[p]
            /\ tree[p] /\ FitsInt32(js.mounts[n].limit) => js.mounts[n].limit = 0
        BY <2>5, <4>1
      <4> QED
        BY <3>3, <4>1, <4>2
    <3> QED
      BY <3>2, <3>3
  <2> QED
    BY <2>2, <2>3, <2>6 DEF Contained
<1> QED
  BY Inductive, <1>1, PTL

\* A limit that is exceeded can be seen to be (addon.cc:112).
THEOREM HeadRoomKept == Spec => []MemoryHeadRoom
<1>1. SInv => MemoryHeadRoom
  <2> SUFFICES ASSUME SInv, pos > 1, js.memory >= 16
               PROVE  Written(parameter.memory) > js.memory
    BY DEF MemoryHeadRoom
  <2>1. parameter.memory = HeadRoom(js.memory) /\ js.memory \in Int
    BY JsType DEF SInv, StreamInv, TypeOK
  <2> QED
    BY <2>1, HeadRoomAlways
<1> QED
  BY Inductive, <1>1, PTL

=============================================================================
