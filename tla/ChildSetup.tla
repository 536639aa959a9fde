----------------------------- MODULE ChildSetup -----------------------------
(***************************************************************************)
(* What happens to the parameters of one startSandbox and to the cloned    *)
(* process between clone and the message "ready": NodeStartSandbox of      *)
(* native/addon.cc converts the JavaScript parameters, ChildProcess of     *)
(* native/sandbox.cc redirects the standard streams, builds the mount      *)
(* tree, enters it, sets resource limits and gives up root.                *)
(*                                                                         *)
(* SandboxStart takes all of this as one step that succeeds or throws;     *)
(* here it is taken apart.  The child has its own descriptors and mount    *)
(* namespace, so nobody interferes; the difficulty is the order of some    *)
(* twenty system calls, each of which changes what the next ones mean.     *)
(*                                                                         *)
(* Existence, permission and contents of files are the environment's: any  *)
(* step may fail.  The caller's numbers denote open descriptors, the       *)
(* places mounted on are not nested (a mount would hide those beneath it), *)
(* and the chroot has no symbolic links on the way to them.                *)
(***************************************************************************)
EXTENDS Integers, Sequences

CONSTANTS
  OpenFds,      \* descriptors open in Node.js, and so in the child
  Paths,        \* file names
  NoPath,       \* the empty string
  HostPath,     \* where a path leads by the symbolic links of the host
  Int32Size,    \* how many values an int has, 2^32 in the code
  Parameters    \* the JavaScript parameters to consider

Stdio == 0..2     \* stdin, stdout, stderr

\* A number, a path, or neither.
JsStream == [type : {"number", "string", "other"}, num : OpenFds, path : Paths]

\* A bind mount; limit 0 asks for a read-only one, -1 for no limit.
MountInfo == [src : Paths, dst : Paths, absolute : BOOLEAN, limit : Int]

JsParameter ==
  [ stdio  : [Stdio -> JsStream], redirectBeforeChroot : BOOLEAN,
    mounts : Seq(MountInfo), mountProc : BOOLEAN, hostname : BOOLEAN,
    memory : Int, stackSize : Int ]

ASSUME OpenFdsAssumption    == Stdio \subseteq OpenFds /\ OpenFds \subseteq Nat
ASSUME PathsAssumption      == {NoPath, "/"} \subseteq Paths
ASSUME HostPathAssumption   == HostPath \in [Paths -> Paths]
ASSUME Int32Assumption      == /\ Int32Size \in Nat \ {0}
                               /\ \A n \in OpenFds : 2 * n < Int32Size
ASSUME ParametersAssumption == Parameters \subseteq JsParameter

VARIABLES
  js,         \* the JavaScript parameters
  parameter,  \* their conversion
  pos,        \* position in Order
  failed,     \* the child reported an error
  k,          \* next stream to redirect, or next mount
  fds,        \* open file description of each inherited number
  root, cwd,  \* what "/" and "." denote
  private,    \* mounts no longer propagate to the host
  leaked,     \* a mount was made while they did
  tree,       \* read-only flag of the topmost mount at each place in the chroot
  proc,       \* /proc is mounted
  stack, core,  \* RLIMIT_STACK and RLIMIT_CORE
  cred        \* user, group and supplementary groups

vars == <<js, parameter, pos, failed, k, fds, root, cwd, private, leaked,
          tree, proc, stack, core, cred>>

-----------------------------------------------------------------------------
(***************************************************************************)
(* Data.                                                                   *)
(***************************************************************************)

\* Mutants: orders a slip of the pen could produce.
OrderPrivateLate ==
  << "convert", "null", "redirectBefore", "root", "private", "mounts",
     "chroot", "chdir", "proc", "redirectAfter", "hostname", "stack", "core",
     "gid", "groups", "uid", "ready" >>
OrderUidFirst ==
  << "convert", "null", "redirectBefore", "private", "root", "mounts",
     "chroot", "chdir", "proc", "redirectAfter", "hostname", "stack", "core",
     "uid", "gid", "groups", "ready" >>
OrderRedirectBeforeChdir ==
  << "convert", "null", "redirectBefore", "private", "root", "mounts",
     "chroot", "redirectAfter", "chdir", "proc", "hostname", "stack", "core",
     "gid", "groups", "uid", "ready" >>

\* The steps in program order.
Order ==
  << "convert", "null", "redirectBefore", "private", "root", "mounts",
     "chroot", "chdir", "proc", "redirectAfter", "hostname", "stack", "core",
     "gid", "groups", "uid", "ready" >>

\* The steps the kernel refuses to a process that is not root.
Privileged == { "private", "root", "mounts", "chroot", "proc", "hostname",
                "gid", "groups", "uid" }

Unlimited == -1     \* RLIM64_INFINITY, and "max" in a cgroup file
Inherited == -2     \* the limit of the Node.js process

\* C++ division truncates towards zero.
Quotient(a, b) == IF a >= 0 THEN a \div b ELSE - ((-a) \div b)

\* Mutant: the head room is taken away instead of added.
HeadRoomMissing(memory) == Quotient(memory, 5) * 4

\* The memory limit with a reserve above the limit the caller gave.
HeadRoom(memory) == Quotient(memory, 4) * 5

\* WRITE_WITH_CHECK: a negative value is written as "max".
Written(value) == IF value >= 0 THEN value ELSE Unlimited

\* ToNumber().Int32Value(): the low bits, read as a signed number.
Int32Value(n) ==
  LET low == n % Int32Size
  IN  IF 2 * low < Int32Size THEN low ELSE low - Int32Size

\* SET_REDIRECTION: -1 says that the path counts.
Redirection(v) ==
  IF v.type = "number"
  THEN [fd |-> Int32Value(v.num), path |-> NoPath]
  ELSE [fd |-> -1, path |-> IF v.type = "string" THEN v.path ELSE NoPath]

User == "user"      \* the uid and gid the caller asked for
Root == "root"

\* Open file descriptions.  Two opens of a path are two descriptions, each
\* with an offset of its own: "by" tells them apart.  The kernel checks a path
\* against the rights of the user it is opened "as".
Description ==
  [ what : {"inherited", "null", "file"}, num : Int, path : Paths,
    root : {"host", "sandbox"}, cwd : {"node", "working"}, by : Int,
    as : {Root, User} ]

Given(n) == [what |-> "inherited", num |-> n, path |-> NoPath, root |-> "host",
             cwd |-> "node", by |-> -1, as |-> Root]
Null     == [what |-> "null", num |-> -1, path |-> NoPath, root |-> "host",
             cwd |-> "node", by |-> -1, as |-> Root]
File(i, p, r, c, u) == [what |-> "file", num |-> -1, path |-> p, root |-> r,
                        cwd |-> c, by |-> i, as |-> u]

At(step) == Order[pos] = step /\ ~ failed

Advance == pos' = pos + 1 /\ k' = 1
-----------------------------------------------------------------------------
Init ==
  /\ js \in Parameters
  /\ parameter = [stdio |-> [i \in Stdio |-> [fd |-> -1, path |-> NoPath]],
                  limits |-> << >>, memory |-> 0, stackSize |-> 0]
  /\ pos = 1 /\ k = 1 /\ failed = FALSE
  /\ fds = [n \in OpenFds |-> Given(n)]
  /\ root = "host" /\ cwd = "node"
  /\ private = FALSE /\ leaked = FALSE
  /\ tree = << >>
  /\ proc = FALSE
  /\ stack = Inherited /\ core = Inherited
  /\ cred = [uid |-> Root, gid |-> Root, groups |-> {Root}]

\* Runs before the clone; the child copies the result.
Convert ==
  /\ At("convert")
  /\ parameter' = [ stdio     |-> [i \in Stdio |-> Redirection(js.stdio[i])],
                    limits    |-> [n \in 1..Len(js.mounts) |->
                                     Int32Value(js.mounts[n].limit)],
                    memory    |-> HeadRoom(js.memory),
                    stackSize |-> IF js.stackSize <= 0 THEN Inherited
                                                       ELSE js.stackSize ]
  /\ Advance
  /\ UNCHANGED <<js, failed, fds, root, cwd, private, leaked, tree, proc,
                 stack, core, cred>>

\* The pipe's read end is closed, the affinity set, /dev/null opened.
OpenNull ==
  /\ At("null")
  /\ Advance
  /\ UNCHANGED <<js, parameter, failed, fds, root, cwd, private, leaked, tree,
                 proc, stack, core, cred>>

\* The description that becomes stream i.  A number is looked up in the
\* descriptors as they are now; stderr shares stdout's file when the paths
\* are the same string.
SourceOf(i) ==
  LET r == parameter.stdio[i]
  IN  IF r.fd # -1 THEN fds[r.fd]
      ELSE IF r.path = NoPath THEN Null
      ELSE IF i = 2 /\ r.path = parameter.stdio[1].path THEN fds[1]
      ELSE File(i, r.path, root, cwd, cred.uid)

\* RedirectIO is called at one of two places.
Redirecting ==
  \/ At("redirectBefore") /\ js.redirectBeforeChroot
  \/ At("redirectAfter")  /\ ~ js.redirectBeforeChroot

\* One stream of RedirectIO: open and dup2.
Redirect ==
  /\ Redirecting
  /\ fds' = [fds EXCEPT ![k - 1] = SourceOf(k - 1)]
  /\ IF k < 3 THEN k' = k + 1 /\ pos' = pos ELSE Advance
  /\ UNCHANGED <<js, parameter, failed, root, cwd, private, leaked, tree, proc,
                 stack, core, cred>>

SkipRedirect ==
  /\ At("redirectBefore") \/ At("redirectAfter")
  /\ ~ Redirecting
  /\ Advance
  /\ UNCHANGED <<js, parameter, failed, fds, root, cwd, private, leaked, tree,
                 proc, stack, core, cred>>

MakePrivate ==
  /\ At("private")
  /\ cred.uid = Root
  /\ private' = TRUE
  /\ Advance
  /\ UNCHANGED <<js, parameter, failed, fds, root, cwd, leaked, tree, proc,
                 stack, core, cred>>

\* A bind mount at a place of the tree; the kernel ignores MS_RDONLY in the
\* bind itself and obeys it in the remount that follows.
MountAt(place, readonly) ==
  /\ tree' = [p \in DOMAIN tree \union {place} |->
                IF p = place THEN readonly ELSE tree[p]]
  /\ leaked' = (leaked \/ ~ private)

\* Mutant: the remount is left out, MS_RDONLY in the bind having no effect.
BindRootOnly ==
  /\ At("root")
  /\ cred.uid = Root
  /\ MountAt("/", FALSE)
  /\ Advance
  /\ UNCHANGED <<js, parameter, failed, fds, root, cwd, private, proc, stack,
                 core, cred>>

BindRoot ==
  /\ At("root")
  /\ cred.uid = Root
  /\ MountAt("/", TRUE)
  /\ Advance
  /\ UNCHANGED <<js, parameter, failed, fds, root, cwd, private, proc, stack,
                 core, cred>>

\* A dst that is not absolute throws; fs::relative follows the host's links; a
\* limit other than 0 has no effect.
BindMount ==
  /\ At("mounts")
  /\ cred.uid = Root
  /\ k <= Len(js.mounts)
  /\ js.mounts[k].absolute
  /\ MountAt(HostPath[js.mounts[k].dst], parameter.limits[k] = 0)
  /\ k' = k + 1
  /\ UNCHANGED <<js, parameter, pos, failed, fds, root, cwd, private, proc,
                 stack, core, cred>>

MountsDone ==
  /\ At("mounts")
  /\ k > Len(js.mounts)
  /\ Advance
  /\ UNCHANGED <<js, parameter, failed, fds, root, cwd, private, leaked, tree,
                 proc, stack, core, cred>>

\* chroot leaves the current directory where it is.
Chroot ==
  /\ At("chroot")
  /\ cred.uid = Root
  /\ root' = "sandbox"
  /\ Advance
  /\ UNCHANGED <<js, parameter, failed, fds, cwd, private, leaked, tree, proc,
                 stack, core, cred>>

Chdir ==
  /\ At("chdir")
  /\ cwd' = "working"
  /\ Advance
  /\ UNCHANGED <<js, parameter, failed, fds, root, private, leaked, tree, proc,
                 stack, core, cred>>

MountProc ==
  /\ At("proc")
  /\ js.mountProc => cred.uid = Root
  /\ proc' = js.mountProc
  /\ leaked' = (leaked \/ (js.mountProc /\ ~ private))
  /\ Advance
  /\ UNCHANGED <<js, parameter, failed, fds, root, cwd, private, tree, stack,
                 core, cred>>

SetHostname ==
  /\ At("hostname")
  /\ js.hostname => cred.uid = Root
  /\ Advance
  /\ UNCHANGED <<js, parameter, failed, fds, root, cwd, private, leaked, tree,
                 proc, stack, core, cred>>

\* Inherited is the code's -2, Unlimited its -1.
LimitStack ==
  /\ At("stack")
  /\ stack' = IF parameter.stackSize # Inherited THEN parameter.stackSize
                                                 ELSE stack
  /\ Advance
  /\ UNCHANGED <<js, parameter, failed, fds, root, cwd, private, leaked, tree,
                 proc, core, cred>>

LimitCore ==
  /\ At("core")
  /\ core' = 0
  /\ Advance
  /\ UNCHANGED <<js, parameter, failed, fds, root, cwd, private, leaked, tree,
                 proc, stack, cred>>

SetCredential(step, to) ==
  /\ At(step)
  /\ cred.uid = Root
  /\ cred' = to
  /\ Advance
  /\ UNCHANGED <<js, parameter, failed, fds, root, cwd, private, leaked, tree,
                 proc, stack, core>>

\* Mutant: the caller's group is added to those of Node.js.
SetGroupsAdds == SetCredential("groups", [cred EXCEPT !.groups = @ \union {User}])

SetGid    == SetCredential("gid",    [cred EXCEPT !.gid = User])
SetGroups == SetCredential("groups", [cred EXCEPT !.groups = {User}])
SetUid    == SetCredential("uid",    [cred EXCEPT !.uid = User])

\* A call of the step failed, or EnsureDirectoryExistance threw.
Fail ==
  /\ ~ failed
  /\ ~ At("ready")
  /\ failed' = TRUE
  /\ UNCHANGED <<js, parameter, pos, k, fds, root, cwd, private, leaked, tree,
                 proc, stack, core, cred>>

Next ==
  \/ Convert \/ OpenNull
  \/ Redirect \/ SkipRedirect
  \/ MakePrivate \/ BindRoot \/ BindMount \/ MountsDone
  \/ Chroot \/ Chdir \/ MountProc \/ SetHostname
  \/ LimitStack \/ LimitCore
  \/ SetGid \/ SetGroups \/ SetUid
  \/ Fail

Spec == Init /\ [][Next]_vars

-----------------------------------------------------------------------------
(***************************************************************************)
(* Properties.                                                             *)
(***************************************************************************)

\* The variables stay in their ranges: no step follows "ready".
TypeOK ==
  /\ js \in Parameters
  /\ parameter \in [ stdio : [Stdio -> [fd : OpenFds \union {-1}, path : Paths]],
                     limits : Seq(Int), memory : Int,
                     stackSize : Nat \union {Inherited} ]
  /\ pos \in 1..Len(Order)
  /\ failed \in BOOLEAN
  /\ k \in Nat \ {0}
  /\ fds \in [OpenFds -> Description]
  /\ root \in {"host", "sandbox"} /\ cwd \in {"node", "working"}
  /\ private \in BOOLEAN /\ leaked \in BOOLEAN
  /\ proc \in BOOLEAN
  /\ stack \in Nat \union {Unlimited, Inherited} /\ core \in {0, Inherited}
  /\ cred \in [uid : {Root, User}, gid : {Root, User},
               groups : {{Root}, {User}}]

\* What the caller asked stream i to be, opened by user u: interfaces.ts:59-66
\* for the place a path is looked up, sandbox.cc:90-93 for a shared output file.
Requested(i, u) ==
  LET v == js.stdio[i]
      Place == IF js.redirectBeforeChroot THEN <<"host", "node">>
                                          ELSE <<"sandbox", "working">>
      Owner == IF i = 2 /\ js.stdio[1].type = "string" /\ js.stdio[1].path = v.path
               THEN 1 ELSE i
  IN  IF v.type = "number" THEN Given(v.num)
      ELSE IF v.type = "other" \/ v.path = NoPath THEN Null
      ELSE File(Owner, v.path, Place[1], Place[2], u)

\* When the child is ready its streams are the ones asked for: every path was
\* opened relative to the directory the caller meant, and stdout and stderr
\* on one path share an offset instead of overwriting each other.  The
\* descriptors 0 to 2 are replaced one by one, so a number below the stream's
\* own denotes the sandbox's stream of that number, not the caller's
\* (sandbox.cc:63-109).  With whose rights a path was opened is left open here:
\* OutputsChecked asks that.
StreamsAsRequested ==
  At("ready") => \A i \in Stdio :
    \/ /\ js.stdio[i].type = "number" /\ js.stdio[i].num < i
       /\ fds[i] = fds[js.stdio[i].num]
    \/ \E u \in {Root, User} : fds[i] = Requested(i, u)

\* Redirection "after chrooting" comes after setuid too, and "the permission will
\* be checked when creating the output files" (interfaces.ts:36-41): they are
\* opened with the rights of the sandbox's user (sandbox.cc:219-223, 246).
OutputsChecked ==
  At("ready") /\ ~ js.redirectBeforeChroot =>
    \A i \in {1, 2} : fds[i].what = "file" => fds[i].as = User

\* No mount of the sandbox is ever made where it would propagate to the host
\* (sandbox.cc:185-218).
HostUntouched == ~ leaked

\* Root is only given up after the last call that needs it: with the steps in
\* any other order the launch fails for every user (sandbox.cc:185-246).
PrivilegedWhileRoot ==
  Order[pos] \in Privileged => cred.uid = Root

\* The limits an int can hold.
FitsInt32(limit) == -Int32Size <= 2 * limit /\ 2 * limit < Int32Size

\* A child that says it is ready has nothing of root left, sits in the chroot,
\* and nothing in it is writable that was not asked to be: a place is writable
\* only when the last mount there asked for it, by whatever name it called the
\* place, and it is then, for every limit an int can hold (sandbox.cc:187-246,
\* addon.cc:160).
Contained ==
  At("ready") =>
    /\ cred = [uid |-> User, gid |-> User, groups |-> {User}]
    /\ root = "sandbox" /\ cwd = "working" /\ core = 0
    /\ "/" \in DOMAIN tree
    /\ \A p \in DOMAIN tree :
         LET asked == { n \in 1..Len(js.mounts) : HostPath[js.mounts[n].dst] = p }
         IN  IF asked = {} THEN tree[p]
             ELSE \E n \in asked :
                    /\ \A m \in asked : m <= n
                    /\ js.mounts[n].limit = 0 => tree[p]
                    /\ tree[p] /\ FitsInt32(js.mounts[n].limit)
                         => js.mounts[n].limit = 0

\* A program that exceeds its limit can be seen to: the kernel's limit lies
\* above the caller's from 16 bytes on (addon.cc:112).
MemoryHeadRoom ==
  pos > 1 /\ js.memory >= 16 => Written(parameter.memory) > js.memory

\* -1 is no limit, for memory (interfaces.ts:16) and for the stack
\* (interfaces.ts:96).
MinusOneIsNoLimit ==
  /\ pos > 1 /\ js.memory = -1 => Written(parameter.memory) = Unlimited
  /\ At("ready") /\ js.stackSize = -1 => stack = Unlimited

=============================================================================
