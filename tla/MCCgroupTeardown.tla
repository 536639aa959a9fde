-------------------------- MODULE MCCgroupTeardown --------------------------
(***************************************************************************)
(* Ways to mount the controllers, and short memory.stat files, for         *)
(* CgroupTeardown.                                                         *)
(***************************************************************************)
EXTENDS CgroupTeardown

Mount(type, dir, opts) == [type |-> type, dir |-> dir, opts |-> opts]
Pids   == Mount("cgroup", "pids", {"rw", "pids"})
Apart  == <<Mount("cgroup", "memory", {"rw", "memory"}),
            Mount("cgroup", "cpu,cpuacct", {"rw", "cpu", "cpuacct"}), Pids>>

\* As usual; with a unified hierarchy and a second mount; two in one.
MCMountTables ==
  { Apart,
    <<Mount("cgroup2", "unified", {"rw", "memory", "pids"})>> \o Apart
      \o <<Mount("cgroup", "elsewhere", {"rw", "memory"})>>,
    <<Mount("cgroup", "both", {"rw", "memory", "cpuacct"}), Pids>> }

StatLine == [name : {"cache", "rss"}, val : {3}, good : BOOLEAN]
            \union {[name |-> "cache", val |-> 5, good |-> TRUE]}

MCStatFiles == UNION {[1..l -> StatLine] : l \in 0..2}

=============================================================================
