---------------------------- MODULE MCChildSetup ----------------------------
(***************************************************************************)
(* Parameters for ChildSetup: every combination of streams, every short    *)
(* list of mounts on two places, and the limits at their boundaries, each  *)
(* with everything else fixed.                                             *)
(***************************************************************************)
EXTENDS ChildSetup

MCOpenFds == {0, 1, 2, 7}
MCNoPath  == "none"
MCPaths   == {MCNoPath, "/", "a", "b", "s", "/d", "/e", "d", "/l"}

\* "/l" is a link to "/e" on the host.
MCHostPath == [p \in MCPaths |-> IF p = "/l" THEN "/e" ELSE p]

\* An int of four bits.
MCInt32Size == 16

Number(n) == [type |-> "number", num |-> n, path |-> NoPath]
Path(p)   == [type |-> "string", num |-> 0, path |-> p]
Missing   == [type |-> "other",  num |-> 0, path |-> NoPath]

Streams == {Number(1), Number(7), Path("a"), Path("b"), Path(NoPath), Missing}
\* -1 is no limit; a limit of Int32Size, 4 GiB in the code, is more than an int
\* holds.
Mounts  == [src : {"s"}, dst : {"/d", "/e", "/l"}, absolute : {TRUE},
            limit : {0, -1, MCInt32Size}]
           \union {[src |-> "s", dst |-> "d", absolute |-> FALSE, limit |-> 0]}

Plain == [ stdio |-> [i \in Stdio |-> Missing], redirectBeforeChroot |-> FALSE,
           mounts |-> << >>, mountProc |-> FALSE, hostname |-> FALSE,
           memory |-> 64, stackSize |-> 8 ]

MCParameters ==
  { [Plain EXCEPT !.stdio = s, !.redirectBeforeChroot = b] :
      s \in [Stdio -> Streams], b \in BOOLEAN }
  \union
  { [Plain EXCEPT !.mounts = m, !.mountProc = b, !.hostname = b] :
      m \in UNION { [1..n -> Mounts] : n \in 0..2 }, b \in BOOLEAN }
  \union
  { [Plain EXCEPT !.memory = m, !.stackSize = s] :
      m \in 16..40, s \in {-1, 0, 8} }

\* The caller may also say "no limit".
MCNoLimit == { [Plain EXCEPT !.memory = m, !.stackSize = s] :
                 m \in {-1, 64}, s \in {-1, 8} }

=============================================================================
