--------------------------- MODULE MCOpenFileTable ---------------------------
(* Instances of OpenFileTable for TLC: the root, a directory d, a file f in it *)
(* and a name n that does not exist yet.                                       *)
EXTENDS OpenFileTable, TLC

CONSTANTS w1, w2, w3

MCPath   == {"/", "/d", "/d/f", "/d/n"}
MCFather == [p \in MCPath |-> IF p \in {"/", "/d"} THEN "/" ELSE "/d"]
MCTree   == [p \in MCPath |-> IF p \in {"/", "/d"} THEN "dir"
                              ELSE IF p = "/d/f" THEN "reg" ELSE "zero"]

Req(o, p) == [op |-> o, path |-> p]

\* no operation removes anything and only existing files are read and written: one
\* operation of each locking discipline, and two creators of one name (truncate
\* locks as write does, getattr as readdir)
SteadyRequests ==
  {Req("read", "/d/f"), Req("write", "/d/f"), Req("readdir", "/d"),
   Req("create", "/d/n"), Req("mkdir", "/d/n")}

\* creation and removal of the same names
RemovalRequests ==
  {Req("getattr", "/d/f"), Req("write", "/d/f"), Req("removefile", "/d/f"),
   Req("readdir", "/d"), Req("create", "/d/f"), Req("removedir", "/d"),
   Req("mkdir", "/d/f"), Req("readdir", "/d/f")}

\* one client lists a directory while another removes it
RmdirRequests == {Req("readdir", "/d"), Req("removedir", "/d")}

Threads == Permutations(Worker)
=============================================================================
