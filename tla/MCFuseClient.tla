---------------------------- MODULE MCFuseClient ----------------------------
(* Two FUSE threads of one mount and one of another, one connection each, and *)
(* a directory d with a file f, a new name n and a name too long for the server. *)
EXTENDS FuseClient, TLC

CONSTANTS t1, t2, t3, m1, m2

MCMountOf     == t1 :> m1 @@ t2 :> m1 @@ t3 :> m2
MCConnections == m1 :> {1} @@ m2 :> {2}
MCPath        == {"/", "/d", "/d/f", "/d/n", "/d/long"}
MCFather      == [p \in MCPath |-> IF p \in {"/", "/d"} THEN "/" ELSE "/d"]
MCTree        == [p \in MCPath |-> IF p \in {"/", "/d"} THEN "dir"
                                   ELSE IF p = "/d/f" THEN "reg" ELSE "none"]

C(o, p) == [op |-> o, path |-> p]
Lists   == {C("readdir", "/d"), C("getattr", "/d/f")}
Changes == {C("create", "/d/n"), C("mkdir", "/d/n"), C("unlink", "/d/f"), C("rmdir", "/d"),
            C("truncate", "/d/f"), C("write", "/d/f"), C("create", "/d/long")}
MCCalls == t1 :> Changes @@ t2 :> Lists \cup {C("read", "/d/f")}
           @@ t3 :> Lists \cup {C("create", "/d/n"), C("mkdir", "/d/n"), C("unlink", "/d/f")}
=============================================================================
