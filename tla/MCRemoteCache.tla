------------------------ MODULE MCRemoteCache ------------------------
(***************************************************************************)
(* Instances of RemoteCache for TLC.  Keys and connections are only        *)
(* compared for equality, so they can be permuted.                         *)
(***************************************************************************)
EXTENDS RemoteCache, TLC

\* a size larger than the memory in each; in the buddy system items of one, two and four
\* slabs; in the other one items that leave gaps to compact
SingleSizes == "ParticionesDinamicas" :> {1, 3, 6, 9} @@ "BuddySystem" :> {1, 3, 6, 9}
SharedSizes == "ParticionesDinamicas" :> {1, 2}

Symmetric == Permutations(Key) \cup Permutations(Conn)
=============================================================================
