------------------------------ MODULE MCVolume ------------------------------
(* Small images for Volume: blocks of three pointers, two direct pointers; *)
(* two names of which one is a prefix of the other, a name inside the      *)
(* directory ab, one there that ends with the directory's own name and one *)
(* below that, and one that is too long for any directory.                 *)
EXTENDS Volume

CONSTANTS a, ab, abx, abyab, abyabx, long, R,   \* paths: /a, /ab, /ab/x, /ab/yab, /ab/yab/x, /long
          A, AB, X, YAB, LONG                   \* names

MCFather == [p \in Path |-> IF p \in {abx, abyab} THEN ab ELSE IF p = abyabx THEN abyab ELSE R]
MCNameOf == [p \in Path |-> CASE p = a -> A [] p = ab -> AB [] p \in {abx, abyabx} -> X
                              [] p = abyab -> YAB [] p = long -> LONG]
MCPrefix == {<<A, AB>>}
MCSuffix == {<<AB, YAB>>}
MCUnits == [n \in Name |-> IF n = LONG THEN 9 ELSE 3]

\* blocks: none, 1 (direct), 3 (simple), 6 (double), 10 (past the level's size, not full)
MCInitially == {<<>>} \cup {<< <<a, n>> >> : n \in {2, 8, 17, 30}}
MCTruncations == [p \in Path |-> CASE p = a -> {0, 5, 20, 36} [] p = ab -> {4} [] OTHER -> {}]
MCExtents == [p \in Path |-> CASE p = a -> {<<0, 5>>, <<8, 4>>, <<30, 5>>} [] p = ab -> {<<1, 4>>} [] OTHER -> {}]
=============================================================================
