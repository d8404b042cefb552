------------------------------ MODULE MCHashMap ----------------------------
(***************************************************************************)
(* TLC instances of HashMap, with hashes of two or three bits.             *)
(*   MCHashMapOps    every call but clear and copy, on a heap map that grows*)
(*                   from 2 buckets to 4, the largest table of 2-bit hashes,*)
(*                   and on maps in the caller's buffer                    *)
(*   MCHashMapClear  cleared and used again                                *)
(*   MCHashMapCopy   overwritten with a copy                               *)
(***************************************************************************)
EXTENDS HashMap

\* Keys 1 and 2 have the same hash; 3 shares their home in small tables; the
\* home of 4 is the last bucket of every table.
Collide == [k \in Key |-> CASE k = 1 -> 0 [] k = 2 -> 0 [] k = 3 -> 1
                            [] OTHER -> 2^HashBits - 1]

OnHeap == {[ext |-> FALSE, size |-> 0]}

\* Size 1 is left out: shm_alloca(1) leaves room for one bucket before the
\* elements, and the map has two.
OnBoth == OnHeap \cup [ext : {TRUE}, size : {2, 4}]
=============================================================================
