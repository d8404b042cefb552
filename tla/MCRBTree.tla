------------------------------ MODULE MCRBTree -----------------------------
(***************************************************************************)
(* The TLC instance of RBTree in MCRBTreeOps.cfg: every sequence of calls  *)
(* on four keys, two values, and a buffer one node short.                  *)
(***************************************************************************)
EXTENDS RBTree
=============================================================================
