------------------------------ MODULE MCSData ------------------------------
(***************************************************************************)
(* TLC instances of SData: a string, with 1-byte elements and 6 for the    *)
(* largest 8-bit counter.                                                  *)
(*   MCSDataCore    every call but the shrink of a long string to a short  *)
(*   MCSDataShrink  every call                                             *)
(***************************************************************************)
EXTENDS SData
============================================================================
