-------------------------- MODULE MCBatchDeleter --------------------------
(* BatchDeleter for TLC: pages of two objects and two threads.             *)
EXTENDS BatchDeleter

CONSTANTS w1, w2
=============================================================================
