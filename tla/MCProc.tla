------------------------------ MODULE MCProc ------------------------------
(* Model checking of Proc: two CPUs, two user processes of up to two       *)
(* threads, one resource queue.                                            *)
EXTENDS Proc
=============================================================================
