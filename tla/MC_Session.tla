----------------------------- MODULE MC_Session ----------------------------
(* Two caller threads and one user for TLC: the races are between the     *)
(* threads, and a second user only multiplies the states.                 *)
EXTENDS Session

CONSTANTS th1, th2, u1

MCThreads == {th1, th2}
MCUsers == {u1}
=============================================================================
