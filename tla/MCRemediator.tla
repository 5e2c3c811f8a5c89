---------------------------- MODULE MCRemediator ----------------------------
(***************************************************************************)
(* The process with one handler of each informer and a channel of one      *)
(* place, on two failures of a pod in one second.                          *)
(***************************************************************************)
EXTENDS Remediator

CONSTANTS p1, OOMKilled, CrashLoopBackOff, s1

MCEvents == { [pod |-> p1, type |-> OOMKilled, second |-> s1],
              [pod |-> p1, type |-> CrashLoopBackOff, second |-> s1] }
=============================================================================
