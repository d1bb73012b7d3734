---------------------------- MODULE MCAppRuntime ----------------------------
(***************************************************************************)
(* Instances of AppRuntime: a health runner and one or two others.         *)
(***************************************************************************)
EXTENDS AppRuntime

CONSTANTS h, t1, t2
=============================================================================
