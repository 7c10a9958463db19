----------------------------- MODULE Deployment -----------------------------
(***************************************************************************)
(* What every module about several server processes has in common: main.rs *)
(* builds in each process the same services over the one database.         *)
(***************************************************************************)

CONSTANTS
    Instances,      \* server processes
    Tasks,          \* calls, each made once
    None
=============================================================================
