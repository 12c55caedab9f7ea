---------------------------- MODULE MCMachineRun ----------------------------
(* MachineRun on a small instance. *)
EXTENDS MachineRun
=============================================================================
