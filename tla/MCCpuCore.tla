------------------------------ MODULE MCCpuCore ------------------------------
(* Instances of CpuCore for TLC. *)
EXTENDS CpuCore

MixedProgram == <<"lwarx", "stwcx", "branch", "load", "sc", "trap">>
ResetMsr == {}
=============================================================================
