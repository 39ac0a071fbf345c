---- MODULE WholeMachine ----
(* The simulator's process: the CPU thread with the board, and beside it   *)
(* the management thread, which main starts before the platform is set up. *)
(* They share the log flags only, which the board does not depend on; the  *)
(* process and with it both threads end when sim_quit calls exit.          *)
EXTENDS Board, Management

machineVars == <<boardVars, mgmtVars>>

MachineInit == BoardInit /\ MgmtInit

CpuThread == BoardNext /\ UNCHANGED mgmtVars

MgmtThread == stage # "exited" /\ MgmtNext /\ UNCHANGED boardVars

MachineSpec == MachineInit /\ [][CpuThread \/ MgmtThread]_machineVars
====
