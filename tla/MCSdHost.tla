------------------------------ MODULE MCSdHost -------------------------------
(* Instances of SdHost for TLC. *)
EXTENDS SdHost

AllOrNone == {{}, {"rx", "tx"}}

\* Guests fill the buffer with blocks that tell their places apart.
Filled == [i \in 1..MaxCount |-> IF i = 1 THEN Info ELSE Zero]
MCNext == SdNext /\ (FillBuffer(buffer') => buffer' = Filled)
MCSpec == SdInit /\ [][MCNext]_sdVars
=============================================================================
