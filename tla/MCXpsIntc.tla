------------------------------ MODULE MCXpsIntc ------------------------------
(* Instances of XpsIntc for TLC.  Line numbers as in platform.h.           *)
EXTENDS XpsIntc

UartLine == 0

UartOnly == {UartLine}
=============================================================================
