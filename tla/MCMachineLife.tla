--------------------------- MODULE MCMachineLife ---------------------------
(* MachineLife with one change, at any time.                                *)
EXTENDS MachineLife
=============================================================================
