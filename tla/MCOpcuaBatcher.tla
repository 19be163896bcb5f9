----------------------------- MODULE MCOpcuaBatcher -----------------------------
(***************************************************************************)
(* Model checking the batcher, with the limits and hold-offs each          *)
(* configuration file names.                                               *)
(***************************************************************************)
EXTENDS OpcuaBatcher
================================================================================
