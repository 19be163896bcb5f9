------------------------------ MODULE MCOpcuaLeaf ------------------------------
(***************************************************************************)
(* Model checking the leaf and the passes of its record.                   *)
(***************************************************************************)
EXTENDS OpcuaLeaf
================================================================================
