--------------------------- MODULE MCOpcuaUpdateQueue ---------------------------
(***************************************************************************)
(* Model checking the update queue, for one capacity and discard policy    *)
(* per configuration file.                                                 *)
(***************************************************************************)
EXTENDS OpcuaUpdateQueue
================================================================================
