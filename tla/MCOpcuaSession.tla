----------------------------- MODULE MCOpcuaSession -----------------------------
(***************************************************************************)
(* Model checking the session: one or two items, with the options each     *)
(* configuration file names.                                               *)
(***************************************************************************)
EXTENDS OpcuaSession

CONSTANTS BiniOf1, BiniOf2   \* the bini options of the first and the other items

MCBini == [i \in Items |-> IF i = 1 THEN BiniOf1 ELSE BiniOf2]
================================================================================
