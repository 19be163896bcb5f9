-------------------------------- MODULE MCEipScan --------------------------------
(***************************************************************************)
(* Model checking one PLC: two tags, an input of t1 and an output of t2.   *)
(***************************************************************************)
EXTENDS EipScan

CONSTANTS t1, t2   \* tags

\* One list of both tags, or a fast one and a slow one.
MCInitialLists == IF ListCount = 1 THEN <<<<t1, t2>>>> ELSE <<<<t1>>, <<t2>>>>
MCPeriod == [l \in Lists |-> l]

MCInitialTag == [r \in Records |-> IF r = "in" THEN t1 ELSE t2]
MCOrder == <<"in", "out">>

\* With Limit = 2 a request takes two reads or one write.
MCReadSize == [t \in Tags |-> 1]
MCWriteSize == [t \in Tags |-> 2]

\* A passive output that follows the PLC; a periodic one that follows it, or not.
Passive == [periodic |-> {}, forced |-> {}]
Scanned == [periodic |-> {"out"}, forced |-> {}]
Insisting == [periodic |-> {"out"}, forced |-> {"out"}]
MCOptions == {Passive, Insisting}
MCScanned == {Scanned}
================================================================================
