-------------------------------- MODULE MCAdsPort -------------------------------
(***************************************************************************)
(* Model checking the ADS port with two parameters.                        *)
(***************************************************************************)
EXTENDS AdsPort

CONSTANTS a, b

\* One parameter is bound while the port runs, or one or both are polled.
MCSetups == {[bulk |-> {}, late |-> {a}], [bulk |-> {b}, late |-> {}],
             [bulk |-> {a, b}, late |-> {}]}

\* One parameter is polled.
MCPolled == {[bulk |-> {b}, late |-> {}]}

\* One parameter is bound while the port runs.
MCBoundLate == {[bulk |-> {}, late |-> {a}]}
================================================================================
