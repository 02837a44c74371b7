---------------------------- MODULE MCExecRefresh ----------------------------
(***************************************************************************)
(* Constant values for the model-checking runs of ExecRefresh.             *)
(***************************************************************************)
EXTENDS ExecRefresh

CONSTANTS w1, w2, d1, d2

\* The shell starts in d1: which directory comes first makes no difference.
MCInit == Init /\ cwd = d1
MCSpec == MCInit /\ [][Next]_vars /\ Fairness
===============================================================================
