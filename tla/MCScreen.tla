------------------------------- MODULE MCScreen -------------------------------
(***************************************************************************)
(* Two instances of Screen for one run of TLC.                             *)
(*                                                                         *)
(* "bar": one change of the window between two heights, with everything    *)
(* that may happen to the bar.  The bus has room for one event.  A resize  *)
(* damages what is displayed only of a bar of one row.                     *)
(*                                                                         *)
(* "sizes": two changes between three heights, with a bus of two, another  *)
(* signal in SIGWINCH's channel, and a child that does no more than switch *)
(* screens; the configuration and the rendering of the bar stay.           *)
(***************************************************************************)
EXTENDS Screen

CONSTANTS v1, v2

VARIABLE about

MCInit ==
    /\ Init
    /\ \/ about = "bar"   /\ winRows # 5
       \/ about = "sizes" /\ area = 1 /\ content = v1

OnlyTheBar ==
    /\ resizes' <= 1 /\ winRows' # 5
    /\ sig' \notin OtherSignals
    /\ Len(bus') <= 1
    /\ shown' = Lost => area' = 1

OnlySizes ==
    /\ area' = area /\ content' = content
    /\ ~clobbered' /\ ~scrollReset' /\ ~deferred' /\ ~late'
    /\ regionBy' = "ptyline" /\ shown' # Lost

MCNext ==
    /\ Next
    /\ about' = about
    /\ about = "bar" => OnlyTheBar
    /\ about = "sizes" => OnlySizes

MCSpec == MCInit /\ [][MCNext]_<<vars, about>> /\ Fairness
===============================================================================
