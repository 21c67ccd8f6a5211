-------------------------- MODULE MCStatusHistory --------------------------
(***************************************************************************)
(* Instances of StatusHistory for TLC: days of two ticks.                  *)
(***************************************************************************)
EXTENDS StatusHistory

CONSTANTS p1, p2

MCTwoProviders == {p1, p2}

MCAllPeriods ==
  {d \in Times \X (Times \cup {NoDate}) : d[2] # NoDate => d[1] < d[2]}
(* From the first day into the middle of the second, and without an end.   *)
MCTwoPeriods == {<<0, 3>>, <<1, NoDate>>}
=============================================================================
