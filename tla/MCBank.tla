-------------------------------- MODULE MCBank --------------------------------
(* Instances of Bank for TLC.                                              *)
EXTENDS Bank, TLC

CONSTANTS c1, c2, c3

\* Two that deposit and one that withdraws, as demo.sh does with two of each.
Amounts == c1 :> 1 @@ c2 :> -2 @@ c3 :> 4
Rounds == c1 :> 2 @@ c2 :> 2 @@ c3 :> 1

\* One deposit against one withdrawal.
TwoAmounts == c1 :> 1 @@ c2 :> -2
TwoRounds == c1 :> 1 @@ c2 :> 1

=============================================================================
