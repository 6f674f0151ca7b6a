------------------------------ MODULE MCMonths ------------------------------
(***************************************************************************)
(* What is reckoned by the month: settlements, the leaderboard and the     *)
(* champions' programme.  They share no state but the trips, of which each *)
(* keeps its own sums, so one run explores them one at a time, the others  *)
(* at rest.                                                                *)
(***************************************************************************)
EXTENDS Settlement, Board, Champions, TLC

CONSTANTS d1, d2, d3
VARIABLE part

(* Two drivers tie in rating.                                              *)
Ratings   == d1 :> 1 @@ d2 :> 1 @@ d3 :> 2
TierMarks == <<0, 1, 3>>
Alike     == Permutations(Syncs)

Init ==
  /\ part \in {"settlement", "board", "month", "bonus", "xp"}
  /\ SettlementInit /\ BoardInit /\ MonthInit /\ BonusInit /\ XpInit
  /\ part # "board" => members = {}
  /\ part # "settlement" => \A t, u \in Trips : trip[t].driver = trip[u].driver

Next ==
  /\ UNCHANGED part
  /\ \/ /\ part = "settlement" /\ SettlementNext
        /\ UNCHANGED <<boardVars, monthVars, bonusVars, xpVars>>
     \/ /\ part = "board" /\ BoardNext
        /\ UNCHANGED <<settlementVars, monthVars, bonusVars, xpVars>>
     \/ /\ part = "month" /\ MonthNext
        /\ UNCHANGED <<settlementVars, boardVars, bonusVars, xpVars>>
     \/ /\ part = "bonus" /\ BonusNext
        /\ UNCHANGED <<settlementVars, boardVars, monthVars, xpVars>>
     \/ /\ part = "xp" /\ XpNext
        /\ UNCHANGED <<settlementVars, boardVars, monthVars, bonusVars>>

Spec == Init /\ [][Next]_<<part, settlementVars, boardVars, monthVars, bonusVars, xpVars>>
=============================================================================
