------------------------------ MODULE MCFares ------------------------------
(***************************************************************************)
(* What a trip costs and where its numbers come from: the platform's       *)
(* settings, the pricing rings, the tracked road and its meter, and, of    *)
(* the same settings row, the banners.  They share no state, so one run    *)
(* explores them one at a time, the others at rest.                        *)
(***************************************************************************)
EXTENDS PlatformSettings, Pricing, Tracking, TLC

VARIABLE part

(* Two of the five rings a new profile gets.                               *)
TwoRings ==
  << [id |-> 0, profile |-> 0, code |-> "city", from |-> 0, to |-> 1,
      fee |-> 0, rate |-> Nobody, sort |-> 1],
     [id |-> 0, profile |-> 0, code |-> "outer_1", from |-> 1, to |-> Unbounded,
      fee |-> MaxFee, rate |-> 1, sort |-> 2] >>

(* Standing, driving on, and there and back.                               *)
Roads == {[t \in 0..EndOfTime |-> 0], [t \in 0..EndOfTime |-> t], [t \in 0..EndOfTime |-> t % 2]}

(* The configuration gives every part the same two requests.               *)
Alike == Permutations(Callers) \cup Permutations(TrackedZones)

Init ==
  /\ part \in {"settings", "banners", "pricing", "tracking"}
  /\ SettingsInit /\ BannersInit /\ PricingInit /\ TrackingInit
  (* where a part at rest has a choice of initial states, one of them      *)
  /\ part # "pricing" => zone.centre
  /\ part # "tracking" => path = [t \in 0..EndOfTime |-> 0]

Next ==
  /\ UNCHANGED part
  /\ \/ /\ part = "settings" /\ SettingsNext
        /\ UNCHANGED <<bannerVars, pricingVars, trackingVars>>
     \/ /\ part = "banners" /\ BannersNext
        /\ UNCHANGED <<settingsVars, pricingVars, trackingVars>>
     \/ /\ part = "pricing" /\ PricingNext
        /\ UNCHANGED <<settingsVars, bannerVars, trackingVars>>
     \/ /\ part = "tracking" /\ TrackingNext
        /\ UNCHANGED <<settingsVars, bannerVars, pricingVars>>

Spec == Init /\ [][Next]_<<part, settingsVars, bannerVars, pricingVars, trackingVars>>
=============================================================================
