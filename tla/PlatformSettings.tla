--------------------------- MODULE PlatformSettings ---------------------------
(* The one PlatformSettings row: its pricing fields and its banners.  Their *)
(* handlers write different columns, and neither reads the other's.        *)
EXTENDS Settings, Banners

PlatformSpec == SettingsSpec /\ BannersSpec

(* The settings row serves its readers, the pricing fields as the banners,  *)
(* however requests for the one and the other interleave.                   *)
SettingsServe == LowNotUnderMin /\ PatchesAddUp /\ BannersBounded /\ BannersOnDisk
=============================================================================
