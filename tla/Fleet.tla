-------------------------------- MODULE Fleet --------------------------------
(* The drivers that pushes and news speak of, and SQL NULL.                 *)
CONSTANTS Drivers, NoValue

ASSUME FleetAssumption == NoValue \notin Drivers
=============================================================================
