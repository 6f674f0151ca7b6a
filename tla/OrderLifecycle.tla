--------------------------- MODULE OrderLifecycle ---------------------------
(***************************************************************************)
(* The life of an order as an operator sees it: one status that only moves *)
(* forward, closed for good once it is closed, and one commission charge,  *)
(* made when the order completes.                                          *)
(***************************************************************************)
EXTENDS Naturals

CONSTANTS Orders

VARIABLES
  status,     (* status of each order                                       *)
  charges     (* commission charges made for it                             *)

vars == <<status, charges>>

Underway == {"ACCEPTED", "DRIVER_ARRIVING", "PASSENGER_ONBOARD"}

Move(o, from, to) ==
  /\ status[o] \in from
  /\ status' = [status EXCEPT ![o] = to]

Advance(o) ==
  /\ \/ Move(o, {"NONE"}, "CREATED")
     \/ Move(o, {"CREATED"}, "BROADCASTED")
     \/ Move(o, {"BROADCASTED"}, "ACCEPTED")
     \/ Move(o, {"ACCEPTED"}, "DRIVER_ARRIVING")
     \/ Move(o, {"DRIVER_ARRIVING"}, "PASSENGER_ONBOARD")
  /\ UNCHANGED charges

Complete(o) ==
  /\ Move(o, {"PASSENGER_ONBOARD"}, "COMPLETED")
  /\ charges' = [charges EXCEPT ![o] = @ + 1]

Cancel(o) ==
  /\ \/ Move(o, {"CREATED", "BROADCASTED"} \cup Underway, "CANCELLED_BY_OPERATOR")
     \/ Move(o, Underway, "CANCELLED_BY_DRIVER")
     \/ Move(o, {"DRIVER_ARRIVING"}, "CANCELLED_BY_PASSENGER")
  /\ UNCHANGED charges

Init ==
  /\ status = [o \in Orders |-> "NONE"]
  /\ charges = [o \in Orders |-> 0]

Next == \E o \in Orders : Advance(o) \/ Complete(o) \/ Cancel(o)

Spec == Init /\ [][Next]_vars
=============================================================================
