----------------------------- MODULE OrderClaim -----------------------------
(***************************************************************************)
(* What dispatching promises of an order, however many requests race for   *)
(* it: it is won by one driver, one time, among those it was offered to,   *)
(* and only a won order is ever charged commission for.                    *)
(***************************************************************************)
CONSTANTS Orders, Drivers, None

VARIABLES
  offered,    (* the drivers the order has been offered to                  *)
  winner,     (* the driver that won it                                     *)
  charged     (* whether commission was charged for it                      *)

vars == <<offered, winner, charged>>

Init ==
  /\ offered = [o \in Orders |-> {}]
  /\ winner  = [o \in Orders |-> None]
  /\ charged = [o \in Orders |-> FALSE]

Offer(o, d) ==
  /\ offered' = [offered EXCEPT ![o] = @ \cup {d}]
  /\ UNCHANGED <<winner, charged>>

Win(o, d) ==
  /\ winner[o] = None
  /\ d \in offered[o]
  /\ winner' = [winner EXCEPT ![o] = d]
  /\ UNCHANGED <<offered, charged>>

Charge(o) ==
  /\ winner[o] # None
  /\ charged' = [charged EXCEPT ![o] = TRUE]
  /\ UNCHANGED <<offered, winner>>

Next == \E o \in Orders : Charge(o) \/ \E d \in Drivers : Offer(o, d) \/ Win(o, d)

Spec == Init /\ [][Next]_vars
=============================================================================
