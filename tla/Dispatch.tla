------------------------------ MODULE Dispatch ------------------------------
(***************************************************************************)
(* Orders, offers (OrderAssignment rows), trips and driver availability of *)
(* the salom-api server, as the handlers of DispatchService,               *)
(* OrderLifecycleService, TripsService and setPresence change them.        *)
(*                                                                         *)
(* A request occupies a slot.  Every statement a handler sends to the      *)
(* database outside a transaction is a step of its own, because other      *)
(* requests run at each await.  A transaction is its reads, one step each, *)
(* and one step that applies its writes: the database runs at READ         *)
(* COMMITTED, so nothing of a transaction is seen before it commits, and   *)
(* nothing it has read is protected from later writers.  With one slot     *)
(* requests are served one after another.                                  *)
(***************************************************************************)
EXTENDS Integers, FiniteSets

CONSTANTS
  Orders,     (* ids of orders                                              *)
  Drivers,    (* ids of drivers                                             *)
  Rows,       (* ids of offer rows: bounds the offers ever made             *)
  Slots,      (* requests that may be in flight at once                     *)
  Handlers,   (* the endpoints and events this instance exercises           *)
  None        (* SQL NULL                                                   *)

AllHandlers ==
  {"create", "broadcast", "offer", "accept", "reject", "cancelByOperator",
   "cancelByDriver", "noShow", "arrived", "start", "dispute", "resolve",
   "complete", "presence", "suspend", "lapse", "abort"}

ASSUME HandlersAssumption == Handlers \subseteq AllHandlers
ASSUME NoneAssumption == None \notin Orders \cup Drivers \cup Rows

VARIABLES
  order,      (* Order: status and assignedDriverId                         *)
  asg,        (* OrderAssignment: status, orderId, driverId                 *)
  trip,       (* Trip of an order: status, driverId, waitingStartedAt set   *)
  op,         (* Driver.operationalStatus                                   *)
  acct,       (* User.status of the driver                                  *)
  charges,    (* TRIP_COMMISSION_DEBIT rows written for the order's trip    *)
  req         (* the requests in flight                                     *)

vars == <<order, asg, trip, op, acct, charges, req>>

-----------------------------------------------------------------------------
(* Rows and their statuses.                                                *)

Terminal == {"COMPLETED", "CANCELLED_BY_OPERATOR", "CANCELLED_BY_DRIVER",
             "CANCELLED_BY_PASSENGER", "EXPIRED"}
OrderStatus == {"NONE", "CREATED", "BROADCASTED", "ACCEPTED", "DRIVER_ARRIVING",
                "PASSENGER_ONBOARD"} \cup Terminal
(* LAPSED: the row still says PENDING, and its expiresAt has passed.        *)
AssignmentStatus == {"NONE", "PENDING", "LAPSED", "ACCEPTED", "REJECTED", "EXPIRED", "SUPERSEDED"}
TripStatus == {"NONE", "NOT_STARTED", "ACTIVE", "DISPUTED", "COMPLETED", "CANCELLED"}
CantOffline == {"EN_ROUTE_PICKUP", "ARRIVED_PICKUP", "IN_TRIP"}
OperationalStatus == {"OFFLINE", "ONLINE_IDLE", "ORDER_OFFERED"} \cup CantOffline

NoOrder == [status |-> "NONE", driver |-> None]
NoRow   == [status |-> "NONE", order |-> None, driver |-> None]
NoTrip  == [status |-> "NONE", driver |-> None, arrived |-> FALSE]

IsPending(a) == asg[a].status \in {"PENDING", "LAPSED"}
Pending(o)   == {a \in Rows : IsPending(a) /\ asg[a].order = o}
Stale        == {a \in Rows : asg[a].status = "LAPSED"}
Free         == {a \in Rows : asg[a].status = "NONE"}
DriversOf(R) == {asg[a].driver : a \in R}

-----------------------------------------------------------------------------
(* Requests.  handler says what follows a shared sub-procedure, pc is the  *)
(* next statement; the other fields are the handler's local variables.     *)

Idle == [handler |-> "none", pc |-> "idle", order |-> None, driver |-> None,
         rows |-> {}, row |-> None, cands |-> {}, flag |-> FALSE]

At(s, label) == req[s].pc = label
Goto(s, r)   == req' = [req EXCEPT ![s] = r]
Finish(s)    == Goto(s, Idle)

(* A request in flight at a statement.                                     *)
Labels ==
  {"idle", "expire", "expireDriver", "broadcast", "findPending", "supersede",
   "supersedeDriver", "select", "insert", "markOffered", "markBroadcasted",
   "accept", "acceptOffer", "acceptRivals", "acceptCommit", "reject", "rejectRow", "rejectDriver",
   "cancelRead", "cancelPending", "cancelCommit", "arriveCommit", "startCommit",
   "disputeCommit", "completeRead", "completeCommit", "online", "offline"}

Requests ==
  [handler : {"none", "broadcast", "offer", "accept", "reject"} \cup Terminal,
   pc : Labels, order : Orders \cup {None}, driver : Drivers \cup {None},
   rows : SUBSET Rows, row : Rows \cup {None}, cands : SUBSET Drivers, flag : BOOLEAN]

(* Mutant: getCurrentOffer falls through to a statement it does not have.   *)
ResumeAlways(r) == [r EXCEPT !.pc = r.handler, !.row = None]

(* The request continues past expireStaleAssignments: getCurrentOffer only *)
(* reads from here on, the others go on under their own name.              *)
Resume(r) ==
  IF r.handler = "offer" THEN Idle ELSE [r EXCEPT !.pc = r.handler, !.row = None]

(* SalomDriverOperationalGuard on every driver endpoint but presence.      *)
MayAct(d) == d \in Drivers /\ acct[d] = "ACTIVE"

(* Mutant: the driver of a withdrawn offer is left waiting.                 *)
KeepOffered(d) == UNCHANGED op

ReleaseIfOffered(d) ==
  op' = [op EXCEPT ![d] = IF @ = "ORDER_OFFERED" THEN "ONLINE_IDLE" ELSE @]

-----------------------------------------------------------------------------
(* createOrder.                                                            *)

CreateOrder(o) ==
  /\ "create" \in Handlers
  /\ order[o].status = "NONE"
  /\ order' = [order EXCEPT ![o].status = "CREATED"]
  /\ UNCHANGED <<asg, trip, op, acct, charges, req>>

-----------------------------------------------------------------------------
(* expireStaleAssignments, the first call of broadcastOrder,               *)
(* getCurrentOffer, acceptOrder and rejectOrder.                           *)

ExpireStale(s, h, o, d) ==
  LET r == [Idle EXCEPT !.handler = h, !.order = o, !.driver = d, !.rows = Stale]
  IN  /\ h \in Handlers
      /\ At(s, "idle")
      /\ Goto(s, IF Stale = {} THEN Resume(r) ELSE [r EXCEPT !.pc = "expire"])
      /\ UNCHANGED <<order, asg, trip, op, acct, charges>>

ExpireRow(s) ==
  /\ At(s, "expire")
  /\ \E a \in req[s].rows :
       /\ asg' = [asg EXCEPT ![a].status = "EXPIRED"]
       /\ Goto(s, [req[s] EXCEPT !.pc = "expireDriver", !.row = a, !.rows = @ \ {a}])
  /\ UNCHANGED <<order, trip, op, acct, charges>>

ExpireDriver(s) ==
  /\ At(s, "expireDriver")
  /\ ReleaseIfOffered(asg[req[s].row].driver)
  /\ Goto(s, IF req[s].rows = {} THEN Resume(req[s]) ELSE [req[s] EXCEPT !.pc = "expire"])
  /\ UNCHANGED <<order, asg, trip, acct, charges>>

BroadcastOrder(s, o)  == order[o].status # "NONE" /\ ExpireStale(s, "broadcast", o, None)
GetCurrentOffer(s, d) == MayAct(d) /\ Stale # {} /\ ExpireStale(s, "offer", None, d)
AcceptOrder(s, o, d)  == order[o].status # "NONE" /\ MayAct(d) /\ ExpireStale(s, "accept", o, d)
RejectOrder(s, o, d)  == order[o].status # "NONE" /\ MayAct(d) /\ ExpireStale(s, "reject", o, d)

-----------------------------------------------------------------------------
(* broadcastOrder: no transaction.                                         *)

BroadcastReadOrder(s) ==
  /\ At(s, "broadcast")
  /\ IF order[req[s].order].status \in {"CREATED", "BROADCASTED"}
     THEN Goto(s, [req[s] EXCEPT !.pc = "findPending",
                                 !.flag = order[req[s].order].status = "CREATED"])
     ELSE Finish(s)
  /\ UNCHANGED <<order, asg, trip, op, acct, charges>>

BroadcastFindPending(s) ==
  /\ At(s, "findPending")
  /\ Goto(s, [req[s] EXCEPT !.rows = Pending(req[s].order),
                            !.pc = IF Pending(req[s].order) = {} THEN "select" ELSE "supersede"])
  /\ UNCHANGED <<order, asg, trip, op, acct, charges>>

BroadcastSupersede(s) ==
  /\ At(s, "supersede")
  /\ \E a \in req[s].rows :
       /\ asg' = [asg EXCEPT ![a].status = "SUPERSEDED"]
       /\ Goto(s, [req[s] EXCEPT !.pc = "supersedeDriver", !.row = a, !.rows = @ \ {a}])
  /\ UNCHANGED <<order, trip, op, acct, charges>>

BroadcastRelease(s) ==
  /\ At(s, "supersedeDriver")
  /\ ReleaseIfOffered(asg[req[s].row].driver)
  /\ Goto(s, [req[s] EXCEPT !.pc = IF req[s].rows = {} THEN "select" ELSE "supersede",
                            !.row = None])
  /\ UNCHANGED <<order, asg, trip, acct, charges>>

(* Balances and distances choose which of the idle drivers get the offer;   *)
(* with none left the request fails with NO_ELIGIBLE_DRIVERS.               *)
Candidates == {d \in Drivers : op[d] = "ONLINE_IDLE" /\ acct[d] = "ACTIVE"}

BroadcastSelect(s) ==
  /\ At(s, "select")
  /\ \E C \in SUBSET Candidates :
       /\ Cardinality(C) <= Cardinality(Free)
       /\ IF C = {} THEN Finish(s)
                    ELSE Goto(s, [req[s] EXCEPT !.pc = "insert", !.cands = C])
  /\ UNCHANGED <<order, asg, trip, op, acct, charges>>

(* When a concurrent broadcast has used up Rows, the insert fails.          *)
BroadcastInsert(s) ==
  /\ At(s, "insert")
  /\ \/ \E d \in req[s].cands, a \in Free :
          /\ asg' = [asg EXCEPT ![a] = [status |-> "PENDING", order |-> req[s].order,
                                        driver |-> d]]
          /\ Goto(s, [req[s] EXCEPT !.pc = "markOffered", !.driver = d, !.cands = @ \ {d}])
     \/ Free = {} /\ Finish(s) /\ UNCHANGED asg
  /\ UNCHANGED <<order, trip, op, acct, charges>>

BroadcastMarkOffered(s) ==
  /\ At(s, "markOffered")
  /\ op' = [op EXCEPT ![req[s].driver] = "ORDER_OFFERED"]
  /\ \/ req[s].cands # {} /\ Goto(s, [req[s] EXCEPT !.pc = "insert", !.driver = None])
     \/ /\ req[s].cands = {} /\ req[s].flag
        /\ Goto(s, [req[s] EXCEPT !.pc = "markBroadcasted", !.driver = None])
     \/ req[s].cands = {} /\ ~req[s].flag /\ Finish(s)
  /\ UNCHANGED <<order, asg, trip, acct, charges>>

BroadcastMark(s) ==
  /\ At(s, "markBroadcasted")
  /\ order' = [order EXCEPT ![req[s].order].status = "BROADCASTED"]
  /\ Finish(s)
  /\ UNCHANGED <<asg, trip, op, acct, charges>>

-----------------------------------------------------------------------------
(* acceptOrder: a transaction.  The driver may also be refused for a low   *)
(* commission wallet balance.                                              *)

(* Mutant: any driver's offer will do.                                      *)
AnyOffer(o, d) == {a \in Pending(o) : asg[a].status = "PENDING"}

LiveOffers(o, d) == {a \in Pending(o) : asg[a].status = "PENDING" /\ asg[a].driver = d}

(* Mutant: offers past their time are not withdrawn.                        *)
LiveRivals(o, a) == {b \in Rows : asg[b].status = "PENDING" /\ asg[b].order = o} \ {a}

Rivals(o, a) == Pending(o) \ {a}

(* Mutant: Trip.orderId without its unique index.                           *)
TripAlwaysFree(o) == TRUE

TripFree(o) == trip[o] = NoTrip

AcceptReadOrder(s) ==
  /\ At(s, "accept")
  /\ IF order[req[s].order].status = "BROADCASTED"
     THEN Goto(s, [req[s] EXCEPT !.pc = "acceptOffer"])
     ELSE Finish(s)
  /\ UNCHANGED <<order, asg, trip, op, acct, charges>>

AcceptReadOffer(s) ==
  /\ At(s, "acceptOffer")
  /\ \/ Finish(s)
     \/ \E a \in LiveOffers(req[s].order, req[s].driver) :
          Goto(s, [req[s] EXCEPT !.pc = "acceptRivals", !.row = a])
  /\ UNCHANGED <<order, asg, trip, op, acct, charges>>

AcceptReadRivals(s) ==
  /\ At(s, "acceptRivals")
  /\ Goto(s, [req[s] EXCEPT !.pc = "acceptCommit", !.rows = Rivals(req[s].order, req[s].row)])
  /\ UNCHANGED <<order, asg, trip, op, acct, charges>>

(* Trip.orderId is unique: the insert fails, and with it the transaction,  *)
(* when the order already has a trip.                                      *)
AcceptCommit(s) ==
  LET o == req[s].order
      d == req[s].driver
  IN  /\ At(s, "acceptCommit")
      /\ Finish(s)
      /\ \/ ~TripFree(o) /\ UNCHANGED <<order, asg, trip, op>>
         \/ /\ TripFree(o)
            /\ asg' = [a \in Rows |->
                         IF a = req[s].row THEN [asg[a] EXCEPT !.status = "ACCEPTED"]
                         ELSE IF a \in req[s].rows THEN [asg[a] EXCEPT !.status = "SUPERSEDED"]
                         ELSE asg[a]]
            /\ order' = [order EXCEPT ![o] = [status |-> "ACCEPTED", driver |-> d]]
            /\ trip' = [trip EXCEPT ![o] = [status |-> "NOT_STARTED", driver |-> d,
                                            arrived |-> FALSE]]
            /\ op' = [e \in Drivers |->
                        IF e = d THEN "EN_ROUTE_PICKUP"
                        ELSE IF e \in DriversOf(req[s].rows) THEN "ONLINE_IDLE" ELSE op[e]]
      /\ UNCHANGED <<acct, charges>>

-----------------------------------------------------------------------------
(* rejectOrder: no transaction.                                            *)

RejectFind(s) ==
  LET mine == {a \in Pending(req[s].order) : asg[a].driver = req[s].driver}
  IN  /\ At(s, "reject")
      /\ \/ mine = {} /\ Finish(s)
         \/ \E a \in mine : Goto(s, [req[s] EXCEPT !.pc = "rejectRow", !.row = a])
      /\ UNCHANGED <<order, asg, trip, op, acct, charges>>

RejectRow(s) ==
  /\ At(s, "rejectRow")
  /\ asg' = [asg EXCEPT ![req[s].row].status = "REJECTED"]
  /\ Goto(s, [req[s] EXCEPT !.pc = "rejectDriver", !.row = None])
  /\ UNCHANGED <<order, trip, op, acct, charges>>

RejectDriver(s) ==
  /\ At(s, "rejectDriver")
  /\ op' = [op EXCEPT ![req[s].driver] = "ONLINE_IDLE"]
  /\ Finish(s)
  /\ UNCHANGED <<order, asg, trip, acct, charges>>

-----------------------------------------------------------------------------
(* applyTerminalCancel: a transaction, entered directly by cancelByOperator *)
(* and, after a check outside it, by cancelByDriver, markPassengerNoShow    *)
(* and the cancel outcome of resolveDispute.  handler is the target status. *)

(* Mutant: only the trip is looked at.                                      *)
CancellableTrip(o) == order[o].status # "NONE" /\ trip[o].status # "COMPLETED"

Cancellable(o) ==
  order[o].status \notin Terminal \cup {"NONE"} /\ trip[o].status # "COMPLETED"

(* Mutants: a trip that has not started is left open; the driver is not    *)
(* released.                                                               *)
CancelOpenedActive(o, target) ==
  [Idle EXCEPT !.handler = target, !.pc = "cancelPending", !.order = o,
               !.driver = order[o].driver, !.flag = trip[o].status = "ACTIVE"]

CancelOpenedNoDriver(o, target) ==
  [Idle EXCEPT !.handler = target, !.pc = "cancelPending", !.order = o,
               !.flag = trip[o].status \notin {"NONE", "CANCELLED"}]

(* order.trip and order.assignedDriverId as the transaction first read them *)
CancelOpened(o, target) ==
  [Idle EXCEPT !.handler = target, !.pc = "cancelPending", !.order = o,
               !.driver = order[o].driver,
               !.flag = trip[o].status \notin {"NONE", "CANCELLED"}]

Checked(s, h, o, label, target) ==
  /\ h \in Handlers
  /\ At(s, "idle")
  /\ Goto(s, [Idle EXCEPT !.handler = target, !.pc = label, !.order = o])
  /\ UNCHANGED <<order, asg, trip, op, acct, charges>>

CancelByOperator(s, o) ==
  /\ "cancelByOperator" \in Handlers
  /\ At(s, "idle")
  /\ Cancellable(o)
  /\ Goto(s, CancelOpened(o, "CANCELLED_BY_OPERATOR"))
  /\ UNCHANGED <<order, asg, trip, op, acct, charges>>

CancelByDriver(s, o) ==
  /\ MayAct(order[o].driver)
  /\ order[o].status \notin Terminal \cup {"CREATED", "BROADCASTED"}
  /\ Checked(s, "cancelByDriver", o, "cancelRead", "CANCELLED_BY_DRIVER")

MarkPassengerNoShow(s, o) ==
  /\ order[o].status = "DRIVER_ARRIVING" /\ trip[o].status = "NOT_STARTED"
  /\ Checked(s, "noShow", o, "cancelRead", "CANCELLED_BY_PASSENGER")

ResolveDisputeCancel(s, o) ==
  /\ trip[o].status = "DISPUTED"
  /\ Checked(s, "resolve", o, "cancelRead", "CANCELLED_BY_OPERATOR")

CancelRead(s) ==
  /\ At(s, "cancelRead")
  /\ IF Cancellable(req[s].order)
     THEN Goto(s, CancelOpened(req[s].order, req[s].handler))
     ELSE Finish(s)
  /\ UNCHANGED <<order, asg, trip, op, acct, charges>>

CancelReadPending(s) ==
  /\ At(s, "cancelPending")
  /\ Goto(s, [req[s] EXCEPT !.pc = "cancelCommit", !.rows = Pending(req[s].order)])
  /\ UNCHANGED <<order, asg, trip, op, acct, charges>>

CancelCommit(s) ==
  LET o == req[s].order
  IN  /\ At(s, "cancelCommit")
      /\ asg' = [a \in Rows |-> IF a \in req[s].rows
                                THEN [asg[a] EXCEPT !.status = "SUPERSEDED"] ELSE asg[a]]
      /\ trip' = [trip EXCEPT ![o].status = IF req[s].flag THEN "CANCELLED" ELSE @]
      /\ op' = [d \in Drivers |->
                  IF \/ d = req[s].driver
                     \/ d \in DriversOf(req[s].rows) /\ op[d] = "ORDER_OFFERED"
                  THEN "ONLINE_IDLE" ELSE op[d]]
      /\ order' = [order EXCEPT ![o].status = req[s].handler]
      /\ Finish(s)
      /\ UNCHANGED <<acct, charges>>

-----------------------------------------------------------------------------
(* TripsService: each handler checks outside the transaction that writes.   *)

MarkPickupArrived(s, o) ==
  /\ MayAct(trip[o].driver)
  /\ trip[o].status = "NOT_STARTED" /\ order[o].status = "ACCEPTED"
  /\ Checked(s, "arrived", o, "arriveCommit", "none")

ArriveCommit(s) ==
  LET o == req[s].order
  IN  /\ At(s, "arriveCommit")
      /\ trip' = [trip EXCEPT ![o].arrived = TRUE]
      /\ order' = [order EXCEPT ![o].status = "DRIVER_ARRIVING"]
      /\ op' = [op EXCEPT ![trip[o].driver] = "ARRIVED_PICKUP"]
      /\ Finish(s)
      /\ UNCHANGED <<asg, acct, charges>>

StartTrip(s, o) ==
  /\ MayAct(trip[o].driver)
  /\ trip[o].status = "NOT_STARTED" /\ order[o].status = "DRIVER_ARRIVING" /\ trip[o].arrived
  /\ Checked(s, "start", o, "startCommit", "none")

StartCommit(s) ==
  LET o == req[s].order
  IN  /\ At(s, "startCommit")
      /\ trip' = [trip EXCEPT ![o].status = "ACTIVE"]
      /\ order' = [order EXCEPT ![o].status = "PASSENGER_ONBOARD"]
      /\ op' = [op EXCEPT ![trip[o].driver] = "IN_TRIP"]
      /\ Finish(s)
      /\ UNCHANGED <<asg, acct, charges>>

OpenDispute(s, o) ==
  /\ MayAct(trip[o].driver)
  /\ trip[o].status \in {"NOT_STARTED", "ACTIVE"}
  /\ Checked(s, "dispute", o, "disputeCommit", "none")

DisputeCommit(s) ==
  /\ At(s, "disputeCommit")
  /\ trip' = [trip EXCEPT ![req[s].order].status = "DISPUTED"]
  /\ Finish(s)
  /\ UNCHANGED <<order, asg, op, acct, charges>>

(* Mutants: the order's status is not looked at, nor whether the trip is    *)
(* over already; nothing is.                                               *)
CompletableAgain(o, allowed) == trip[o].status \in allowed \cup {"COMPLETED"}

CompletableTrip(o, allowed) == trip[o] # NoTrip

Completable(o, allowed) ==
  trip[o].status \in allowed /\ order[o].status = "PASSENGER_ONBOARD"

CompleteTrip(s, o) ==
  /\ MayAct(trip[o].driver)
  /\ Completable(o, {"ACTIVE"})
  /\ Checked(s, "complete", o, "completeCommit", "none")

ResolveDisputeComplete(s, o) ==
  /\ Completable(o, {"DISPUTED"})
  /\ Checked(s, "resolve", o, "completeRead", "none")

(* completeTrip reads the trip again when resolveDispute calls it.         *)
CompleteRead(s) ==
  LET o == req[s].order
  IN  /\ At(s, "completeRead")
      /\ IF Completable(o, {"ACTIVE", "DISPUTED"})
         THEN Goto(s, [req[s] EXCEPT !.pc = "completeCommit"])
         ELSE Finish(s)
      /\ UNCHANGED <<order, asg, trip, op, acct, charges>>

CompleteCommit(s) ==
  LET o == req[s].order
  IN  /\ At(s, "completeCommit")
      /\ trip' = [trip EXCEPT ![o].status = "COMPLETED"]
      /\ order' = [order EXCEPT ![o].status = "COMPLETED"]
      /\ op' = [op EXCEPT ![trip[o].driver] = "ONLINE_IDLE"]
      /\ charges' = [charges EXCEPT ![o] = @ + 1]
      /\ Finish(s)
      /\ UNCHANGED <<asg, acct>>

-----------------------------------------------------------------------------
(* setPresence reads the driver, then writes by id.                         *)

GoOnline(s, d) ==
  /\ acct[d] = "ACTIVE" /\ op[d] = "OFFLINE"
  /\ "presence" \in Handlers /\ At(s, "idle")
  /\ Goto(s, [Idle EXCEPT !.pc = "online", !.driver = d])
  /\ UNCHANGED <<order, asg, trip, op, acct, charges>>

GoOffline(s, d) ==
  /\ op[d] \notin CantOffline
  /\ "presence" \in Handlers /\ At(s, "idle")
  /\ Goto(s, [Idle EXCEPT !.pc = "offline", !.driver = d])
  /\ UNCHANGED <<order, asg, trip, op, acct, charges>>

PresenceWrite(s) ==
  /\ req[s].pc \in {"online", "offline"}
  /\ op' = [op EXCEPT ![req[s].driver] =
              IF At(s, "online") THEN "ONLINE_IDLE" ELSE "OFFLINE"]
  /\ Finish(s)
  /\ UNCHANGED <<order, asg, trip, acct, charges>>

-----------------------------------------------------------------------------
(* suspendDriver, approveDriver of a suspended driver, and what happens to  *)
(* requests and offers by themselves.                                       *)

SuspendDriver(d) ==
  /\ "suspend" \in Handlers
  /\ acct' = [acct EXCEPT ![d] = "SUSPENDED"]
  /\ op' = [op EXCEPT ![d] = "OFFLINE"]
  /\ UNCHANGED <<order, asg, trip, charges, req>>

ReactivateDriver(d) ==
  /\ "suspend" \in Handlers
  /\ acct[d] = "SUSPENDED"
  /\ acct' = [acct EXCEPT ![d] = "ACTIVE"]
  /\ UNCHANGED <<order, asg, trip, op, charges, req>>

(* expiresAt of a pending offer passes.                                    *)
Lapse(a) ==
  /\ "lapse" \in Handlers
  /\ asg[a].status = "PENDING"
  /\ asg' = [asg EXCEPT ![a].status = "LAPSED"]
  /\ UNCHANGED <<order, trip, op, acct, charges, req>>

(* The process dies or the database refuses a statement: the request ends   *)
(* with what it has committed so far; an open transaction leaves nothing.   *)
Abort(s) ==
  /\ "abort" \in Handlers
  /\ ~At(s, "idle")
  /\ Finish(s)
  /\ UNCHANGED <<order, asg, trip, op, acct, charges>>

-----------------------------------------------------------------------------

Init ==
  /\ order = [o \in Orders |-> NoOrder]
  /\ asg = [a \in Rows |-> NoRow]
  /\ trip = [o \in Orders |-> NoTrip]
  /\ op \in [Drivers -> {"OFFLINE", "ONLINE_IDLE"}]
  /\ acct = [d \in Drivers |-> "ACTIVE"]
  /\ charges = [o \in Orders |-> 0]
  /\ req = [s \in Slots |-> Idle]

(* A request arrives.                                                       *)
Arrival(s) ==
  \/ \E o \in Orders :
       \/ BroadcastOrder(s, o) \/ CancelByOperator(s, o) \/ CancelByDriver(s, o)
       \/ MarkPassengerNoShow(s, o) \/ ResolveDisputeCancel(s, o)
       \/ MarkPickupArrived(s, o) \/ StartTrip(s, o) \/ OpenDispute(s, o)
       \/ CompleteTrip(s, o) \/ ResolveDisputeComplete(s, o)
       \/ \E d \in Drivers : AcceptOrder(s, o, d) \/ RejectOrder(s, o, d)
  \/ \E d \in Drivers : GetCurrentOffer(s, d) \/ GoOnline(s, d) \/ GoOffline(s, d)

(* A request in flight takes its next step.                                 *)
Serve(s) ==
  \/ ExpireRow(s) \/ ExpireDriver(s)
  \/ BroadcastReadOrder(s) \/ BroadcastFindPending(s) \/ BroadcastSupersede(s)
  \/ BroadcastRelease(s) \/ BroadcastSelect(s) \/ BroadcastInsert(s)
  \/ BroadcastMarkOffered(s) \/ BroadcastMark(s)
  \/ AcceptReadOrder(s) \/ AcceptReadOffer(s) \/ AcceptReadRivals(s) \/ AcceptCommit(s)
  \/ RejectFind(s) \/ RejectRow(s) \/ RejectDriver(s)
  \/ CancelRead(s) \/ CancelReadPending(s) \/ CancelCommit(s)
  \/ ArriveCommit(s) \/ StartCommit(s) \/ DisputeCommit(s)
  \/ CompleteRead(s) \/ CompleteCommit(s) \/ PresenceWrite(s)

Environment ==
  \/ \E o \in Orders : CreateOrder(o)
  \/ \E d \in Drivers : SuspendDriver(d) \/ ReactivateDriver(d)
  \/ \E a \in Rows : Lapse(a)
  \/ \E s \in Slots : Abort(s)

Next == Environment \/ \E s \in Slots : Arrival(s) \/ Serve(s)

Spec == Init /\ [][Next]_vars
-----------------------------------------------------------------------------
(* Every column holds a value of its type, and a request in flight is at a  *)
(* statement of its handler.                                                *)
TypeOK ==
  /\ order \in [Orders -> [status : OrderStatus, driver : Drivers \cup {None}]]
  /\ asg \in [Rows -> [status : AssignmentStatus, order : Orders \cup {None},
                       driver : Drivers \cup {None}]]
  /\ trip \in [Orders -> [status : TripStatus, driver : Drivers \cup {None},
                          arrived : BOOLEAN]]
  /\ op \in [Drivers -> OperationalStatus]
  /\ acct \in [Drivers -> {"ACTIVE", "SUSPENDED"}]
  /\ charges \in [Orders -> Nat]
  /\ req \in [Slots -> Requests]

-----------------------------------------------------------------------------
(* What holds however requests interleave.                                  *)

OfferedTo(o) == {asg[a].driver : a \in {b \in Rows : asg[b].order = o}}

Claim == INSTANCE OrderClaim WITH
           offered <- [o \in Orders |-> OfferedTo(o)],
           winner  <- [o \in Orders |-> order[o].driver],
           charged <- [o \in Orders |-> charges[o] > 0]

(* Racing accepts, re-broadcasts and cancellations never give an order to a *)
(* second driver, to one it was not offered to, or charge an unclaimed one. *)
ClaimImplemented == Claim!Spec

(* The accepted offer, the order and the trip name the same driver, and an  *)
(* order has at most one accepted offer: acceptOrder writes the three       *)
(* together, and no stale write of another handler splits them.             *)
ClaimAgrees ==
  /\ \A o \in Orders :
       /\ trip[o].driver = order[o].driver
       /\ trip[o] = NoTrip <=> order[o].driver = None
  /\ \A a \in Rows : asg[a].status = "ACCEPTED" =>
       /\ asg[a].order \in Orders
       /\ asg[a].driver = order[asg[a].order].driver
  /\ \A a, b \in Rows :
       /\ asg[a].status = "ACCEPTED" /\ asg[b].status = "ACCEPTED"
       /\ asg[a].order = asg[b].order
       => a = b

(* Commission is charged only for a trip whose driver reported arrival at   *)
(* the pickup, and every order or trip that reads COMPLETED was charged.     *)
ChargedAfterPickup ==
  \A o \in Orders :
    /\ charges[o] > 0 => trip[o].arrived
    /\ "COMPLETED" \in {order[o].status, trip[o].status} => charges[o] > 0

-----------------------------------------------------------------------------
(* What holds when requests are served one after another.                   *)

Lifecycle == INSTANCE OrderLifecycle WITH status <- [o \in Orders |-> order[o].status]

(* Served one at a time, the handlers move an order along its life cycle,    *)
(* never reopen a closed one and charge exactly the completed ones, once.    *)
LifecycleImplemented == Lifecycle!Spec

(* The trip's status is the one its order's status calls for: a trip is open *)
(* exactly while the order is underway, and closed the way the order is.     *)
TripFollowsOrder ==
  \A o \in Orders :
    LET allowed == CASE order[o].status \in {"NONE", "CREATED", "BROADCASTED"} -> {"NONE"}
                     [] order[o].status \in {"ACCEPTED", "DRIVER_ARRIVING"} ->
                          {"NOT_STARTED", "DISPUTED"}
                     [] order[o].status = "PASSENGER_ONBOARD" -> {"ACTIVE", "DISPUTED"}
                     [] order[o].status = "COMPLETED" -> {"COMPLETED"}
                     [] OTHER -> {"NONE", "CANCELLED"}
    IN  trip[o].status \in allowed

(* A charge is made exactly for the completed orders, and once.              *)
ChargedExactlyOnce ==
  \A o \in Orders : charges[o] = IF order[o].status = "COMPLETED" THEN 1 ELSE 0

(* Once an order is taken or closed no offer of it is left pending, not even *)
(* one whose time has passed.                                                *)
NoOfferOnTakenOrder ==
  \A a \in Rows : IsPending(a) => order[asg[a].order].status \in {"CREATED", "BROADCASTED"}

(* A driver shown as driving has an open trip: no driver is left unable to   *)
(* go offline or get offers by a request that failed half way.               *)
BusyMeansOnTrip ==
  \A d \in Drivers : op[d] \in CantOffline =>
    \E o \in Orders : /\ trip[o].driver = d
                      /\ trip[o].status \in {"NOT_STARTED", "ACTIVE", "DISPUTED"}

(* Between requests a driver marked ORDER_OFFERED has an offer to answer:    *)
(* expiring or superseding an offer returns its driver to ONLINE_IDLE        *)
(* (dispatch.service.ts:61).                                                 *)
OfferedMeansPending ==
  (\A s \in Slots : At(s, "idle")) =>
    \A d \in Drivers : op[d] = "ORDER_OFFERED" => \E a \in Rows : IsPending(a) /\ asg[a].driver = d

-----------------------------------------------------------------------------
(* What the comments say and the handlers do not keep.                       *)

(* schema.prisma:675: one PENDING offer at a time.                           *)
SinglePendingPerDriver ==
  \A a, b \in Rows : IsPending(a) /\ IsPending(b) /\ asg[a].driver = asg[b].driver => a = b

(* order-lifecycle.service.ts:71: an operator cancels an order that is not   *)
(* COMPLETED or otherwise closed.                                            *)
OperatorCancelsOnlyOpenOrders ==
  [][\A o \in Orders :
       order'[o].status = "CANCELLED_BY_OPERATOR" /\ order[o].status # "CANCELLED_BY_OPERATOR"
       => order[o].status \notin Terminal]_vars

(* dispatch.service.ts:169: the first broadcast moves CREATED to             *)
(* BROADCASTED, a later one only starts a round.                             *)
BroadcastOnlyFromCreated ==
  [][\A o \in Orders :
       order'[o].status = "BROADCASTED" /\ order[o].status # "BROADCASTED"
       => order[o].status = "CREATED"]_vars
=============================================================================
