---------------------------- MODULE SerialProofs ----------------------------
(***************************************************************************)
(* Proofs about Dispatch when requests are served one after another: one   *)
(* slot, and around the request whatever the world does meanwhile: orders  *)
(* appear, offers run out, drivers are suspended, requests die half way    *)
(* (the last theorem alone excludes that).                                 *)
(*                                                                         *)
(* With nobody else writing, what a request has read still holds when it   *)
(* writes.  Holds says what that is at each statement; Fits is what the    *)
(* tables then keep to.  The two are inductive together: a write needs     *)
(* what was read, and what is read is in order.  OffersHold adds where a   *)
(* driver's ORDER_OFFERED comes from.                                      *)
(***************************************************************************)
EXTENDS DispatchProofs

-----------------------------------------------------------------------------
(* The invariant.                                                          *)

Open == {"CREATED", "BROADCASTED", "ACCEPTED", "DRIVER_ARRIVING", "PASSENGER_ONBOARD"}
Underway == {"ACCEPTED", "DRIVER_ARRIVING", "PASSENGER_ONBOARD"}

(* Where each kind of cancellation may start.                              *)
CancelledFrom ==
  [CANCELLED_BY_OPERATOR |-> Open, CANCELLED_BY_DRIVER |-> Underway,
   CANCELLED_BY_PASSENGER |-> {"DRIVER_ARRIVING"}]

(* A trip without a status is no row at all.                               *)
TripIsRow == \A o \in Orders : trip[o].status = "NONE" => trip[o] = NoTrip

Fits ==
  /\ TripFollowsOrder /\ ChargedExactlyOnce /\ NoOfferOnTakenOrder /\ BusyMeansOnTrip
  /\ TripIsRow

(* What broadcastOrder has read: the order's status, and whether it is the  *)
(* first broadcast.                                                        *)
BroadcastHolds(r) ==
  r.pc \in BroadcastLabels \ {"broadcast"} =>
    /\ order[r.order].status = IF r.flag THEN "CREATED" ELSE "BROADCASTED"
    /\ r.pc = "markBroadcasted" => r.flag

(* acceptOrder: the order is still to be had, and no offer was made since.  *)
AcceptHolds(r) ==
  /\ r.pc \in {"acceptOffer", "acceptRivals", "acceptCommit"} =>
       order[r.order].status = "BROADCASTED"
  /\ r.pc = "acceptCommit" => Pending(r.order) \subseteq r.rows \cup {r.row}

(* Cancellations: the order may still be cancelled that way, and driver,    *)
(* trip and offers are those read.                                         *)
CancelHolds(r) ==
  /\ r.pc \in CancelLabels =>
       /\ r.handler \in DOMAIN CancelledFrom
       /\ order[r.order].status \in CancelledFrom[r.handler]
  /\ r.pc \in {"cancelPending", "cancelCommit"} =>
       /\ r.driver = order[r.order].driver
       /\ r.flag = (trip[r.order].status # "NONE")
  /\ r.pc = "cancelCommit" => Pending(r.order) \subseteq r.rows

(* The trip handlers: what they checked.                                   *)
TripHolds(r) ==
  /\ r.pc = "arriveCommit" =>
       order[r.order].status = "ACCEPTED" /\ trip[r.order].status = "NOT_STARTED"
  /\ r.pc = "startCommit" =>
       order[r.order].status = "DRIVER_ARRIVING" /\ trip[r.order].status = "NOT_STARTED"
  /\ r.pc = "disputeCommit" => trip[r.order].status \in {"NOT_STARTED", "ACTIVE"}
  /\ r.pc = "completeCommit" =>
       /\ order[r.order].status = "PASSENGER_ONBOARD"
       /\ trip[r.order].status \in {"ACTIVE", "DISPUTED"}

Holds(r) == BroadcastHolds(r) /\ AcceptHolds(r) /\ CancelHolds(r) /\ TripHolds(r)

(* Offers: a driver marked ORDER_OFFERED has an offer, or the request that   *)
(* closed it is about to release the driver.                               *)
HasOffer(d) == \E a \in Rows : IsPending(a) /\ asg[a].driver = d

Releasing(r, d) ==
  \/ r.pc \in {"expireDriver", "supersedeDriver"} /\ asg[r.row].driver = d
  \/ r.pc = "rejectDriver" /\ r.driver = d

OffersHold(r) ==
  /\ \A d \in Drivers : op[d] = "ORDER_OFFERED" => HasOffer(d) \/ Releasing(r, d)
  /\ r.pc = "markOffered" => HasOffer(r.driver)
  /\ r.pc = "rejectRow" => asg[r.row].driver = r.driver
  /\ r.pc \in {"expireDriver", "supersedeDriver"} => r.row \in Rows

-----------------------------------------------------------------------------
(* Steps that leave orders and trips alone.                                *)

(* Such a step makes no offer, and makes nobody busy.                      *)
Calm ==
  /\ order' = order /\ trip' = trip /\ charges' = charges
  /\ \A a \in Rows : IsPending(a)' => IsPending(a) /\ asg'[a].order = asg[a].order
  /\ \A d \in Drivers : op'[d] \in CantOffline => op[d] = op'[d]

LEMMA CalmFits ==
  ASSUME Fits, Calm
  PROVE  Fits'
<1>1. TripFollowsOrder' /\ ChargedExactlyOnce' /\ TripIsRow'
  BY DEF Fits, Calm, TripFollowsOrder, ChargedExactlyOnce, TripIsRow
<1>2. NoOfferOnTakenOrder'
  BY DEF Fits, Calm, NoOfferOnTakenOrder
<1>3. BusyMeansOnTrip'
  BY DEF Fits, Calm, BusyMeansOnTrip
<1> QED BY <1>1, <1>2, <1>3 DEF Fits

(* What a request relies on survives it.                                   *)
LEMMA CalmHolds ==
  ASSUME Calm, NEW r, Holds(r)
  PROVE  Holds(r)'
<1>1. Pending(r.order)' \subseteq Pending(r.order)
  BY DEF Calm, Pending
<1>2. BroadcastHolds(r)' /\ TripHolds(r)'
  BY DEF Calm, Holds, BroadcastHolds, TripHolds
<1>3. AcceptHolds(r)'
  BY <1>1 DEF Calm, Holds, AcceptHolds
<1>4. CancelHolds(r)'
  BY <1>1 DEF Calm, Holds, CancelHolds
<1> QED BY <1>2, <1>3, <1>4 DEF Holds

(* Statements that rely on nothing.                                        *)
Plain == {"idle", "expire", "expireDriver", "broadcast", "accept", "reject", "rejectRow",
          "rejectDriver", "completeRead", "online", "offline"}

LEMMA PlainHolds ==
  ASSUME NEW r, r.pc \in Plain
  PROVE  Holds(r)
BY DEF Plain, Holds, BroadcastHolds, AcceptHolds, CancelHolds, TripHolds, BroadcastLabels,
       CancelLabels

LEMMA IdlePlain == Idle.pc = "idle" /\ Idle.pc \in Plain
BY DEF Idle, Plain

(* The only request goes on as r.                                          *)
LEMMA OnlyOne ==
  ASSUME NEW only, Slots = {only}, IInv, NEW r, Goto(only, r)
  PROVE  req'[only] = r
BY DEF Goto, IInv, RequestsOK

LEMMA HoldsNext ==
  ASSUME NEW only, NEW r, req'[only] = r, Holds(r)'
  PROVE  Holds(req[only])'
<1>1. Pending(r.order)' = Pending(req[only].order)'
  OBVIOUS
<1> QED BY DEF Holds, BroadcastHolds, AcceptHolds, CancelHolds, TripHolds, Pending, IsPending

LEMMA CalmStep ==
  ASSUME NEW only, Slots = {only}, IInv, Fits, Calm, NEW r, Goto(only, r), Holds(r)
  PROVE  Fits' /\ Holds(req[only])'
BY CalmFits, CalmHolds, OnlyOne, HoldsNext

LEMMA PlainStep ==
  ASSUME NEW only, Slots = {only}, IInv, Fits, Calm, NEW r, Goto(only, r), r.pc \in Plain
  PROVE  Fits' /\ Holds(req[only])'
BY PlainHolds, CalmStep

(* What a request in flight is about.                                      *)
LEMMA AboutOrder ==
  ASSUME IInv, NEW s \in Slots
  PROVE  /\ req[s] \in Requests /\ RequestOK(req[s])
         /\ req[s].pc \notin {"idle", "online", "offline", "expire", "expireDriver"} =>
              req[s].order \in Orders
<1>1. req[s] \in Requests /\ RequestOK(req[s])
  BY DEF IInv, RequestsOK
<1> QED BY <1>1 DEF RequestOK, Routed

-----------------------------------------------------------------------------
(* Requests that arrive.                                                   *)

LEMMA ResumePlain ==
  ASSUME NEW r \in Requests, r.handler \in {"broadcast", "offer", "accept", "reject"}
  PROVE  Resume(r).pc \in Plain
<1>1. CASE r.handler = "offer"
  BY <1>1, IdlePlain DEF Resume
<1>2. CASE r.handler # "offer"
  <2>1. [r EXCEPT !.pc = r.handler, !.row = None].pc = r.handler
    BY DEF Requests
  <2> QED BY <1>2, <2>1 DEF Resume, Plain
<1> QED BY <1>1, <1>2

LEMMA ExpireStaleSerial ==
  ASSUME NEW only, Slots = {only}, IInv, Fits,
         NEW h \in {"broadcast", "offer", "accept", "reject"}, NEW o \in Orders \cup {None},
         NEW d \in Drivers \cup {None}, ExpireStale(only, h, o, d)
  PROVE  Fits' /\ Holds(req[only])'
<1> DEFINE r == [Idle EXCEPT !.handler = h, !.order = o, !.driver = d, !.rows = Stale]
           q == [r EXCEPT !.pc = "expire"]
<1>1. r \in Requests /\ r.handler = h /\ q.pc = "expire"
  BY DEF Idle, Requests, Labels, Stale
<1>2. /\ Goto(only, IF Stale = {} THEN Resume(r) ELSE q)
      /\ UNCHANGED <<order, asg, trip, op, acct, charges>>
  BY DEF ExpireStale
<1>3. Calm
  BY <1>2 DEF Calm, IsPending
<1> HIDE DEF r, q
<1>4. Resume(r).pc \in Plain /\ q.pc \in Plain
  BY <1>1, ResumePlain DEF Plain
<1> QED BY <1>2, <1>3, <1>4, PlainStep

(* A handler that has checked an order writes next.                        *)
LEMMA CheckedSerial ==
  ASSUME NEW only, Slots = {only}, IInv, Fits, NEW h, NEW o \in Orders,
         NEW label \in CancelLabels \cup TripLabels, NEW target,
         Checked(only, h, o, label, target),
         label # "cancelPending" /\ label # "cancelCommit",
         label = "cancelRead" =>
           target \in DOMAIN CancelledFrom /\ order[o].status \in CancelledFrom[target],
         label = "arriveCommit" => order[o].status = "ACCEPTED" /\ trip[o].status = "NOT_STARTED",
         label = "startCommit" =>
           order[o].status = "DRIVER_ARRIVING" /\ trip[o].status = "NOT_STARTED",
         label = "disputeCommit" => trip[o].status \in {"NOT_STARTED", "ACTIVE"},
         label = "completeCommit" =>
           order[o].status = "PASSENGER_ONBOARD" /\ trip[o].status \in {"ACTIVE", "DISPUTED"}
  PROVE  Fits' /\ Holds(req[only])'
<1> DEFINE r == [Idle EXCEPT !.handler = target, !.pc = label, !.order = o]
<1>1. r.pc = label /\ r.handler = target /\ r.order = o
  BY DEF Idle
<1>2. Goto(only, r) /\ UNCHANGED <<order, asg, trip, op, acct, charges>>
  BY DEF Checked
<1>3. Calm
  BY <1>2 DEF Calm, IsPending
<1> HIDE DEF r
<1>4. BroadcastHolds(r) /\ AcceptHolds(r)
  BY <1>1 DEF BroadcastHolds, AcceptHolds, BroadcastLabels, CancelLabels, TripLabels
<1>5. CancelHolds(r)
  BY <1>1 DEF CancelHolds, CancelLabels, TripLabels
<1>6. TripHolds(r)
  BY <1>1 DEF TripHolds
<1> QED BY <1>2, <1>3, <1>4, <1>5, <1>6, CalmStep DEF Holds

(* A transaction that cancels, as it opens.                                *)
LEMMA CancelOpenedHolds ==
  ASSUME IInv, Fits, NEW o \in Orders, NEW target \in DOMAIN CancelledFrom,
         order[o].status \in CancelledFrom[target]
  PROVE  Holds(CancelOpened(o, target))
<1> DEFINE r == CancelOpened(o, target)
<1>1. /\ r.pc = "cancelPending" /\ r.handler = target /\ r.order = o
      /\ r.driver = order[o].driver
      /\ r.flag = (trip[o].status \notin {"NONE", "CANCELLED"})
  BY DEF CancelOpened, Idle
<1>2. order[o].status \in Open
  BY DEF CancelledFrom, Open, Underway
<1>3. trip[o].status # "CANCELLED"
  BY <1>2 DEF Fits, TripFollowsOrder, Open
<1> HIDE DEF r
<1>4. BroadcastHolds(r) /\ AcceptHolds(r) /\ TripHolds(r)
  BY <1>1 DEF BroadcastHolds, AcceptHolds, TripHolds, BroadcastLabels
<1>5. CancelHolds(r)
  BY <1>1, <1>3 DEF CancelHolds, CancelLabels
<1> QED BY <1>4, <1>5 DEF Holds, r

(* An order with a driver is underway or closed.                           *)
LEMMA DriverMeansTaken ==
  ASSUME IInv, Fits, NEW o \in Orders, order[o].driver # None \/ trip[o].status # "NONE"
  PROVE  order[o].status \notin {"NONE", "CREATED", "BROADCASTED"}
<1>1. trip[o].status # "NONE"
  <2>1. CASE order[o].driver # None
    <3>1. trip[o] # NoTrip
      BY <2>1 DEF IInv, DataOK, ClaimAgrees
    <3> QED BY <3>1 DEF Fits, TripIsRow
  <2> QED BY <2>1
<1> QED BY <1>1 DEF Fits, TripFollowsOrder

LEMMA OpenStatuses ==
  ASSUME IInv, NEW o \in Orders, order[o].status \notin Terminal \cup {"NONE"}
  PROVE  order[o].status \in Open
BY DEF IInv, DataOK, TablesTyped, OrderStatus, Terminal, Open

LEMMA ArrivalSerial ==
  ASSUME NEW only, Slots = {only}, IInv, Fits, Arrival(only)
  PROVE  Fits' /\ Holds(req[only])'
<1>1. ASSUME NEW o \in Orders, BroadcastOrder(only, o)
      PROVE  Fits' /\ Holds(req[only])'
  BY <1>1, ExpireStaleSerial DEF BroadcastOrder
<1>2. ASSUME NEW d \in Drivers, GetCurrentOffer(only, d)
      PROVE  Fits' /\ Holds(req[only])'
  BY <1>2, ExpireStaleSerial DEF GetCurrentOffer
<1>3. ASSUME NEW o \in Orders, NEW d \in Drivers,
             AcceptOrder(only, o, d) \/ RejectOrder(only, o, d)
      PROVE  Fits' /\ Holds(req[only])'
  BY <1>3, ExpireStaleSerial DEF AcceptOrder, RejectOrder
<1>4. ASSUME NEW o \in Orders, CancelByOperator(only, o)
      PROVE  Fits' /\ Holds(req[only])'
  <2> DEFINE r == CancelOpened(o, "CANCELLED_BY_OPERATOR")
  <2>1. Goto(only, r) /\ UNCHANGED <<order, asg, trip, op, acct, charges>> /\ Cancellable(o)
    BY <1>4 DEF CancelByOperator
  <2>2. Calm
    BY <2>1 DEF Calm, IsPending
  <2>3. order[o].status \in Open
    BY <2>1, OpenStatuses DEF Cancellable
  <2>4. Holds(r)
    BY <2>3, CancelOpenedHolds DEF CancelledFrom
  <2> HIDE DEF r
  <2> QED BY <2>1, <2>2, <2>4, CalmStep
<1>5. ASSUME NEW o \in Orders, CancelByDriver(only, o)
      PROVE  Fits' /\ Holds(req[only])'
  <2>1. order[o].driver # None
    BY <1>5, NoneAssumption DEF CancelByDriver, MayAct
  <2>2. order[o].status \in Underway
    BY <1>5, <2>1, DriverMeansTaken, OpenStatuses DEF CancelByDriver, Open, Underway
  <2> QED BY <1>5, <2>2, CheckedSerial DEF CancelByDriver, CancelLabels, CancelledFrom
<1>6. ASSUME NEW o \in Orders, MarkPassengerNoShow(only, o)
      PROVE  Fits' /\ Holds(req[only])'
  BY <1>6, CheckedSerial DEF MarkPassengerNoShow, CancelLabels, CancelledFrom
<1>7. ASSUME NEW o \in Orders, ResolveDisputeCancel(only, o)
      PROVE  Fits' /\ Holds(req[only])'
  <2>1. order[o].status \in Open
    <3>1. order[o].status \notin {"NONE"} \cup Terminal
      BY <1>7 DEF ResolveDisputeCancel, Fits, TripFollowsOrder, Terminal
    <3> QED BY <3>1, OpenStatuses
  <2> QED BY <1>7, <2>1, CheckedSerial DEF ResolveDisputeCancel, CancelLabels, CancelledFrom
<1>8. ASSUME NEW o \in Orders,
             MarkPickupArrived(only, o) \/ StartTrip(only, o) \/ OpenDispute(only, o)
      PROVE  Fits' /\ Holds(req[only])'
  BY <1>8, CheckedSerial DEF MarkPickupArrived, StartTrip, OpenDispute, TripLabels
<1>9. ASSUME NEW o \in Orders, CompleteTrip(only, o) \/ ResolveDisputeComplete(only, o)
      PROVE  Fits' /\ Holds(req[only])'
  BY <1>9, CheckedSerial DEF CompleteTrip, ResolveDisputeComplete, Completable, TripLabels
<1>10. ASSUME NEW d \in Drivers, GoOnline(only, d) \/ GoOffline(only, d)
       PROVE  Fits' /\ Holds(req[only])'
  <2>1. PICK label \in {"online", "offline"} :
          Goto(only, [Idle EXCEPT !.pc = label, !.driver = d])
    BY <1>10 DEF GoOnline, GoOffline
  <2>2. Calm
    BY <1>10 DEF GoOnline, GoOffline, Calm, IsPending
  <2> DEFINE r == [Idle EXCEPT !.pc = label, !.driver = d]
  <2>3. r.pc \in Plain
    BY DEF Idle, Plain
  <2>4. Goto(only, r)
    BY <2>1
  <2> HIDE DEF r
  <2> QED BY <2>2, <2>3, <2>4, PlainStep
<1> QED BY <1>1, <1>2, <1>3, <1>4, <1>5, <1>6, <1>7, <1>8, <1>9, <1>10 DEF Arrival

-----------------------------------------------------------------------------
(* Statements outside transactions.                                        *)

(* broadcastOrder goes on with the order it has read.                       *)
LEMMA BroadcastGoesOn ==
  ASSUME NEW x, Holds(x), x.pc \in BroadcastLabels \ {"broadcast"}, NEW r,
         r.pc \in BroadcastLabels \ {"broadcast", "markBroadcasted"},
         r.order = x.order, r.flag = x.flag
  PROVE  Holds(r)
BY DEF Holds, BroadcastHolds, AcceptHolds, CancelHolds, TripHolds, BroadcastLabels, CancelLabels

(* Expiry, refusal and presence rely on nothing they have read.             *)
LEMMA PlainStatements ==
  ASSUME NEW only, Slots = {only}, IInv, Fits,
         \/ ExpireRow(only) \/ ExpireDriver(only) \/ RejectFind(only) \/ RejectRow(only)
         \/ RejectDriver(only) \/ PresenceWrite(only)
  PROVE  Fits' /\ Holds(req[only])'
<1> DEFINE x == req[only]
<1>1. x \in Requests /\ RequestOK(x)
  BY AboutOrder
<1>2. Calm
  <2>1. UNCHANGED <<order, trip, charges>>
    BY DEF ExpireRow, ExpireDriver, RejectFind, RejectRow, RejectDriver, PresenceWrite
  <2>2. \/ UNCHANGED asg
        \/ \E a \in Rows, v \in {"EXPIRED", "REJECTED"} : asg' = [asg EXCEPT ![a].status = v]
    <3>1. ASSUME x.pc = "rejectRow"
          PROVE  x.row \in Rows
      BY <1>1, <3>1 DEF RequestOK, RowAtHand
    <3>2. x.rows \subseteq Rows
      BY <1>1 DEF Requests
    <3>3. CASE ExpireRow(only)
      BY <3>2, <3>3 DEF ExpireRow
    <3>4. CASE RejectRow(only)
      BY <3>1, <3>4 DEF RejectRow, At
    <3> QED BY <3>3, <3>4 DEF ExpireDriver, RejectFind, RejectDriver, PresenceWrite
  <2>3. \/ UNCHANGED op
        \/ \E v \in {"ONLINE_IDLE", "OFFLINE"} : \E d : op' = [op EXCEPT ![d] = v]
        \/ \E d : ReleaseIfOffered(d)
    <3>1. CASE PresenceWrite(only)
      <4>1. op' = [op EXCEPT ![x.driver] = "ONLINE_IDLE"] \/ op' = [op EXCEPT ![x.driver] = "OFFLINE"]
        BY <3>1 DEF PresenceWrite
      <4> QED BY <4>1
    <3>2. CASE RejectDriver(only)
      BY <3>2 DEF RejectDriver
    <3>3. CASE ExpireDriver(only)
      BY <3>3 DEF ExpireDriver
    <3> QED BY <3>1, <3>2, <3>3 DEF ExpireRow, RejectFind, RejectRow
  <2>4. \A a \in Rows : IsPending(a)' => IsPending(a) /\ asg'[a].order = asg[a].order
    BY <2>2 DEF IsPending, IInv, DataOK, TablesTyped
  <2>5. \A d \in Drivers : op'[d] \in CantOffline => op[d] = op'[d]
    BY <2>3 DEF ReleaseIfOffered, CantOffline, IInv, DriversTyped
  <2> QED BY <2>1, <2>4, <2>5 DEF Calm
<1>3. CASE Finish(only)
  BY <1>2, <1>3, IdlePlain, PlainStep DEF Finish
<1>4. CASE ExpireRow(only)
  <2>1. PICK a \in x.rows :
          Goto(only, [x EXCEPT !.pc = "expireDriver", !.row = a, !.rows = @ \ {a}])
    BY <1>4 DEF ExpireRow
  <2> DEFINE r == [x EXCEPT !.pc = "expireDriver", !.row = a, !.rows = @ \ {a}]
  <2> HIDE DEF x
  <2>2. r.pc \in Plain /\ Goto(only, r)
    BY <1>1, <2>1 DEF Requests, Plain
  <2> HIDE DEF r
  <2> QED BY <1>2, <2>2, PlainStep
<1>5. CASE ExpireDriver(only)
  <2> DEFINE r == [x EXCEPT !.pc = "expire"]
  <2>1. x.pc = "expireDriver" /\ Goto(only, IF x.rows = {} THEN Resume(x) ELSE r)
    BY <1>5 DEF ExpireDriver, At
  <2>2. x.handler \in {"broadcast", "offer", "accept", "reject"}
    BY <1>1, <2>1 DEF RequestOK, Routed
  <2> HIDE DEF x
  <2>3. r.pc \in Plain /\ Resume(x).pc \in Plain
    BY <1>1, <2>2, ResumePlain DEF Requests, Plain
  <2> HIDE DEF r
  <2> QED BY <1>2, <2>1, <2>3, PlainStep
<1>6. CASE RejectFind(only) /\ ~Finish(only)
  <2>1. PICK a \in Rows : Goto(only, [x EXCEPT !.pc = "rejectRow", !.row = a])
    BY <1>6 DEF RejectFind, Pending
  <2> DEFINE r == [x EXCEPT !.pc = "rejectRow", !.row = a]
  <2> HIDE DEF x
  <2>2. r.pc \in Plain /\ Goto(only, r)
    BY <1>1, <2>1 DEF Requests, Plain
  <2> HIDE DEF r
  <2> QED BY <1>2, <2>2, PlainStep
<1>7. CASE RejectRow(only)
  <2> DEFINE r == [x EXCEPT !.pc = "rejectDriver", !.row = None]
  <2>1. Goto(only, r)
    BY <1>7 DEF RejectRow
  <2> HIDE DEF x
  <2>2. r.pc \in Plain
    BY <1>1 DEF Requests, Plain
  <2> HIDE DEF r
  <2> QED BY <1>2, <2>1, <2>2, PlainStep
<1>8. CASE RejectDriver(only) \/ PresenceWrite(only)
  BY <1>3, <1>8 DEF RejectDriver, PresenceWrite
<1> QED BY <1>3, <1>4, <1>5, <1>6, <1>7, <1>8

(* broadcastOrder but for the insertion and its last write.                 *)
LEMMA BroadcastStatements ==
  ASSUME NEW only, Slots = {only}, IInv, Fits, Holds(req[only]),
         \/ BroadcastReadOrder(only) \/ BroadcastFindPending(only) \/ BroadcastSupersede(only)
         \/ BroadcastRelease(only) \/ BroadcastSelect(only) \/ BroadcastMarkOffered(only)
  PROVE  Fits' /\ Holds(req[only])'
<1> DEFINE x == req[only]
<1>1. x \in Requests /\ RequestOK(x) /\ Holds(x)
  BY AboutOrder
<1>2. Calm
  BY DEF BroadcastReadOrder, BroadcastFindPending, BroadcastSupersede, BroadcastRelease,
         BroadcastSelect, BroadcastMarkOffered, Calm, IsPending, ReleaseIfOffered, CantOffline,
         IInv, DataOK, TablesTyped, DriversTyped
<1>3. CASE Finish(only)
  BY <1>2, <1>3, IdlePlain, PlainStep DEF Finish
<1>4. CASE BroadcastReadOrder(only) /\ ~Finish(only)
  <2> DEFINE r == [x EXCEPT !.pc = "findPending", !.flag = order[x.order].status = "CREATED"]
  <2>1. Goto(only, r) /\ order[x.order].status \in {"CREATED", "BROADCASTED"}
    BY <1>4 DEF BroadcastReadOrder
  <2> HIDE DEF x
  <2>2. r.pc = "findPending" /\ r.order = x.order /\ r.flag = (order[x.order].status = "CREATED")
    BY <1>1 DEF Requests
  <2> HIDE DEF r
  <2>3. Holds(r)
    BY <2>1, <2>2
    DEF Holds, BroadcastHolds, AcceptHolds, CancelHolds, TripHolds, BroadcastLabels, CancelLabels
  <2> QED BY <1>2, <2>1, <2>3, CalmStep
(* What the other statements leave of the request.                          *)
<1>5. ASSUME x.pc \in BroadcastLabels \ {"broadcast"},
             NEW p \in BroadcastLabels \ {"broadcast", "markBroadcasted"}, NEW v,
             \/ Goto(only, [x EXCEPT !.rows = v, !.pc = p])
             \/ Goto(only, [x EXCEPT !.pc = p, !.row = v, !.rows = @ \ {v}])
             \/ Goto(only, [x EXCEPT !.pc = p, !.row = v])
             \/ Goto(only, [x EXCEPT !.pc = p, !.cands = v])
             \/ Goto(only, [x EXCEPT !.pc = p, !.driver = v])
      PROVE  Fits' /\ Holds(req[only])'
  <2> DEFINE q1 == [x EXCEPT !.rows = v, !.pc = p]
             q2 == [x EXCEPT !.pc = p, !.row = v, !.rows = @ \ {v}]
             q3 == [x EXCEPT !.pc = p, !.row = v]
             q4 == [x EXCEPT !.pc = p, !.cands = v]
             q5 == [x EXCEPT !.pc = p, !.driver = v]
  <2>1. Goto(only, q1) \/ Goto(only, q2) \/ Goto(only, q3) \/ Goto(only, q4) \/ Goto(only, q5)
    BY <1>5
  <2>2. x.pc \in BroadcastLabels \ {"broadcast"}
    BY <1>5
  <2> HIDE DEF x
  <2>3. /\ q1.pc = p /\ q2.pc = p /\ q3.pc = p /\ q4.pc = p /\ q5.pc = p
        /\ q1.order = x.order /\ q2.order = x.order /\ q3.order = x.order
        /\ q4.order = x.order /\ q5.order = x.order
        /\ q1.flag = x.flag /\ q2.flag = x.flag /\ q3.flag = x.flag
        /\ q4.flag = x.flag /\ q5.flag = x.flag
    BY <1>1 DEF Requests
  <2> HIDE DEF q1, q2, q3, q4, q5
  <2>4. Holds(q1) /\ Holds(q2) /\ Holds(q3) /\ Holds(q4) /\ Holds(q5)
    BY <1>1, <1>5, <2>2, <2>3, BroadcastGoesOn
  <2> QED BY <1>2, <2>1, <2>4, CalmStep
<1>6. CASE BroadcastFindPending(only)
  BY <1>5, <1>6 DEF BroadcastFindPending, At, BroadcastLabels
<1>7. CASE BroadcastSupersede(only)
  BY <1>5, <1>7 DEF BroadcastSupersede, At, BroadcastLabels
<1>8. CASE BroadcastRelease(only)
  BY <1>5, <1>8 DEF BroadcastRelease, At, BroadcastLabels
<1>9. CASE BroadcastSelect(only)
  BY <1>3, <1>5, <1>9 DEF BroadcastSelect, At, BroadcastLabels
<1>10. CASE BroadcastMarkOffered(only) /\ x.cands # {}
  BY <1>5, <1>10 DEF BroadcastMarkOffered, At, BroadcastLabels
<1>11. CASE BroadcastMarkOffered(only) /\ x.cands = {} /\ ~Finish(only)
  <2> DEFINE r == [x EXCEPT !.pc = "markBroadcasted", !.driver = None]
  <2>1. Goto(only, r) /\ x.flag /\ x.pc = "markOffered"
    BY <1>11 DEF BroadcastMarkOffered, At
  <2> HIDE DEF x
  <2>2. r.pc = "markBroadcasted" /\ r.order = x.order /\ r.flag = x.flag
    BY <1>1 DEF Requests
  <2> HIDE DEF r
  <2>3. Holds(r)
    BY <1>1, <2>1, <2>2
    DEF Holds, BroadcastHolds, AcceptHolds, CancelHolds, TripHolds, BroadcastLabels, CancelLabels
  <2> QED BY <1>2, <2>1, <2>3, CalmStep
<1> QED BY <1>3, <1>4, <1>6, <1>7, <1>8, <1>9, <1>10, <1>11

(* An offer is made of an order that can be offered.                        *)
LEMMA InsertSerial ==
  ASSUME NEW only, Slots = {only}, IInv, Fits, Holds(req[only]), BroadcastInsert(only)
  PROVE  Fits' /\ Holds(req[only])'
<1> DEFINE x == req[only]
<1>1. /\ x \in Requests /\ Holds(x) /\ x.pc = "insert" /\ x.order \in Orders
      /\ UNCHANGED <<order, trip, op, acct, charges>>
  BY AboutOrder DEF BroadcastInsert, At
<1>2. CASE Finish(only) /\ UNCHANGED asg
  BY <1>1, <1>2, IdlePlain, PlainStep DEF Finish, Calm, IsPending
<1>3. CASE ~(Finish(only) /\ UNCHANGED asg)
  <2>1. PICK d \in x.cands, a \in Free :
          /\ asg' = [asg EXCEPT ![a] = [status |-> "PENDING", order |-> x.order, driver |-> d]]
          /\ Goto(only, [x EXCEPT !.pc = "markOffered", !.driver = d, !.cands = @ \ {d}])
    BY <1>3 DEF BroadcastInsert
  <2> HIDE DEF x
  <2>2. PICK r : r = [x EXCEPT !.pc = "markOffered", !.driver = d, !.cands = @ \ {d}]
    OBVIOUS
  <2>3. r.pc = "markOffered" /\ r.order = x.order /\ r.flag = x.flag /\ Goto(only, r)
    BY <1>1, <2>1, <2>2 DEF Requests
  <2>4. Holds(r)
    BY <1>1, <2>3, BroadcastGoesOn DEF BroadcastLabels
  <2>5. Holds(r)'
    BY <1>1, <2>3, <2>4
    DEF Holds, BroadcastHolds, AcceptHolds, CancelHolds, TripHolds, CancelLabels
  <2>6. Holds(req[only])'
    BY <2>3, <2>5, OnlyOne, HoldsNext
  <2>7. order[x.order].status \in {"CREATED", "BROADCASTED"}
    BY <1>1 DEF Holds, BroadcastHolds, BroadcastLabels
  <2>8. \A b \in Rows : asg'[b] = IF b = a THEN [status |-> "PENDING", order |-> x.order,
                                                 driver |-> d] ELSE asg[b]
    BY <2>1 DEF IInv, DataOK, TablesTyped
  <2>9. NoOfferOnTakenOrder'
    BY <1>1, <2>7, <2>8 DEF Fits, NoOfferOnTakenOrder, IsPending
  <2> QED BY <1>1, <2>6, <2>9
          DEF Fits, TripFollowsOrder, ChargedExactlyOnce, BusyMeansOnTrip, TripIsRow
<1> QED BY <1>2, <1>3

(* The reads of the other handlers.                                        *)
LEMMA ReadStatements ==
  ASSUME NEW only, Slots = {only}, IInv, Fits, Holds(req[only]),
         \/ AcceptReadOrder(only) \/ AcceptReadOffer(only) \/ AcceptReadRivals(only)
         \/ CancelRead(only) \/ CancelReadPending(only) \/ CompleteRead(only)
  PROVE  Fits' /\ Holds(req[only])'
<1> DEFINE x == req[only]
<1>1. x \in Requests /\ RequestOK(x) /\ Holds(x)
  BY AboutOrder
<1>2. Calm
  BY DEF AcceptReadOrder, AcceptReadOffer, AcceptReadRivals, CancelRead, CancelReadPending,
         CompleteRead, Calm, IsPending
<1>3. CASE Finish(only)
  BY <1>2, <1>3, IdlePlain, PlainStep DEF Finish
<1>4. CASE AcceptReadOrder(only) /\ ~Finish(only)
  <2> DEFINE r == [x EXCEPT !.pc = "acceptOffer"]
  <2>1. Goto(only, r) /\ order[x.order].status = "BROADCASTED"
    BY <1>4 DEF AcceptReadOrder
  <2> HIDE DEF x
  <2>2. r.pc = "acceptOffer" /\ r.order = x.order
    BY <1>1 DEF Requests
  <2> HIDE DEF r
  <2>3. Holds(r)
    BY <2>1, <2>2
    DEF Holds, BroadcastHolds, AcceptHolds, CancelHolds, TripHolds, BroadcastLabels, CancelLabels
  <2> QED BY <1>2, <2>1, <2>3, CalmStep
<1>5. CASE AcceptReadOffer(only) /\ ~Finish(only)
  <2>1. x.pc = "acceptOffer"
    BY <1>5 DEF AcceptReadOffer, At
  <2>2. PICK a \in LiveOffers(x.order, x.driver) :
          Goto(only, [x EXCEPT !.pc = "acceptRivals", !.row = a])
    BY <1>5 DEF AcceptReadOffer
  <2> DEFINE r == [x EXCEPT !.pc = "acceptRivals", !.row = a]
  <2>3. Goto(only, r)
    BY <2>2
  <2> HIDE DEF x
  <2>4. r.pc = "acceptRivals" /\ r.order = x.order
    BY <1>1 DEF Requests
  <2> HIDE DEF r
  <2>5. Holds(r)
    BY <1>1, <2>1, <2>4
    DEF Holds, BroadcastHolds, AcceptHolds, CancelHolds, TripHolds, BroadcastLabels, CancelLabels
  <2> QED BY <1>2, <2>3, <2>5, CalmStep
<1>6. CASE AcceptReadRivals(only)
  <2> DEFINE r == [x EXCEPT !.pc = "acceptCommit", !.rows = Rivals(x.order, x.row)]
  <2>1. Goto(only, r) /\ x.pc = "acceptRivals"
    BY <1>6 DEF AcceptReadRivals, At
  <2> HIDE DEF x
  <2>2. /\ r.pc = "acceptCommit" /\ r.order = x.order /\ r.row = x.row
        /\ r.rows = Rivals(x.order, x.row)
    BY <1>1 DEF Requests
  <2> HIDE DEF r
  <2>3. Pending(r.order) \subseteq r.rows \cup {r.row}
    BY <2>2 DEF Rivals
  <2>4. Holds(r)
    BY <1>1, <2>1, <2>2, <2>3
    DEF Holds, BroadcastHolds, AcceptHolds, CancelHolds, TripHolds, BroadcastLabels, CancelLabels
  <2> QED BY <1>2, <2>1, <2>4, CalmStep
<1>7. CASE CancelRead(only) /\ ~Finish(only)
  <2>1. /\ x.pc = "cancelRead" /\ Goto(only, CancelOpened(x.order, x.handler))
        /\ x.order \in Orders
    BY <1>7, AboutOrder DEF CancelRead, At
  <2> HIDE DEF x
  <2>2. x.handler \in DOMAIN CancelledFrom /\ order[x.order].status \in CancelledFrom[x.handler]
    BY <1>1, <2>1 DEF Holds, CancelHolds, CancelLabels
  <2>3. Holds(CancelOpened(x.order, x.handler))
    BY <2>1, <2>2, CancelOpenedHolds
  <2> QED BY <1>2, <2>1, <2>3, CalmStep
<1>8. CASE CancelReadPending(only)
  <2> DEFINE r == [x EXCEPT !.pc = "cancelCommit", !.rows = Pending(x.order)]
  <2>1. Goto(only, r) /\ x.pc = "cancelPending"
    BY <1>8 DEF CancelReadPending, At
  <2> HIDE DEF x
  <2>2. /\ r.pc = "cancelCommit" /\ r.order = x.order /\ r.rows = Pending(x.order)
        /\ r.handler = x.handler /\ r.driver = x.driver /\ r.flag = x.flag
    BY <1>1 DEF Requests
  <2> HIDE DEF r
  <2>3. CancelHolds(r)
    BY <1>1, <2>1, <2>2 DEF Holds, CancelHolds, CancelLabels
  <2>4. Holds(r)
    BY <2>2, <2>3 DEF Holds, BroadcastHolds, AcceptHolds, TripHolds, BroadcastLabels
  <2> QED BY <1>2, <2>1, <2>4, CalmStep
<1>9. CASE CompleteRead(only) /\ ~Finish(only)
  <2> DEFINE r == [x EXCEPT !.pc = "completeCommit"]
  <2>1. Goto(only, r) /\ Completable(x.order, {"ACTIVE", "DISPUTED"})
    BY <1>9 DEF CompleteRead
  <2> HIDE DEF x
  <2>2. r.pc = "completeCommit" /\ r.order = x.order
    BY <1>1 DEF Requests
  <2> HIDE DEF r
  <2>3. Holds(r)
    BY <2>1, <2>2
    DEF Completable, Holds, BroadcastHolds, AcceptHolds, CancelHolds, TripHolds,
        BroadcastLabels, CancelLabels
  <2> QED BY <1>2, <2>1, <2>3, CalmStep
<1> QED BY <1>3, <1>4, <1>5, <1>6, <1>7, <1>8, <1>9

-----------------------------------------------------------------------------
(* Writes of orders and trips, each the last statement of its request.      *)

LEMMA FinishHolds ==
  ASSUME NEW only, Slots = {only}, IInv, Finish(only)
  PROVE  Holds(req[only])'
<1>1. req'[only] = Idle
  BY OnlyOne DEF Finish
<1>2. req'[only].pc = "idle"
  BY <1>1, IdlePlain
<1> QED BY <1>2 DEF Holds, BroadcastHolds, AcceptHolds, CancelHolds, TripHolds, BroadcastLabels,
                    CancelLabels

(* The statuses of a trip that go with an order's.                         *)
Allowed(status) ==
  CASE status \in {"NONE", "CREATED", "BROADCASTED"} -> {"NONE"}
    [] status \in {"ACCEPTED", "DRIVER_ARRIVING"} -> {"NOT_STARTED", "DISPUTED"}
    [] status = "PASSENGER_ONBOARD" -> {"ACTIVE", "DISPUTED"}
    [] status = "COMPLETED" -> {"COMPLETED"}
    [] OTHER -> {"NONE", "CANCELLED"}

LEMMA FollowsAllowed ==
  TripFollowsOrder <=> \A o \in Orders : trip[o].status \in Allowed(order[o].status)
BY DEF TripFollowsOrder, Allowed

LEMMA FollowsAllowedNext ==
  TripFollowsOrder' <=> \A o \in Orders : trip'[o].status \in Allowed(order'[o].status)
BY DEF TripFollowsOrder, Allowed

OpenTrip == {"NOT_STARTED", "ACTIVE", "DISPUTED"}

(* A write about order o keeps the tables in order when it leaves o so,      *)
(* withdraws the offers of an order it takes or closes, and leaves nobody   *)
(* busy but the driver of an open trip.                                     *)
LEMMA WriteFits ==
  ASSUME IInv, Fits, NEW o \in Orders,
         \A p \in Orders \ {o} : /\ order'[p].status = order[p].status
                                 /\ trip'[p] = trip[p] /\ charges'[p] = charges[p],
         trip'[o].status \in Allowed(order'[o].status),
         trip'[o].status = "NONE" => trip'[o] = NoTrip,
         charges'[o] = IF order'[o].status = "COMPLETED" THEN 1 ELSE 0,
         \A a \in Rows : IsPending(a)' =>
           /\ IsPending(a) /\ asg'[a].order = asg[a].order
           /\ asg[a].order = o => order'[o].status \in {"CREATED", "BROADCASTED"},
         \A d \in Drivers : op'[d] \in CantOffline =>
           \/ trip'[o].driver = d /\ trip'[o].status \in OpenTrip
           \/ op[d] = op'[d] /\ ~(trip[o].driver = d /\ trip[o].status \in OpenTrip)
  PROVE  Fits'
<1>1. TripFollowsOrder'
  BY FollowsAllowed, FollowsAllowedNext DEF Fits
<1>2. ChargedExactlyOnce'
  BY DEF Fits, ChargedExactlyOnce
<1>3. TripIsRow'
  BY DEF Fits, TripIsRow
<1>4. NoOfferOnTakenOrder'
  <2>1. \A a \in Rows : IsPending(a) => asg[a].order \in Orders
    BY DEF IInv, DataOK, RowsNamed, IsPending
  <2> QED BY <2>1 DEF Fits, NoOfferOnTakenOrder
<1>5. BusyMeansOnTrip'
  BY DEF Fits, BusyMeansOnTrip, OpenTrip
<1> QED BY <1>1, <1>2, <1>3, <1>4, <1>5 DEF Fits

LEMMA MarkSerial ==
  ASSUME NEW only, Slots = {only}, IInv, Fits, Holds(req[only]), BroadcastMark(only)
  PROVE  Fits' /\ Holds(req[only])'
<1> DEFINE x == req[only]
           o == x.order
<1>1. /\ x.pc = "markBroadcasted" /\ Finish(only)
      /\ order' = [order EXCEPT ![o].status = "BROADCASTED"]
      /\ UNCHANGED <<asg, trip, op, acct, charges>>
  BY DEF BroadcastMark, At
<1>2. o \in Orders
  BY <1>1, AboutOrder
<1>3. order[o].status = "CREATED"
  BY <1>1 DEF Holds, BroadcastHolds, BroadcastLabels
<1> HIDE DEF x, o
<1>4. /\ order'[o].status = "BROADCASTED"
      /\ \A p \in Orders \ {o} : order'[p] = order[p]
  BY <1>1, <1>2 DEF IInv, DataOK, TablesTyped
<1>5. trip[o].status = "NONE" /\ trip[o] = NoTrip /\ charges[o] = 0
  BY <1>2, <1>3 DEF Fits, TripFollowsOrder, TripIsRow, ChargedExactlyOnce
<1>6. Fits'
  <2>1. trip'[o].status \in Allowed(order'[o].status)
    BY <1>1, <1>4, <1>5 DEF Allowed
  <2>2. charges'[o] = IF order'[o].status = "COMPLETED" THEN 1 ELSE 0
    BY <1>1, <1>4, <1>5
  <2>3. trip'[o] = NoTrip
    BY <1>1, <1>5
  <2> QED BY <1>1, <1>2, <1>4, <1>5, <2>1, <2>2, <2>3, WriteFits DEF IsPending, OpenTrip
<1> QED BY <1>1, <1>6, FinishHolds

LEMMA AcceptSerial ==
  ASSUME NEW only, Slots = {only}, IInv, Fits, Holds(req[only]), AcceptCommit(only)
  PROVE  Fits' /\ Holds(req[only])'
<1> DEFINE x == req[only]
           o == x.order
           d == x.driver
<1>1. /\ x.pc = "acceptCommit" /\ Finish(only) /\ charges' = charges
      /\ x \in Requests /\ RequestOK(x) /\ o \in Orders
  BY AboutOrder DEF AcceptCommit, At
<1>2. order[o].status = "BROADCASTED" /\ Pending(o) \subseteq x.rows \cup {x.row}
  BY <1>1 DEF Holds, AcceptHolds
<1>3. trip[o].status = "NONE" /\ trip[o] = NoTrip /\ charges[o] = 0
  BY <1>1, <1>2 DEF Fits, TripFollowsOrder, TripIsRow, ChargedExactlyOnce
<1>4. /\ asg' = [a \in Rows |->
                   IF a = x.row THEN [asg[a] EXCEPT !.status = "ACCEPTED"]
                   ELSE IF a \in x.rows THEN [asg[a] EXCEPT !.status = "SUPERSEDED"]
                   ELSE asg[a]]
      /\ order' = [order EXCEPT ![o] = [status |-> "ACCEPTED", driver |-> d]]
      /\ trip' = [trip EXCEPT ![o] = [status |-> "NOT_STARTED", driver |-> d, arrived |-> FALSE]]
      /\ op' = [e \in Drivers |->
                  IF e = d THEN "EN_ROUTE_PICKUP"
                  ELSE IF e \in DriversOf(x.rows) THEN "ONLINE_IDLE" ELSE op[e]]
  BY <1>3 DEF AcceptCommit, TripFree
<1> HIDE DEF x, o, d
<1>5. /\ order'[o].status = "ACCEPTED" /\ trip'[o].status = "NOT_STARTED" /\ trip'[o].driver = d
      /\ \A p \in Orders \ {o} : order'[p] = order[p] /\ trip'[p] = trip[p]
  BY <1>1, <1>4 DEF IInv, DataOK, TablesTyped
<1>6. \A a \in Rows : IsPending(a)' => asg'[a] = asg[a] /\ a \notin x.rows /\ a # x.row
  BY <1>4 DEF IsPending, IInv, DataOK, TablesTyped
<1>7. \A a \in Rows : IsPending(a)' =>
        /\ IsPending(a) /\ asg'[a].order = asg[a].order
        /\ asg[a].order # o
  BY <1>2, <1>6 DEF IsPending, Pending
<1>8. \A e \in Drivers : op'[e] \in CantOffline => e = d \/ op[e] = op'[e]
  BY <1>4 DEF CantOffline
<1>9. Fits'
  <2>1. trip'[o].status \in Allowed(order'[o].status)
    BY <1>5 DEF Allowed
  <2>2. charges'[o] = IF order'[o].status = "COMPLETED" THEN 1 ELSE 0
    BY <1>1, <1>3, <1>5
  <2>3. \A e \in Drivers : op'[e] \in CantOffline =>
          \/ trip'[o].driver = e /\ trip'[o].status \in OpenTrip
          \/ op[e] = op'[e] /\ ~(trip[o].driver = e /\ trip[o].status \in OpenTrip)
    BY <1>3, <1>5, <1>8 DEF OpenTrip
  <2>4. \A p \in Orders \ {o} : /\ order'[p].status = order[p].status
                                /\ trip'[p] = trip[p] /\ charges'[p] = charges[p]
    BY <1>1, <1>5
  <2>5. trip'[o].status # "NONE"
    BY <1>5
  <2> QED BY <1>1, <1>7, <2>1, <2>2, <2>3, <2>4, <2>5, WriteFits
<1> QED BY <1>1, <1>9, FinishHolds

LEMMA CancelSerial ==
  ASSUME NEW only, Slots = {only}, IInv, Fits, Holds(req[only]), CancelCommit(only)
  PROVE  Fits' /\ Holds(req[only])'
<1> DEFINE x == req[only]
           o == x.order
<1>1. /\ x.pc = "cancelCommit" /\ Finish(only) /\ charges' = charges
      /\ x \in Requests /\ RequestOK(x) /\ o \in Orders
  BY AboutOrder DEF CancelCommit, At
<1>2. /\ asg' = [a \in Rows |-> IF a \in x.rows
                                THEN [asg[a] EXCEPT !.status = "SUPERSEDED"] ELSE asg[a]]
      /\ trip' = [trip EXCEPT ![o].status = IF x.flag THEN "CANCELLED" ELSE @]
      /\ op' = [d \in Drivers |->
                  IF \/ d = x.driver
                     \/ d \in DriversOf(x.rows) /\ op[d] = "ORDER_OFFERED"
                  THEN "ONLINE_IDLE" ELSE op[d]]
      /\ order' = [order EXCEPT ![o].status = x.handler]
  BY DEF CancelCommit
<1>3. /\ x.handler \in DOMAIN CancelledFrom /\ order[o].status \in CancelledFrom[x.handler]
      /\ x.driver = order[o].driver /\ x.flag = (trip[o].status # "NONE")
      /\ Pending(o) \subseteq x.rows
  BY <1>1 DEF Holds, CancelHolds, CancelLabels
<1>4. /\ x.handler \in {"CANCELLED_BY_OPERATOR", "CANCELLED_BY_DRIVER", "CANCELLED_BY_PASSENGER"}
      /\ order[o].status \in Open
  BY <1>3 DEF CancelledFrom, Open, Underway
<1>5. charges[o] = 0 /\ trip[o].driver = order[o].driver
  BY <1>1, <1>4 DEF Fits, ChargedExactlyOnce, Open, IInv, DataOK, ClaimAgrees
<1>6. trip[o].status = "NONE" => trip[o] = NoTrip
  BY <1>1 DEF Fits, TripIsRow
<1> HIDE DEF x, o
<1>7. \A p \in Orders \ {o} : order'[p] = order[p] /\ trip'[p] = trip[p]
  BY <1>1, <1>2 DEF IInv, DataOK, TablesTyped
<1>8. order'[o].status = x.handler
  BY <1>1, <1>2 DEF IInv, DataOK, TablesTyped
<1>9. trip[o].status # "NONE" => trip'[o].status = "CANCELLED"
  BY <1>1, <1>2, <1>3 DEF IInv, DataOK, TablesTyped
<1>10. trip[o].status = "NONE" => trip'[o] = trip[o]
  <2>1. x.flag = FALSE /\ trip[o].status = "NONE" => trip'[o] = [trip[o] EXCEPT !.status = "NONE"]
    BY <1>1, <1>2 DEF IInv, DataOK, TablesTyped
  <2>2. trip[o].status = "NONE" => [trip[o] EXCEPT !.status = "NONE"] = trip[o]
    BY <1>6 DEF NoTrip
  <2> QED BY <1>3, <2>1, <2>2
<1>11. \A a \in Rows : IsPending(a)' =>
         /\ IsPending(a) /\ asg'[a].order = asg[a].order
         /\ asg[a].order # o
  <2>1. \A a \in Rows : IsPending(a)' => asg'[a] = asg[a] /\ a \notin x.rows
    BY <1>2 DEF IsPending, IInv, DataOK, TablesTyped
  <2> QED BY <1>3, <2>1 DEF IsPending, Pending
<1>12. \A d \in Drivers : op'[d] \in CantOffline => op[d] = op'[d] /\ d # trip[o].driver
  BY <1>2, <1>3, <1>5 DEF CantOffline
<1>13. Fits'
  <2>1. trip'[o].status \in Allowed(order'[o].status)
    BY <1>4, <1>8, <1>9, <1>10 DEF Allowed
  <2>2. charges'[o] = IF order'[o].status = "COMPLETED" THEN 1 ELSE 0
    BY <1>1, <1>4, <1>5, <1>8
  <2>3. trip'[o].status = "NONE" => trip'[o] = NoTrip
    BY <1>6, <1>9, <1>10
  <2>4. \A p \in Orders \ {o} : /\ order'[p].status = order[p].status
                                /\ trip'[p] = trip[p] /\ charges'[p] = charges[p]
    BY <1>1, <1>7
  <2> QED BY <1>1, <1>11, <1>12, <2>1, <2>2, <2>3, <2>4, WriteFits
<1> QED BY <1>1, <1>13, FinishHolds

(* Arrival, start, dispute and completion.                                 *)
LEMMA TripSerial ==
  ASSUME NEW only, Slots = {only}, IInv, Fits, Holds(req[only]),
         ArriveCommit(only) \/ StartCommit(only) \/ DisputeCommit(only) \/ CompleteCommit(only)
  PROVE  Fits' /\ Holds(req[only])'
<1> DEFINE x == req[only]
           o == x.order
<1>1. /\ x.pc \in {"arriveCommit", "startCommit", "disputeCommit", "completeCommit"}
      /\ Finish(only) /\ asg' = asg
      /\ o \in Orders
  <2>1. x.pc \in {"arriveCommit", "startCommit", "disputeCommit", "completeCommit"}
    BY DEF ArriveCommit, StartCommit, DisputeCommit, CompleteCommit, At
  <2>2. Finish(only) /\ asg' = asg
    BY DEF ArriveCommit, StartCommit, DisputeCommit, CompleteCommit
  <2> QED BY <2>1, <2>2, AboutOrder
<1>2. TripHolds(x)
  BY DEF Holds
<1>3. trip[o].status \in OpenTrip
  BY <1>1, <1>2 DEF TripHolds, OpenTrip
<1>4. order[o].status \in Underway
  BY <1>1, <1>3, DriverMeansTaken
  DEF Fits, TripFollowsOrder, OpenTrip, Underway, IInv, DataOK, TablesTyped, OrderStatus, Terminal
<1>5. charges[o] = 0
  BY <1>1, <1>4 DEF Fits, ChargedExactlyOnce, Underway
<1>6. ASSUME NEW ts \in OpenTrip \cup {"COMPLETED"}, NEW os,
             trip'[o].status = ts, trip'[o].driver = trip[o].driver,
             order'[o].status = os, ts \in Allowed(os),
             \A p \in Orders \ {o} : /\ order'[p].status = order[p].status
                                     /\ trip'[p] = trip[p] /\ charges'[p] = charges[p],
             charges'[o] = IF os = "COMPLETED" THEN 1 ELSE 0,
             \A d \in Drivers : op'[d] \in CantOffline =>
               \/ d = trip[o].driver /\ ts \in OpenTrip
               \/ op[d] = op'[d] /\ (d = trip[o].driver => ts \in OpenTrip)
      PROVE  Fits' /\ Holds(req[only])'
  <2>1. \A a \in Rows : IsPending(a)' =>
          IsPending(a) /\ asg'[a].order = asg[a].order /\ asg[a].order # o
    BY <1>1, <1>4 DEF IsPending, Fits, NoOfferOnTakenOrder, Underway
  <2>2. trip'[o].status # "NONE"
    BY <1>6 DEF OpenTrip
  <2>3. \A d \in Drivers : op'[d] \in CantOffline =>
          \/ trip'[o].driver = d /\ trip'[o].status \in OpenTrip
          \/ op[d] = op'[d] /\ ~(trip[o].driver = d /\ trip[o].status \in OpenTrip)
    BY <1>6
  <2>4. /\ trip'[o].status \in Allowed(order'[o].status)
        /\ charges'[o] = IF order'[o].status = "COMPLETED" THEN 1 ELSE 0
    BY <1>6
  <2>5. Fits'
    BY <1>1, <1>6, <2>1, <2>2, <2>3, <2>4, WriteFits
  <2> QED BY <1>1, <2>5, FinishHolds
<1>7. CASE ArriveCommit(only)
  <2>1. /\ trip' = [trip EXCEPT ![o].arrived = TRUE]
        /\ order' = [order EXCEPT ![o].status = "DRIVER_ARRIVING"]
        /\ op' = [op EXCEPT ![trip[o].driver] = "ARRIVED_PICKUP"]
        /\ charges' = charges /\ x.pc = "arriveCommit"
    BY <1>7 DEF ArriveCommit, At
  <2>2. trip[o].status = "NOT_STARTED"
    BY <1>2, <2>1 DEF TripHolds
  <2> HIDE DEF x, o
  <2>3. /\ trip'[o].status = "NOT_STARTED" /\ trip'[o].driver = trip[o].driver
        /\ order'[o].status = "DRIVER_ARRIVING"
        /\ \A p \in Orders \ {o} : /\ order'[p].status = order[p].status
                                   /\ trip'[p] = trip[p] /\ charges'[p] = charges[p]
    BY <1>1, <2>1, <2>2 DEF IInv, DataOK, TablesTyped
  <2>4. \A d \in Drivers : d = trip[o].driver \/ op'[d] = op[d]
    BY <2>1 DEF IInv, DriversTyped
  <2>5. "NOT_STARTED" \in Allowed("DRIVER_ARRIVING") /\ "NOT_STARTED" \in OpenTrip
    BY DEF Allowed, OpenTrip
  <2>6. charges'[o] = IF "DRIVER_ARRIVING" = "COMPLETED" THEN 1 ELSE 0
    BY <1>5, <2>1
  <2> QED BY <1>6, <2>3, <2>4, <2>5, <2>6
<1>8. CASE StartCommit(only)
  <2>1. /\ trip' = [trip EXCEPT ![o].status = "ACTIVE"]
        /\ order' = [order EXCEPT ![o].status = "PASSENGER_ONBOARD"]
        /\ op' = [op EXCEPT ![trip[o].driver] = "IN_TRIP"]
        /\ charges' = charges
    BY <1>8 DEF StartCommit
  <2> HIDE DEF x, o
  <2>2. /\ trip'[o].status = "ACTIVE" /\ trip'[o].driver = trip[o].driver
        /\ order'[o].status = "PASSENGER_ONBOARD"
        /\ \A p \in Orders \ {o} : /\ order'[p].status = order[p].status
                                   /\ trip'[p] = trip[p] /\ charges'[p] = charges[p]
    BY <1>1, <2>1 DEF IInv, DataOK, TablesTyped
  <2>3. \A d \in Drivers : d = trip[o].driver \/ op'[d] = op[d]
    BY <2>1 DEF IInv, DriversTyped
  <2>4. "ACTIVE" \in Allowed("PASSENGER_ONBOARD") /\ "ACTIVE" \in OpenTrip
    BY DEF Allowed, OpenTrip
  <2>5. charges'[o] = IF "PASSENGER_ONBOARD" = "COMPLETED" THEN 1 ELSE 0
    BY <1>5, <2>1
  <2> QED BY <1>6, <2>2, <2>3, <2>4, <2>5
<1>9. CASE DisputeCommit(only)
  <2>1. /\ trip' = [trip EXCEPT ![o].status = "DISPUTED"]
        /\ order' = order /\ op' = op /\ charges' = charges
    BY <1>9 DEF DisputeCommit
  <2> HIDE DEF x, o
  <2>2. /\ trip'[o].status = "DISPUTED" /\ trip'[o].driver = trip[o].driver
        /\ order'[o].status = order[o].status
        /\ \A p \in Orders \ {o} : /\ order'[p].status = order[p].status
                                   /\ trip'[p] = trip[p] /\ charges'[p] = charges[p]
    BY <1>1, <2>1 DEF IInv, DataOK, TablesTyped
  <2>3. "DISPUTED" \in Allowed(order[o].status) /\ "DISPUTED" \in OpenTrip
    BY <1>4 DEF Allowed, OpenTrip, Underway
  <2>4. charges'[o] = IF order[o].status = "COMPLETED" THEN 1 ELSE 0
    BY <1>4, <1>5, <2>1 DEF Underway
  <2> QED BY <1>6, <2>1, <2>2, <2>3, <2>4
<1>10. CASE CompleteCommit(only)
  <2>1. /\ trip' = [trip EXCEPT ![o].status = "COMPLETED"]
        /\ order' = [order EXCEPT ![o].status = "COMPLETED"]
        /\ op' = [op EXCEPT ![trip[o].driver] = "ONLINE_IDLE"]
        /\ charges' = [charges EXCEPT ![o] = @ + 1]
    BY <1>10 DEF CompleteCommit
  <2> HIDE DEF x, o
  <2>2. /\ trip'[o].status = "COMPLETED" /\ trip'[o].driver = trip[o].driver
        /\ order'[o].status = "COMPLETED"
        /\ \A p \in Orders \ {o} : /\ order'[p].status = order[p].status
                                   /\ trip'[p] = trip[p] /\ charges'[p] = charges[p]
    BY <1>1, <2>1 DEF IInv, DataOK, TablesTyped
  <2>3. \A d \in Drivers : op'[d] = IF d = trip[o].driver THEN "ONLINE_IDLE" ELSE op[d]
    BY <2>1 DEF IInv, DriversTyped
  <2>4. \A d \in Drivers : op'[d] \in CantOffline => d # trip[o].driver /\ op[d] = op'[d]
    BY <2>3 DEF CantOffline
  <2>5. "COMPLETED" \in Allowed("COMPLETED")
    BY DEF Allowed
  <2>6. charges'[o] = IF "COMPLETED" = "COMPLETED" THEN 1 ELSE 0
    BY <1>1, <1>5, <2>1 DEF IInv
  <2> QED BY <1>6, <2>2, <2>4, <2>5, <2>6
<1> QED BY <1>7, <1>8, <1>9, <1>10

LEMMA ServeSerial ==
  ASSUME NEW only, Slots = {only}, IInv, Fits, Holds(req[only]), Serve(only)
  PROVE  Fits' /\ Holds(req[only])'
BY PlainStatements, BroadcastStatements, InsertSerial, ReadStatements, MarkSerial, AcceptSerial,
   CancelSerial, TripSerial
DEF Serve

(* The world around the request.                                           *)
LEMMA EnvironmentSerial ==
  ASSUME NEW only, Slots = {only}, IInv, Fits, Holds(req[only]), Environment
  PROVE  Fits' /\ Holds(req[only])'
<1>1. PICK x : x = req[only]
  OBVIOUS
<1>2. x \in Requests /\ RequestOK(x) /\ Holds(x)
  BY <1>1, AboutOrder
<1>3. x.pc \notin Plain => x.order \in Orders
  BY <1>1, AboutOrder DEF Plain
<1>4. ASSUME Calm, req' = req
      PROVE  Fits' /\ Holds(req[only])'
  BY <1>1, <1>2, <1>4, CalmFits, CalmHolds, HoldsNext
<1>5. ASSUME NEW o \in Orders, CreateOrder(o)
      PROVE  Fits' /\ Holds(req[only])'
  <2>1. /\ order[o].status = "NONE"
        /\ order' = [order EXCEPT ![o].status = "CREATED"]
        /\ UNCHANGED <<asg, trip, op, acct, charges, req>>
    BY <1>5 DEF CreateOrder
  <2>2. \A p \in Orders : order'[p].status = IF p = o THEN "CREATED" ELSE order[p].status
    BY <2>1 DEF IInv, DataOK, TablesTyped
  <2>3. \A p \in Orders : order'[p].driver = order[p].driver
    BY <2>1 DEF IInv, DataOK, TablesTyped
  <2>4. trip[o].status = "NONE" /\ charges[o] = 0
    BY <2>1 DEF Fits, TripFollowsOrder, ChargedExactlyOnce
  <2>5. Fits'
    <3>1. \A p \in Orders : trip'[p] = trip[p] /\ charges'[p] = charges[p]
      BY <2>1
    <3>2. TripFollowsOrder'
      BY <2>2, <2>4, <3>1, FollowsAllowed, FollowsAllowedNext DEF Fits, Allowed
    <3>3. ChargedExactlyOnce' /\ TripIsRow'
      BY <2>2, <2>4, <3>1 DEF Fits, ChargedExactlyOnce, TripIsRow
    <3>4. NoOfferOnTakenOrder'
      <4>1. \A a \in Rows : IsPending(a) => asg[a].order \in Orders
        BY DEF IInv, DataOK, RowsNamed, IsPending
      <4> QED BY <2>1, <2>2, <4>1 DEF Fits, NoOfferOnTakenOrder, IsPending
    <3>5. BusyMeansOnTrip'
      BY <2>1 DEF Fits, BusyMeansOnTrip
    <3> QED BY <3>2, <3>3, <3>4, <3>5 DEF Fits
  <2>6. Holds(x)'
    <3>1. CASE x.pc \in Plain
      BY <3>1 DEF Plain, Holds, BroadcastHolds, AcceptHolds, CancelHolds, TripHolds,
                  BroadcastLabels, CancelLabels
    <3>2. CASE x.pc \notin Plain
      <4>1. order[x.order].status # "NONE" => order'[x.order].status = order[x.order].status
        BY <1>3, <2>1, <2>2, <3>2
      <4>2. trip[x.order].status # "NONE" => order[x.order].status # "NONE"
        BY <1>3, <3>2 DEF Fits, TripFollowsOrder
      <4>3. BroadcastHolds(x)'
        BY <1>2, <4>1 DEF Holds, BroadcastHolds
      <4>4. AcceptHolds(x)'
        BY <1>2, <2>1, <4>1 DEF Holds, AcceptHolds, Pending, IsPending
      <4>5. CancelHolds(x)'
        <5>1. x.pc \in CancelLabels => order[x.order].status # "NONE"
          BY <1>2 DEF Holds, CancelHolds, CancelledFrom, Open, Underway
        <5>2. Pending(x.order)' = Pending(x.order)
          BY <2>1 DEF Pending, IsPending
        <5> QED BY <1>2, <1>3, <2>1, <2>3, <3>2, <4>1, <5>1, <5>2
                DEF Holds, CancelHolds, CancelLabels
      <4>6. TripHolds(x)'
        BY <1>2, <2>1, <4>1 DEF Holds, TripHolds
      <4> QED BY <4>3, <4>4, <4>5, <4>6 DEF Holds
    <3> QED BY <3>1, <3>2
  <2>7. req'[only] = x
    BY <1>1, <2>1
  <2> QED BY <2>5, <2>6, <2>7, HoldsNext
<1>6. ASSUME NEW d \in Drivers, SuspendDriver(d) \/ ReactivateDriver(d)
      PROVE  Fits' /\ Holds(req[only])'
  <2>1. UNCHANGED <<order, asg, trip, charges, req>>
    BY <1>6 DEF SuspendDriver, ReactivateDriver
  <2>2. \A e \in Drivers : op'[e] = op[e] \/ op'[e] = "OFFLINE"
    BY <1>6 DEF SuspendDriver, ReactivateDriver, IInv, DriversTyped
  <2>3. Calm
    BY <2>1, <2>2 DEF Calm, IsPending, CantOffline
  <2> QED BY <1>4, <2>1, <2>3
<1>7. ASSUME NEW a \in Rows, Lapse(a)
      PROVE  Fits' /\ Holds(req[only])'
  <2>1. UNCHANGED <<order, trip, op, charges, req>>
    BY <1>7 DEF Lapse
  <2>2. \A b \in Rows : IsPending(b)' => IsPending(b) /\ asg'[b].order = asg[b].order
    BY <1>7 DEF Lapse, IsPending, IInv, DataOK, TablesTyped
  <2> QED BY <1>4, <2>1, <2>2 DEF Calm
<1>8. CASE Abort(only)
  <2>1. Calm /\ Finish(only)
    BY <1>8 DEF Abort, Calm, IsPending
  <2> QED BY <2>1, CalmFits, FinishHolds
<1> QED BY <1>5, <1>6, <1>7, <1>8 DEF Environment

-----------------------------------------------------------------------------
(* What holds when requests are served one after another.                   *)

LEMMA SerialStart ==
  ASSUME NEW only, Slots = {only}, Init
  PROVE  Fits /\ Holds(req[only])
<1>1. req[only].pc \in Plain
  BY IdlePlain DEF Init
<1>2. Holds(req[only])
  BY <1>1 DEF Plain, Holds, BroadcastHolds, AcceptHolds, CancelHolds, TripHolds,
              BroadcastLabels, CancelLabels
<1>3. Fits
  BY DEF Init, Fits, TripFollowsOrder, ChargedExactlyOnce, NoOfferOnTakenOrder, BusyMeansOnTrip,
         TripIsRow, NoOrder, NoTrip, NoRow, IsPending, CantOffline
<1> QED BY <1>2, <1>3

LEMMA SerialStep ==
  ASSUME NEW only, Slots = {only}, IInv, Fits, Holds(req[only]), [Next]_vars
  PROVE  Fits' /\ Holds(req[only])'
<1>1. CASE Next
  BY <1>1, ArrivalSerial, ServeSerial, EnvironmentSerial DEF Next
<1>2. CASE UNCHANGED vars
  <2>1. Calm /\ req' = req
    BY <1>2 DEF vars, Calm, IsPending
  <2>2. PICK x : x = req[only]
    OBVIOUS
  <2> QED BY <2>1, <2>2, CalmFits, CalmHolds, HoldsNext
<1> QED BY <1>1, <1>2

LEMMA Serial ==
  ASSUME NEW only, Slots = {only}
  PROVE  Spec => [](Fits /\ Holds(req[only]))
<1> DEFINE SInv == Fits /\ Holds(req[only])
<1>1. Init => SInv
  BY SerialStart
<1>2. IInv /\ SInv /\ [Next]_vars => SInv'
  BY SerialStep
<1> HIDE DEF SInv
<1>3. Spec => []SInv
  BY <1>1, <1>2, Inductive, PTL DEF Spec
<1> QED BY <1>3 DEF SInv

(* Requests served one after another, whoever is suspended and whichever    *)
(* request dies half way: the trip is in the state its order calls for.      *)
THEOREM TripsFollow ==
  ASSUME NEW only, Slots = {only}
  PROVE  Spec => []TripFollowsOrder
<1>1. Spec => [](Fits /\ Holds(req[only]))
  BY Serial
<1>2. Fits => TripFollowsOrder
  BY DEF Fits
<1> QED BY <1>1, <1>2, PTL

(* Served one after another, exactly the completed orders were charged, each *)
(* once.                                                                   *)
THEOREM ChargedOnce ==
  ASSUME NEW only, Slots = {only}
  PROVE  Spec => []ChargedExactlyOnce
<1>1. Spec => [](Fits /\ Holds(req[only]))
  BY Serial
<1>2. Fits => ChargedExactlyOnce
  BY DEF Fits
<1> QED BY <1>1, <1>2, PTL

(* Served one after another, no offer of a taken or closed order is left to  *)
(* be accepted.                                                            *)
THEOREM OffersWithdrawn ==
  ASSUME NEW only, Slots = {only}
  PROVE  Spec => []NoOfferOnTakenOrder
<1>1. Spec => [](Fits /\ Holds(req[only]))
  BY Serial
<1>2. Fits => NoOfferOnTakenOrder
  BY DEF Fits
<1> QED BY <1>1, <1>2, PTL

(* Served one after another, and whatever request dies half way, a driver    *)
(* shown as busy has an open trip.                                         *)
THEOREM BusyAreDriving ==
  ASSUME NEW only, Slots = {only}
  PROVE  Spec => []BusyMeansOnTrip
<1>1. Spec => [](Fits /\ Holds(req[only]))
  BY Serial
<1>2. Fits => BusyMeansOnTrip
  BY DEF Fits
<1> QED BY <1>1, <1>2, PTL

-----------------------------------------------------------------------------
(* The life cycle.                                                         *)

Statuses == [o \in Orders |-> order[o].status]

(* A step that moves no order and charges nothing is none of its business.  *)
LEMMA Unmoved ==
  ASSUME \A o \in Orders : order'[o].status = order[o].status, charges' = charges
  PROVE  UNCHANGED Lifecycle!vars
<1>1. Statuses' = Statuses
  BY DEF Statuses
<1> QED BY <1>1 DEF Lifecycle!vars, Statuses

(* One order moves.                                                        *)
LEMMA Moved ==
  ASSUME NEW o \in Orders, NEW from, NEW to, order[o].status \in from,
         order'[o].status = to, \A p \in Orders \ {o} : order'[p].status = order[p].status
  PROVE  Lifecycle!Move(o, from, to)
<1>1. Statuses' = [Statuses EXCEPT ![o] = to] /\ Statuses[o] = order[o].status
  BY DEF Statuses
<1> QED BY <1>1 DEF Lifecycle!Move, Statuses

LEMMA LifecycleStep ==
  ASSUME NEW only, Slots = {only}, IInv, Fits, Holds(req[only]), [Next]_vars
  PROVE  [Lifecycle!Next]_Lifecycle!vars
<1> DEFINE x == req[only]
<1>0. PICK o, h : o = x.order /\ h = x.handler
  OBVIOUS
<1>1. x \in Requests /\ RequestOK(x) /\ Holds(x)
  BY AboutOrder
<1>2. ASSUME UNCHANGED <<order, charges>>
      PROVE  [Lifecycle!Next]_Lifecycle!vars
  BY <1>2, Unmoved
<1>3. ASSUME NEW p \in Orders, CreateOrder(p)
      PROVE  [Lifecycle!Next]_Lifecycle!vars
  <2>1. /\ order[p].status \in {"NONE"} /\ order'[p].status = "CREATED" /\ charges' = charges
        /\ \A q \in Orders \ {p} : order'[q].status = order[q].status
    BY <1>3 DEF CreateOrder, IInv, DataOK, TablesTyped
  <2>2. Lifecycle!Move(p, {"NONE"}, "CREATED")
    BY <2>1, Moved
  <2>3. Lifecycle!Advance(p)
    BY <2>1, <2>2 DEF Lifecycle!Advance
  <2> QED BY <2>3 DEF Lifecycle!Next
<1>4. CASE BroadcastMark(only)
  <2>1. x.pc = "markBroadcasted" /\ o \in Orders
    BY <1>4, <1>0, AboutOrder DEF BroadcastMark, At
  <2>2. order[o].status \in {"CREATED"}
    BY <1>0, <1>1, <2>1 DEF Holds, BroadcastHolds, BroadcastLabels
  <2>3. /\ order'[o].status = "BROADCASTED" /\ charges' = charges
        /\ \A q \in Orders \ {o} : order'[q].status = order[q].status
    BY <1>0, <1>4, <2>1 DEF BroadcastMark, IInv, DataOK, TablesTyped
  <2>4. Lifecycle!Move(o, {"CREATED"}, "BROADCASTED")
    BY <2>1, <2>2, <2>3, Moved
  <2>5. Lifecycle!Advance(o)
    BY <2>3, <2>4 DEF Lifecycle!Advance
  <2> QED BY <2>1, <2>5 DEF Lifecycle!Next
<1>5. CASE AcceptCommit(only) /\ ~UNCHANGED order
  <2>1. x.pc = "acceptCommit" /\ o \in Orders /\ charges' = charges
    BY <1>5, <1>0, AboutOrder DEF AcceptCommit, At
  <2>2. order[o].status \in {"BROADCASTED"}
    BY <1>0, <1>1, <2>1 DEF Holds, AcceptHolds
  <2>3. /\ order'[o].status = "ACCEPTED"
        /\ \A q \in Orders \ {o} : order'[q].status = order[q].status
    <3>1. order' = [order EXCEPT ![o] = [status |-> "ACCEPTED", driver |-> x.driver]]
      BY <1>0, <1>5 DEF AcceptCommit
    <3> QED BY <2>1, <3>1 DEF IInv, DataOK, TablesTyped
  <2>4. Lifecycle!Move(o, {"BROADCASTED"}, "ACCEPTED")
    BY <2>1, <2>2, <2>3, Moved
  <2>5. Lifecycle!Advance(o)
    BY <2>1, <2>4 DEF Lifecycle!Advance
  <2> QED BY <2>1, <2>5 DEF Lifecycle!Next
<1>6. CASE CancelCommit(only)
  <2>1. x.pc = "cancelCommit" /\ o \in Orders /\ charges' = charges
    BY <1>6, <1>0, AboutOrder DEF CancelCommit, At
  <2>2. h \in DOMAIN CancelledFrom /\ order[o].status \in CancelledFrom[h]
    BY <1>0, <1>1, <2>1 DEF Holds, CancelHolds, CancelLabels
  <2>3. /\ order'[o].status = h
        /\ \A q \in Orders \ {o} : order'[q].status = order[q].status
    BY <1>0, <1>6, <2>1 DEF CancelCommit, IInv, DataOK, TablesTyped
  <2>4. h \in {"CANCELLED_BY_OPERATOR", "CANCELLED_BY_DRIVER", "CANCELLED_BY_PASSENGER"}
    BY <2>2 DEF CancelledFrom
  <2>5. Lifecycle!Move(o, CancelledFrom[h], h)
    BY <2>1, <2>2, <2>3, Moved
  <2>6. /\ CancelledFrom["CANCELLED_BY_OPERATOR"] =
             {"CREATED", "BROADCASTED"} \cup Lifecycle!Underway
        /\ CancelledFrom["CANCELLED_BY_DRIVER"] = Lifecycle!Underway
        /\ CancelledFrom["CANCELLED_BY_PASSENGER"] = {"DRIVER_ARRIVING"}
    BY DEF CancelledFrom, Open, Underway, Lifecycle!Underway
  <2>7. Lifecycle!Cancel(o)
    BY <2>1, <2>4, <2>5, <2>6 DEF Lifecycle!Cancel
  <2> QED BY <2>1, <2>7 DEF Lifecycle!Next
<1>7. CASE ArriveCommit(only)
  <2>1. x.pc = "arriveCommit" /\ o \in Orders /\ charges' = charges
    BY <1>7, <1>0, AboutOrder DEF ArriveCommit, At
  <2>2. order[o].status \in {"ACCEPTED"}
    BY <1>0, <1>1, <2>1 DEF Holds, TripHolds
  <2>3. /\ order'[o].status = "DRIVER_ARRIVING"
        /\ \A q \in Orders \ {o} : order'[q].status = order[q].status
    BY <1>0, <1>7, <2>1 DEF ArriveCommit, IInv, DataOK, TablesTyped
  <2>4. Lifecycle!Move(o, {"ACCEPTED"}, "DRIVER_ARRIVING")
    BY <2>1, <2>2, <2>3, Moved
  <2>5. Lifecycle!Advance(o)
    BY <2>1, <2>4 DEF Lifecycle!Advance
  <2> QED BY <2>1, <2>5 DEF Lifecycle!Next
<1>8. CASE StartCommit(only)
  <2>1. x.pc = "startCommit" /\ o \in Orders /\ charges' = charges
    BY <1>8, <1>0, AboutOrder DEF StartCommit, At
  <2>2. order[o].status \in {"DRIVER_ARRIVING"}
    BY <1>0, <1>1, <2>1 DEF Holds, TripHolds
  <2>3. /\ order'[o].status = "PASSENGER_ONBOARD"
        /\ \A q \in Orders \ {o} : order'[q].status = order[q].status
    BY <1>0, <1>8, <2>1 DEF StartCommit, IInv, DataOK, TablesTyped
  <2>4. Lifecycle!Move(o, {"DRIVER_ARRIVING"}, "PASSENGER_ONBOARD")
    BY <2>1, <2>2, <2>3, Moved
  <2>5. Lifecycle!Advance(o)
    BY <2>1, <2>4 DEF Lifecycle!Advance
  <2> QED BY <2>1, <2>5 DEF Lifecycle!Next
<1>9. CASE CompleteCommit(only)
  <2>1. x.pc = "completeCommit" /\ o \in Orders
    BY <1>9, <1>0, AboutOrder DEF CompleteCommit, At
  <2>2. order[o].status \in {"PASSENGER_ONBOARD"}
    BY <1>0, <1>1, <2>1 DEF Holds, TripHolds
  <2>3. /\ order'[o].status = "COMPLETED"
        /\ \A q \in Orders \ {o} : order'[q].status = order[q].status
        /\ charges' = [charges EXCEPT ![o] = @ + 1]
    BY <1>0, <1>9, <2>1 DEF CompleteCommit, IInv, DataOK, TablesTyped
  <2>4. Lifecycle!Move(o, {"PASSENGER_ONBOARD"}, "COMPLETED")
    BY <2>1, <2>2, <2>3, Moved
  <2>5. Lifecycle!Complete(o)
    BY <2>3, <2>4 DEF Lifecycle!Complete
  <2> QED BY <2>1, <2>5 DEF Lifecycle!Next
(* No other step writes an order's status or charges it.                    *)
<1>10. CASE DisputeCommit(only) \/ (AcceptCommit(only) /\ UNCHANGED order)
  BY <1>2, <1>10 DEF DisputeCommit, AcceptCommit
<1>11. CASE Arrival(only)
  BY <1>2, <1>11
  DEF Arrival, BroadcastOrder, GetCurrentOffer, AcceptOrder, RejectOrder, ExpireStale,
      CancelByOperator, CancelByDriver, MarkPassengerNoShow, ResolveDisputeCancel,
      MarkPickupArrived, StartTrip, OpenDispute, CompleteTrip, ResolveDisputeComplete, Checked,
      GoOnline, GoOffline
<1>12. CASE \/ ExpireRow(only) \/ ExpireDriver(only) \/ BroadcastReadOrder(only)
            \/ BroadcastFindPending(only) \/ BroadcastSupersede(only) \/ BroadcastRelease(only)
            \/ BroadcastSelect(only) \/ BroadcastInsert(only) \/ BroadcastMarkOffered(only)
            \/ AcceptReadOrder(only) \/ AcceptReadOffer(only) \/ AcceptReadRivals(only)
            \/ RejectFind(only) \/ RejectRow(only) \/ RejectDriver(only) \/ CancelRead(only)
            \/ CancelReadPending(only) \/ CompleteRead(only) \/ PresenceWrite(only)
  BY <1>2, <1>12
  DEF ExpireRow, ExpireDriver, BroadcastReadOrder, BroadcastFindPending, BroadcastSupersede,
      BroadcastRelease, BroadcastSelect, BroadcastInsert, BroadcastMarkOffered, AcceptReadOrder,
      AcceptReadOffer, AcceptReadRivals, RejectFind, RejectRow, RejectDriver, CancelRead,
      CancelReadPending, CompleteRead, PresenceWrite
<1>13. CASE \/ \E d \in Drivers : SuspendDriver(d) \/ ReactivateDriver(d)
            \/ \E a \in Rows : Lapse(a)
            \/ \E s \in Slots : Abort(s)
  BY <1>2, <1>13 DEF SuspendDriver, ReactivateDriver, Lapse, Abort
<1>14. CASE UNCHANGED vars
  BY <1>2, <1>14 DEF vars
<1>15. CASE Environment
  BY <1>3, <1>13, <1>15 DEF Environment
<1>16. CASE Serve(only)
  <2>1. CASE AcceptCommit(only)
    BY <1>5, <1>10, <2>1
  <2>2. CASE ~AcceptCommit(only)
    BY <1>4, <1>6, <1>7, <1>8, <1>9, <1>10, <1>12, <1>16, <2>2 DEF Serve
  <2> QED BY <2>1, <2>2
<1> QED BY <1>11, <1>14, <1>15, <1>16 DEF Next

(* Served one after another, whatever dies half way, the handlers move an    *)
(* order along its life cycle, never reopen a closed one and charge exactly  *)
(* the completed ones, once: they implement OrderLifecycle.                  *)
THEOREM LifecycleRefined ==
  ASSUME NEW only, Slots = {only}
  PROVE  Spec => LifecycleImplemented
<1> DEFINE SInv == Fits /\ Holds(req[only])
<1>1. Init => Lifecycle!Init
  BY DEF Init, NoOrder, Lifecycle!Init
<1>2. IInv /\ SInv /\ [Next]_vars => [Lifecycle!Next]_Lifecycle!vars
  BY LifecycleStep
<1>3. Spec => []SInv
  BY Serial
<1> HIDE DEF SInv
<1> QED BY <1>1, <1>2, <1>3, Inductive, PTL DEF Spec, LifecycleImplemented, Lifecycle!Spec

-----------------------------------------------------------------------------
(* Drivers that wait for an answer.                                        *)

LEMMA OffersNext ==
  ASSUME NEW only, NEW r, req'[only] = r, OffersHold(r)'
  PROVE  OffersHold(req[only])'
BY DEF OffersHold, HasOffer, Releasing, IsPending

Releases == {"expireDriver", "supersedeDriver", "rejectDriver"}

(* No offer is closed, nobody is newly marked as waiting, and the request    *)
(* had nobody to release: waiting drivers keep an offer.                    *)
LEMMA OffersKept ==
  ASSUME NEW only, Slots = {only}, IInv, OffersHold(req[only]), req[only].pc \notin Releases,
         \A a \in Rows : IsPending(a) => IsPending(a)' /\ asg'[a].driver = asg[a].driver,
         \A d \in Drivers : op'[d] = "ORDER_OFFERED" => op[d] = "ORDER_OFFERED",
         NEW r, Goto(only, r),
         r.pc \notin {"markOffered", "rejectRow", "expireDriver", "supersedeDriver"}
  PROVE  OffersHold(req[only])'
<1>1. \A d \in Drivers : op[d] = "ORDER_OFFERED" => HasOffer(d)
  BY DEF OffersHold, Releasing, Releases
<1>2. \A d \in Drivers : HasOffer(d) => HasOffer(d)'
  BY DEF HasOffer
<1>3. OffersHold(r)'
  BY <1>1, <1>2 DEF OffersHold
<1> QED BY <1>3, OnlyOne, OffersNext

(* One offer is closed, and its driver is released next.                    *)
LEMMA OfferCloses ==
  ASSUME NEW only, Slots = {only}, IInv, OffersHold(req[only]), req[only].pc \notin Releases,
         op' = op, NEW a \in Rows, NEW v, asg' = [asg EXCEPT ![a].status = v],
         NEW r, Goto(only, r),
         \/ r.pc \in {"expireDriver", "supersedeDriver"} /\ r.row = a
         \/ r.pc = "rejectDriver" /\ r.driver = asg[a].driver
  PROVE  OffersHold(req[only])'
<1>1. \A b \in Rows : /\ asg'[b].driver = asg[b].driver
                      /\ b # a => asg'[b] = asg[b]
  BY DEF IInv, DataOK, TablesTyped
<1>2. \A d \in Drivers : op[d] = "ORDER_OFFERED" => HasOffer(d)
  BY DEF OffersHold, Releasing, Releases
<1>3. \A d \in Drivers : HasOffer(d) => HasOffer(d)' \/ asg[a].driver = d
  BY <1>1 DEF HasOffer, IsPending
<1>4. \A d \in Drivers : asg[a].driver = d => Releasing(r, d)'
  BY <1>1 DEF Releasing
<1>5. OffersHold(r)'
  BY <1>2, <1>3, <1>4 DEF OffersHold
<1> QED BY <1>5, OnlyOne, OffersNext

(* A driver who is left without the offer the request closed is released.   *)
LEMMA DriverReleased ==
  ASSUME NEW only, Slots = {only}, IInv, OffersHold(req[only]), UNCHANGED asg,
         \A d \in Drivers : op'[d] = "ORDER_OFFERED" =>
           op[d] = "ORDER_OFFERED" /\ ~Releasing(req[only], d),
         NEW r, Goto(only, r),
         r.pc \notin {"markOffered", "rejectRow", "expireDriver", "supersedeDriver"}
  PROVE  OffersHold(req[only])'
<1>1. \A d \in Drivers : op'[d] = "ORDER_OFFERED" => HasOffer(d)'
  BY DEF OffersHold, HasOffer, IsPending
<1>2. OffersHold(r)'
  BY <1>1 DEF OffersHold
<1> QED BY <1>2, OnlyOne, OffersNext

(* Writes of the tables: who is waiting then has an offer.                  *)
LEMMA OffersFinish ==
  ASSUME NEW only, Slots = {only}, IInv, Finish(only),
         \A d \in Drivers : op'[d] = "ORDER_OFFERED" => HasOffer(d)'
  PROVE  OffersHold(req[only])'
<1>1. PICK r : r = Idle
  OBVIOUS
<1>2. Goto(only, r) /\ r.pc = "idle"
  BY <1>1, IdlePlain DEF Finish
<1>3. OffersHold(r)'
  BY <1>2 DEF OffersHold
<1> QED BY <1>2, <1>3, OnlyOne, OffersNext

(* Outside the statements that release a driver, who waits has an offer.    *)
LEMMA WaitingHasOffer ==
  ASSUME NEW only, OffersHold(req[only]), req[only].pc \notin Releases
  PROVE  \A d \in Drivers : op[d] = "ORDER_OFFERED" => HasOffer(d)
BY DEF OffersHold, Releasing, Releases

(* A request arrives, or reads.                                            *)
LEMMA OffersRead ==
  ASSUME NEW only, Slots = {only}, IInv, OffersHold(req[only]), req[only].pc \notin Releases,
         UNCHANGED <<asg, op>>, NEW r, Goto(only, r),
         r.pc \notin {"markOffered", "rejectRow", "expireDriver", "supersedeDriver"}
  PROVE  OffersHold(req[only])'
BY OffersKept DEF IsPending

LEMMA ResumeRoutine ==
  ASSUME NEW r \in Requests, r.handler \in {"broadcast", "offer", "accept", "reject"}
  PROVE  Resume(r).pc \notin {"markOffered", "rejectRow", "expireDriver", "supersedeDriver"}
<1>1. CASE r.handler = "offer"
  BY <1>1, IdlePlain DEF Resume
<1>2. CASE r.handler # "offer"
  <2>1. [r EXCEPT !.pc = r.handler, !.row = None].pc = r.handler
    BY DEF Requests
  <2> QED BY <1>2, <2>1 DEF Resume
<1> QED BY <1>1, <1>2

LEMMA ArrivalOffers ==
  ASSUME NEW only, Slots = {only}, IInv, OffersHold(req[only]), Arrival(only)
  PROVE  OffersHold(req[only])'
<1>1. req[only].pc = "idle" /\ UNCHANGED <<asg, op>>
  BY DEF Arrival, BroadcastOrder, GetCurrentOffer, AcceptOrder, RejectOrder, ExpireStale,
         CancelByOperator, CancelByDriver, MarkPassengerNoShow, ResolveDisputeCancel,
         MarkPickupArrived, StartTrip, OpenDispute, CompleteTrip, ResolveDisputeComplete, Checked,
         GoOnline, GoOffline, At
<1>2. ASSUME NEW h \in {"broadcast", "offer", "accept", "reject"}, NEW o \in Orders \cup {None},
             NEW d \in Drivers \cup {None}, ExpireStale(only, h, o, d)
      PROVE  OffersHold(req[only])'
  <2> DEFINE r == [Idle EXCEPT !.handler = h, !.order = o, !.driver = d, !.rows = Stale]
             q == [r EXCEPT !.pc = "expire"]
  <2>1. r \in Requests /\ r.handler = h /\ q.pc = "expire"
    BY DEF Idle, Requests, Labels, Stale
  <2>2. Goto(only, IF Stale = {} THEN Resume(r) ELSE q)
    BY <1>2 DEF ExpireStale
  <2> HIDE DEF r, q
  <2>3. Resume(r).pc \notin {"markOffered", "rejectRow", "expireDriver", "supersedeDriver"}
    BY <2>1, ResumeRoutine
  <2> QED BY <1>1, <2>1, <2>2, <2>3, OffersRead DEF Releases
<1>3. ASSUME NEW h, NEW o, NEW target, Checked(only, h, o, "cancelRead", target)
             \/ Checked(only, h, o, "arriveCommit", target)
             \/ Checked(only, h, o, "startCommit", target)
             \/ Checked(only, h, o, "disputeCommit", target)
             \/ Checked(only, h, o, "completeCommit", target)
             \/ Checked(only, h, o, "completeRead", target)
      PROVE  OffersHold(req[only])'
  <2>1. PICK label \in CancelLabels \cup TripLabels : Checked(only, h, o, label, target)
    BY <1>3 DEF CancelLabels, TripLabels
  <2> DEFINE r == [Idle EXCEPT !.handler = target, !.pc = label, !.order = o]
  <2>2. Goto(only, r) /\ r.pc = label
    BY <2>1 DEF Checked, Idle
  <2> HIDE DEF r
  <2> QED BY <1>1, <2>2, OffersRead DEF CancelLabels, TripLabels, Releases
<1>4. ASSUME NEW o \in Orders, CancelByOperator(only, o)
      PROVE  OffersHold(req[only])'
  <2> DEFINE r == CancelOpened(o, "CANCELLED_BY_OPERATOR")
  <2>1. Goto(only, r) /\ r.pc = "cancelPending"
    BY <1>4 DEF CancelByOperator, CancelOpened, Idle
  <2> HIDE DEF r
  <2> QED BY <1>1, <2>1, OffersRead DEF Releases
<1>5. ASSUME NEW d \in Drivers, GoOnline(only, d) \/ GoOffline(only, d)
      PROVE  OffersHold(req[only])'
  <2>1. PICK label \in {"online", "offline"} :
          Goto(only, [Idle EXCEPT !.pc = label, !.driver = d])
    BY <1>5 DEF GoOnline, GoOffline
  <2> DEFINE r == [Idle EXCEPT !.pc = label, !.driver = d]
  <2>2. Goto(only, r) /\ r.pc = label
    BY <2>1 DEF Idle
  <2> HIDE DEF r
  <2> QED BY <1>1, <2>2, OffersRead DEF Releases
<1>6. ASSUME NEW o \in Orders,
             \/ BroadcastOrder(only, o)
             \/ \E d \in Drivers : AcceptOrder(only, o, d) \/ RejectOrder(only, o, d)
      PROVE  OffersHold(req[only])'
  BY <1>2, <1>6 DEF BroadcastOrder, AcceptOrder, RejectOrder
<1>7. ASSUME NEW d \in Drivers, GetCurrentOffer(only, d)
      PROVE  OffersHold(req[only])'
  BY <1>2, <1>7 DEF GetCurrentOffer
<1>8. ASSUME NEW o \in Orders,
             \/ CancelByDriver(only, o) \/ MarkPassengerNoShow(only, o)
             \/ ResolveDisputeCancel(only, o) \/ MarkPickupArrived(only, o)
             \/ StartTrip(only, o) \/ OpenDispute(only, o) \/ CompleteTrip(only, o)
             \/ ResolveDisputeComplete(only, o)
      PROVE  OffersHold(req[only])'
  BY <1>3, <1>8
  DEF CancelByDriver, MarkPassengerNoShow, ResolveDisputeCancel, MarkPickupArrived, StartTrip,
      OpenDispute, CompleteTrip, ResolveDisputeComplete
<1> QED BY <1>4, <1>5, <1>6, <1>7, <1>8 DEF Arrival

(* Statements that close an offer, and those that release its driver.       *)
LEMMA CloseOffers ==
  ASSUME NEW only, Slots = {only}, IInv, OffersHold(req[only]),
         \/ ExpireRow(only) \/ BroadcastSupersede(only) \/ RejectRow(only)
  PROVE  OffersHold(req[only])'
<1> DEFINE x == req[only]
<1>1. x \in Requests /\ RequestOK(x)
  BY AboutOrder
<1>2. x.pc \in {"expire", "supersede", "rejectRow"} /\ op' = op
  BY DEF ExpireRow, BroadcastSupersede, RejectRow, At
<1>3. CASE ExpireRow(only) \/ BroadcastSupersede(only)
  <2>1. PICK a \in x.rows, v \in {"EXPIRED", "SUPERSEDED"},
             p \in {"expireDriver", "supersedeDriver"} :
          /\ asg' = [asg EXCEPT ![a].status = v]
          /\ Goto(only, [x EXCEPT !.pc = p, !.row = a, !.rows = @ \ {a}])
    BY <1>3 DEF ExpireRow, BroadcastSupersede
  <2> DEFINE r == [x EXCEPT !.pc = p, !.row = a, !.rows = @ \ {a}]
  <2>2. Goto(only, r)
    BY <2>1
  <2>3. x.pc \notin Releases
    BY <1>2 DEF Releases
  <2>4. OffersHold(x)
    OBVIOUS
  <2>5. a \in Rows /\ r.pc = p /\ r.row = a
    <3> HIDE DEF x
    <3> QED BY <1>1, <2>1 DEF Requests
  <2> HIDE DEF r
  <2> QED BY <1>2, <2>1, <2>2, <2>3, <2>5, OfferCloses
<1>4. CASE RejectRow(only)
  <2> DEFINE r == [x EXCEPT !.pc = "rejectDriver", !.row = None]
  <2>1. /\ asg' = [asg EXCEPT ![x.row].status = "REJECTED"] /\ Goto(only, r)
        /\ x.pc = "rejectRow"
    BY <1>4 DEF RejectRow, At
  <2>2. x.row \in Rows
    BY <1>1, <2>1 DEF RequestOK, RowAtHand
  <2>3. asg[x.row].driver = x.driver
    BY <2>1 DEF OffersHold
  <2>4. r.pc = "rejectDriver" /\ r.driver = x.driver
    <3> HIDE DEF x
    <3> QED BY <1>1 DEF Requests
  <2>5. x.pc \notin Releases
    BY <2>1 DEF Releases
  <2> HIDE DEF r
  <2> QED BY <1>2, <2>1, <2>2, <2>3, <2>4, <2>5, OfferCloses
<1> QED BY <1>3, <1>4

LEMMA ReleaseOffers ==
  ASSUME NEW only, Slots = {only}, IInv, OffersHold(req[only]),
         \/ ExpireDriver(only) \/ BroadcastRelease(only) \/ RejectDriver(only)
  PROVE  OffersHold(req[only])'
<1> DEFINE x == req[only]
           routine(p) == p \notin {"markOffered", "rejectRow", "expireDriver", "supersedeDriver"}
<1>1. x \in Requests /\ RequestOK(x)
  BY AboutOrder
<1>2. x.pc \in {"expireDriver", "supersedeDriver", "rejectDriver"} /\ asg' = asg
  BY DEF ExpireDriver, BroadcastRelease, RejectDriver, At
<1>3. CASE ExpireDriver(only) \/ BroadcastRelease(only)
  <2>1. ReleaseIfOffered(asg[x.row].driver) /\ x.pc \in {"expireDriver", "supersedeDriver"}
    BY <1>3 DEF ExpireDriver, BroadcastRelease, At
  <2>2. \A d \in Drivers : op'[d] = "ORDER_OFFERED" =>
          op[d] = "ORDER_OFFERED" /\ d # asg[x.row].driver
    BY <2>1 DEF ReleaseIfOffered, IInv, DriversTyped
  <2>3. \A d \in Drivers : op'[d] = "ORDER_OFFERED" =>
          op[d] = "ORDER_OFFERED" /\ ~Releasing(x, d)
    BY <2>1, <2>2 DEF Releasing
  <2>4. CASE ExpireDriver(only)
    <3> DEFINE r == [x EXCEPT !.pc = "expire"]
    <3>1. x.pc = "expireDriver" /\ Goto(only, IF x.rows = {} THEN Resume(x) ELSE r)
      BY <2>4 DEF ExpireDriver, At
    <3>2. x.handler \in {"broadcast", "offer", "accept", "reject"}
      BY <1>1, <3>1 DEF RequestOK, Routed
    <3>3. routine(Resume(x).pc) /\ routine(r.pc)
      <4> HIDE DEF x
      <4> QED BY <1>1, <3>2, ResumeRoutine DEF Requests
    <3> HIDE DEF r
    <3> QED BY <1>2, <2>3, <3>1, <3>3, DriverReleased
  <2>5. CASE BroadcastRelease(only)
    <3> DEFINE r == [x EXCEPT !.pc = IF x.rows = {} THEN "select" ELSE "supersede", !.row = None]
    <3>1. Goto(only, r)
      BY <2>5 DEF BroadcastRelease
    <3>2. routine(r.pc)
      <4> HIDE DEF x
      <4> QED BY <1>1 DEF Requests
    <3> HIDE DEF r
    <3> QED BY <1>2, <2>3, <3>1, <3>2, DriverReleased
  <2> QED BY <1>3, <2>4, <2>5
<1>4. CASE RejectDriver(only)
  <2>1. op' = [op EXCEPT ![x.driver] = "ONLINE_IDLE"] /\ x.pc = "rejectDriver"
    BY <1>4 DEF RejectDriver, At
  <2>2. \A d \in Drivers : op'[d] = "ORDER_OFFERED" => op[d] = "ORDER_OFFERED" /\ d # x.driver
    BY <2>1 DEF IInv, DriversTyped
  <2>3. \A d \in Drivers : op'[d] = "ORDER_OFFERED" =>
          op[d] = "ORDER_OFFERED" /\ ~Releasing(x, d)
    BY <2>1, <2>2 DEF Releasing
  <2>4. Goto(only, Idle)
    BY <1>4 DEF RejectDriver, Finish
  <2> QED BY <1>2, <2>3, <2>4, IdlePlain, DriverReleased
<1> QED BY <1>3, <1>4

(* Reads go on to statements that ask nothing of the offers.                *)
LEMMA ReadOffers ==
  ASSUME NEW only, Slots = {only}, IInv, OffersHold(req[only]),
         \/ BroadcastReadOrder(only) \/ BroadcastFindPending(only) \/ BroadcastSelect(only)
         \/ AcceptReadOrder(only) \/ AcceptReadOffer(only) \/ AcceptReadRivals(only)
         \/ CancelRead(only) \/ CancelReadPending(only) \/ CompleteRead(only)
  PROVE  OffersHold(req[only])'
<1> DEFINE x == req[only]
           labels == {"findPending", "select", "supersede", "insert", "acceptOffer",
                      "acceptRivals", "acceptCommit", "cancelPending", "cancelCommit",
                      "completeCommit"}
<1>1. x \in Requests /\ RequestOK(x)
  BY AboutOrder
<1>2. x.pc \notin Releases /\ UNCHANGED <<asg, op>>
  BY DEF BroadcastReadOrder, BroadcastFindPending, BroadcastSelect, AcceptReadOrder,
         AcceptReadOffer, AcceptReadRivals, CancelRead, CancelReadPending, CompleteRead, At,
         Releases
<1>3. ASSUME NEW r, r.pc \in labels \cup {"idle"}, Goto(only, r)
      PROVE  OffersHold(req[only])'
  BY <1>2, <1>3, OffersRead
<1>4. CASE Finish(only)
  BY <1>3, <1>4, IdlePlain DEF Finish
<1>5. ASSUME NEW p \in labels, NEW v,
             \/ Goto(only, [x EXCEPT !.pc = p])
             \/ Goto(only, [x EXCEPT !.pc = p, !.flag = v])
             \/ Goto(only, [x EXCEPT !.rows = v, !.pc = p])
             \/ Goto(only, [x EXCEPT !.pc = p, !.rows = v])
             \/ Goto(only, [x EXCEPT !.pc = p, !.row = v])
             \/ Goto(only, [x EXCEPT !.pc = p, !.cands = v])
      PROVE  OffersHold(req[only])'
  <2> DEFINE q1 == [x EXCEPT !.pc = p]
             q2 == [x EXCEPT !.pc = p, !.flag = v]
             q3 == [x EXCEPT !.rows = v, !.pc = p]
             q4 == [x EXCEPT !.pc = p, !.rows = v]
             q5 == [x EXCEPT !.pc = p, !.row = v]
             q6 == [x EXCEPT !.pc = p, !.cands = v]
  <2>1. Goto(only, q1) \/ Goto(only, q2) \/ Goto(only, q3) \/ Goto(only, q4) \/ Goto(only, q5)
        \/ Goto(only, q6)
    BY <1>5
  <2> HIDE DEF x
  <2>2. q1.pc = p /\ q2.pc = p /\ q3.pc = p /\ q4.pc = p /\ q5.pc = p /\ q6.pc = p
    BY <1>1 DEF Requests
  <2> HIDE DEF q1, q2, q3, q4, q5, q6
  <2> QED BY <1>3, <2>1, <2>2
<1>6. CASE BroadcastReadOrder(only)
  BY <1>4, <1>5, <1>6 DEF BroadcastReadOrder
<1>7. CASE BroadcastFindPending(only)
  BY <1>5, <1>7 DEF BroadcastFindPending
<1>8. CASE BroadcastSelect(only)
  BY <1>4, <1>5, <1>8 DEF BroadcastSelect
<1>9. CASE AcceptReadOrder(only)
  BY <1>4, <1>5, <1>9 DEF AcceptReadOrder
<1>10. CASE AcceptReadOffer(only)
  BY <1>4, <1>5, <1>10 DEF AcceptReadOffer
<1>11. CASE AcceptReadRivals(only)
  BY <1>5, <1>11 DEF AcceptReadRivals
<1>12. CASE CancelRead(only)
  <2> DEFINE r == CancelOpened(x.order, x.handler)
  <2>1. Goto(only, r) \/ Finish(only)
    BY <1>12 DEF CancelRead
  <2>2. r.pc = "cancelPending"
    BY DEF CancelOpened, Idle
  <2> HIDE DEF r
  <2> QED BY <1>3, <1>4, <2>1, <2>2
<1>13. CASE CancelReadPending(only)
  BY <1>5, <1>13 DEF CancelReadPending
<1>14. CASE CompleteRead(only)
  BY <1>4, <1>5, <1>14 DEF CompleteRead
<1> QED BY <1>6, <1>7, <1>8, <1>9, <1>10, <1>11, <1>12, <1>13, <1>14

(* rejectOrder finds its driver's offer.                                   *)
LEMMA RejectFindOffers ==
  ASSUME NEW only, Slots = {only}, IInv, OffersHold(req[only]), RejectFind(only)
  PROVE  OffersHold(req[only])'
<1> DEFINE x == req[only]
<1>1. x \in Requests /\ x.pc = "reject" /\ UNCHANGED <<asg, op>>
  BY AboutOrder DEF RejectFind, At
<1>2. x.pc \notin Releases
  BY <1>1 DEF Releases
<1>3. CASE Finish(only)
  BY <1>1, <1>2, <1>3, IdlePlain, OffersRead DEF Finish
<1>4. CASE ~Finish(only)
  <2>1. PICK a \in Rows : /\ asg[a].driver = x.driver
                          /\ Goto(only, [x EXCEPT !.pc = "rejectRow", !.row = a])
    BY <1>4 DEF RejectFind, Pending
  <2>2. PICK r : r = [x EXCEPT !.pc = "rejectRow", !.row = a]
    OBVIOUS
  <2>3. Goto(only, r)
    BY <2>1, <2>2
  <2>4. \A d \in Drivers : op[d] = "ORDER_OFFERED" => HasOffer(d)
    BY <1>2, WaitingHasOffer
  <2>5. r.pc = "rejectRow" /\ r.row = a /\ r.driver = x.driver
    <3> HIDE DEF x
    <3> QED BY <1>1, <2>2 DEF Requests
  <2>6. asg'[r.row].driver = r.driver
    BY <1>1, <2>1, <2>5
  <2>7. OffersHold(r)'
    BY <1>1, <2>4, <2>5, <2>6 DEF OffersHold, HasOffer, IsPending
  <2> QED BY <2>3, <2>7, OnlyOne, OffersNext
<1> QED BY <1>3, <1>4

(* An offer is made, then its driver is marked as waiting for it.           *)
LEMMA InsertOffersOne ==
  ASSUME NEW only, Slots = {only}, IInv, OffersHold(req[only]), BroadcastInsert(only)
  PROVE  OffersHold(req[only])'
<1> DEFINE x == req[only]
<1>1. x \in Requests /\ x.pc = "insert" /\ op' = op
  BY AboutOrder DEF BroadcastInsert, At
<1>2. \A d \in Drivers : op[d] = "ORDER_OFFERED" => HasOffer(d)
  BY <1>1, WaitingHasOffer DEF Releases
<1>3. CASE Finish(only) /\ UNCHANGED asg
  BY <1>1, <1>2, <1>3, OffersFinish DEF HasOffer, IsPending
<1>4. CASE ~(Finish(only) /\ UNCHANGED asg)
  <2>1. PICK d \in x.cands, a \in Free :
          /\ asg' = [asg EXCEPT ![a] = [status |-> "PENDING", order |-> x.order, driver |-> d]]
          /\ Goto(only, [x EXCEPT !.pc = "markOffered", !.driver = d, !.cands = @ \ {d}])
    BY <1>4 DEF BroadcastInsert
  <2>2. PICK r : r = [x EXCEPT !.pc = "markOffered", !.driver = d, !.cands = @ \ {d}]
    OBVIOUS
  <2>3. Goto(only, r)
    BY <2>1, <2>2
  <2>4. r.pc = "markOffered" /\ r.driver = d
    <3> HIDE DEF x
    <3> QED BY <1>1, <2>2 DEF Requests
  <2>5. /\ a \in Rows /\ ~IsPending(a) /\ asg'[a].status = "PENDING" /\ asg'[a].driver = d
        /\ \A b \in Rows : b # a => asg'[b] = asg[b]
    BY <2>1 DEF Free, IsPending, IInv, DataOK, TablesTyped
  <2>6. HasOffer(d)' /\ \A e \in Drivers : HasOffer(e) => HasOffer(e)'
    BY <2>5 DEF HasOffer, IsPending
  <2>7. OffersHold(r)'
    BY <1>1, <1>2, <2>4, <2>6 DEF OffersHold
  <2> QED BY <2>3, <2>7, OnlyOne, OffersNext
<1> QED BY <1>3, <1>4

LEMMA MarkOfferedOffers ==
  ASSUME NEW only, Slots = {only}, IInv, OffersHold(req[only]), BroadcastMarkOffered(only)
  PROVE  OffersHold(req[only])'
<1> DEFINE x == req[only]
<1>1. /\ x \in Requests /\ x.pc = "markOffered" /\ asg' = asg
      /\ op' = [op EXCEPT ![x.driver] = "ORDER_OFFERED"]
  BY AboutOrder DEF BroadcastMarkOffered, At
<1>2. HasOffer(x.driver) /\ \A d \in Drivers : op[d] = "ORDER_OFFERED" => HasOffer(d)
  BY <1>1, WaitingHasOffer DEF OffersHold, Releases
<1>3. \A d \in Drivers : op'[d] = "ORDER_OFFERED" => HasOffer(d)
  BY <1>1, <1>2 DEF IInv, DriversTyped
<1>4. \A d \in Drivers : op'[d] = "ORDER_OFFERED" => HasOffer(d)'
  BY <1>1, <1>3 DEF HasOffer, IsPending
<1>5. CASE Finish(only)
  BY <1>4, <1>5, OffersFinish
<1>6. CASE ~Finish(only)
  <2>1. PICK p \in {"insert", "markBroadcasted"} :
          Goto(only, [x EXCEPT !.pc = p, !.driver = None])
    BY <1>6 DEF BroadcastMarkOffered
  <2>2. PICK r : r = [x EXCEPT !.pc = p, !.driver = None]
    OBVIOUS
  <2>3. Goto(only, r)
    BY <2>1, <2>2
  <2>4. r.pc \in {"insert", "markBroadcasted"}
    <3> HIDE DEF x
    <3> QED BY <1>1, <2>2 DEF Requests
  <2>5. OffersHold(r)'
    BY <1>4, <2>4 DEF OffersHold
  <2> QED BY <2>3, <2>5, OnlyOne, OffersNext
<1> QED BY <1>5, <1>6

(* The writes that end a request.                                          *)
LEMMA CommitOffers ==
  ASSUME NEW only, Slots = {only}, IInv, OffersHold(req[only]),
         \/ BroadcastMark(only) \/ AcceptCommit(only) \/ CancelCommit(only)
         \/ ArriveCommit(only) \/ StartCommit(only) \/ DisputeCommit(only)
         \/ CompleteCommit(only) \/ PresenceWrite(only)
  PROVE  OffersHold(req[only])'
<1> DEFINE x == req[only]
<1>1. x \in Requests /\ RequestOK(x)
  BY AboutOrder
<1>2. Finish(only) /\ x.pc \notin Releases
  BY DEF BroadcastMark, AcceptCommit, CancelCommit, ArriveCommit, StartCommit, DisputeCommit,
         CompleteCommit, PresenceWrite, At, Releases
<1>3. \A d \in Drivers : op[d] = "ORDER_OFFERED" => HasOffer(d)
  BY <1>2, WaitingHasOffer
<1>4. ASSUME asg' = asg, NEW d, NEW v, v # "ORDER_OFFERED", op' = [op EXCEPT ![d] = v]
      PROVE  OffersHold(req[only])'
  <2>1. \A e \in Drivers : op'[e] = "ORDER_OFFERED" => op[e] = "ORDER_OFFERED"
    BY <1>4 DEF IInv, DriversTyped
  <2>2. \A e \in Drivers : op'[e] = "ORDER_OFFERED" => HasOffer(e)'
    BY <1>3, <1>4, <2>1 DEF HasOffer, IsPending
  <2> QED BY <1>2, <2>2, OffersFinish
<1>5. ASSUME asg' = asg, op' = op
      PROVE  OffersHold(req[only])'
  BY <1>2, <1>3, <1>5, OffersFinish DEF HasOffer, IsPending
<1>6. CASE BroadcastMark(only) \/ DisputeCommit(only)
  BY <1>5, <1>6 DEF BroadcastMark, DisputeCommit
<1>7. CASE ArriveCommit(only)
  <2>1. PICK d : d = trip[x.order].driver
    OBVIOUS
  <2>2. asg' = asg /\ op' = [op EXCEPT ![d] = "ARRIVED_PICKUP"]
    BY <1>7, <2>1 DEF ArriveCommit
  <2> QED BY <1>4, <2>2
<1>8. CASE StartCommit(only)
  <2>1. PICK d : d = trip[x.order].driver
    OBVIOUS
  <2>2. asg' = asg /\ op' = [op EXCEPT ![d] = "IN_TRIP"]
    BY <1>8, <2>1 DEF StartCommit
  <2> QED BY <1>4, <2>2
<1>9. CASE CompleteCommit(only)
  <2>1. PICK d : d = trip[x.order].driver
    OBVIOUS
  <2>2. asg' = asg /\ op' = [op EXCEPT ![d] = "ONLINE_IDLE"]
    BY <1>9, <2>1 DEF CompleteCommit
  <2> QED BY <1>4, <2>2
<1>10. CASE AcceptCommit(only)
  <2>1. CASE asg' = asg /\ op' = op
    BY <1>5, <2>1
  <2>2. CASE ~(asg' = asg /\ op' = op)
    <3>1. /\ asg' = [a \in Rows |->
                       IF a = x.row THEN [asg[a] EXCEPT !.status = "ACCEPTED"]
                       ELSE IF a \in x.rows THEN [asg[a] EXCEPT !.status = "SUPERSEDED"]
                       ELSE asg[a]]
          /\ op' = [e \in Drivers |->
                      IF e = x.driver THEN "EN_ROUTE_PICKUP"
                      ELSE IF e \in DriversOf(x.rows) THEN "ONLINE_IDLE" ELSE op[e]]
          /\ x.pc = "acceptCommit"
      BY <1>10, <2>2 DEF AcceptCommit, At
    <3>2. asg[x.row].driver = x.driver
      BY <1>1, <3>1 DEF RequestOK, RowAtHand
    <3> HIDE DEF x
    <3>3. \A d \in Drivers : op'[d] = "ORDER_OFFERED" =>
            /\ op[d] = "ORDER_OFFERED" /\ d # x.driver
            /\ \A a \in x.rows : asg[a].driver # d
      BY <3>1 DEF DriversOf
    <3>4. \A a \in Rows : a \notin x.rows /\ a # x.row => asg'[a] = asg[a]
      BY <3>1
    <3>5. \A d \in Drivers : op'[d] = "ORDER_OFFERED" => HasOffer(d)'
      BY <1>3, <3>2, <3>3, <3>4 DEF HasOffer, IsPending
    <3> QED BY <1>2, <3>5, OffersFinish
  <2> QED BY <2>1, <2>2
<1>11. CASE CancelCommit(only)
  <2>1. /\ asg' = [a \in Rows |-> IF a \in x.rows
                                  THEN [asg[a] EXCEPT !.status = "SUPERSEDED"] ELSE asg[a]]
        /\ op' = [d \in Drivers |->
                    IF \/ d = x.driver
                       \/ d \in DriversOf(x.rows) /\ op[d] = "ORDER_OFFERED"
                    THEN "ONLINE_IDLE" ELSE op[d]]
    BY <1>11 DEF CancelCommit
  <2> HIDE DEF x
  <2>2. \A d \in Drivers : op'[d] = "ORDER_OFFERED" =>
          op[d] = "ORDER_OFFERED" /\ \A a \in x.rows : asg[a].driver # d
    BY <2>1 DEF DriversOf
  <2>3. \A a \in Rows : a \notin x.rows => asg'[a] = asg[a]
    BY <2>1
  <2>4. \A d \in Drivers : op'[d] = "ORDER_OFFERED" => HasOffer(d)'
    BY <1>3, <2>2, <2>3 DEF HasOffer, IsPending
  <2> QED BY <1>2, <2>4, OffersFinish
<1>12. CASE PresenceWrite(only)
  <2>1. PICK d : d = x.driver
    OBVIOUS
  <2>2. asg' = asg /\ (op' = [op EXCEPT ![d] = "ONLINE_IDLE"] \/ op' = [op EXCEPT ![d] = "OFFLINE"])
    BY <1>12, <2>1 DEF PresenceWrite
  <2> QED BY <1>4, <2>2
<1> QED BY <1>6, <1>7, <1>8, <1>9, <1>10, <1>11, <1>12

LEMMA ServeOffers ==
  ASSUME NEW only, Slots = {only}, IInv, OffersHold(req[only]), Serve(only)
  PROVE  OffersHold(req[only])'
BY CloseOffers, ReleaseOffers, ReadOffers, RejectFindOffers, InsertOffersOne, MarkOfferedOffers,
   CommitOffers
DEF Serve

(* The world, with no request dying half way.                              *)
LEMMA EnvironmentOffers ==
  ASSUME NEW only, Slots = {only}, "abort" \notin Handlers, IInv, OffersHold(req[only]),
         Environment \/ UNCHANGED vars
  PROVE  OffersHold(req[only])'
<1>1. PICK x : x = req[only]
  OBVIOUS
<1>2. req' = req
  BY DEF Environment, CreateOrder, SuspendDriver, ReactivateDriver, Lapse, Abort, vars
<1>3. \A a \in Rows : asg'[a].driver = asg[a].driver /\ (IsPending(a) => IsPending(a)')
  <2>1. CASE \E a \in Rows : Lapse(a)
    BY <2>1 DEF Lapse, IsPending, IInv, DataOK, TablesTyped
  <2>2. CASE asg' = asg
    BY <2>2 DEF IsPending
  <2> QED BY <2>1, <2>2 DEF Environment, CreateOrder, SuspendDriver, ReactivateDriver, Abort, vars
<1>4. \A d \in Drivers : op'[d] = "ORDER_OFFERED" => op[d] = "ORDER_OFFERED"
  <2>1. ASSUME NEW e \in Drivers, SuspendDriver(e)
        PROVE  \A d \in Drivers : op'[d] = "ORDER_OFFERED" => op[d] = "ORDER_OFFERED"
    BY <2>1 DEF SuspendDriver, IInv, DriversTyped
  <2>2. CASE op' = op
    BY <2>2
  <2> QED BY <2>1, <2>2 DEF Environment, CreateOrder, ReactivateDriver, Lapse, Abort, vars
<1>5. OffersHold(x)
  BY <1>1
<1>6. x.pc = "rejectRow" => x.row \in Rows
  BY <1>1, AboutOrder DEF RequestOK, RowAtHand
<1>7. \A d : HasOffer(d) => HasOffer(d)'
  BY <1>3 DEF HasOffer
<1>8. \A d \in Drivers : Releasing(x, d) => Releasing(x, d)'
  BY <1>3, <1>5 DEF Releasing, OffersHold
<1>9. OffersHold(x)'
  BY <1>3, <1>4, <1>5, <1>6, <1>7, <1>8 DEF OffersHold
<1> QED BY <1>1, <1>2, <1>9, OffersNext

(* Served one after another with none dying half way, a driver marked        *)
(* ORDER_OFFERED between requests has an offer to answer.                   *)
THEOREM WaitingForAnOffer ==
  ASSUME NEW only, Slots = {only}, "abort" \notin Handlers
  PROVE  Spec => []OfferedMeansPending
<1> DEFINE Offers == OffersHold(req[only])
<1>1. Init => Offers
  BY DEF Init, Idle, OffersHold
<1>2. IInv /\ Offers /\ [Next]_vars => Offers'
  BY ArrivalOffers, ServeOffers, EnvironmentOffers DEF Next
<1>3. Offers => OfferedMeansPending
  BY DEF OffersHold, OfferedMeansPending, HasOffer, Releasing, At
<1> HIDE DEF Offers
<1> QED BY <1>1, <1>2, <1>3, Inductive, PTL DEF Spec

=============================================================================
