--------------------------- MODULE DispatchProofs ---------------------------
(***************************************************************************)
(* Proofs about Dispatch, for any orders, drivers, rows and number of      *)
(* requests in flight: type correctness, the agreement of offer, order and *)
(* trip about who won, that the handlers implement OrderClaim, and that   *)
(* commission is charged after a pickup.                                   *)
(*                                                                         *)
(* The inductive invariant IInv has a part about the tables, DataOK, and a *)
(* part about each request in flight, RequestOK.  What a request has read  *)
(* is never protected, so RequestOK says only what no other request can    *)
(* undo: a row in use keeps its order and driver, a won order stays won.   *)
(* The lemmas first show that this is kept (Keeps), so that each action    *)
(* has to be looked at only for the row it writes and for its own request. *)
(***************************************************************************)
EXTENDS Dispatch, TLAPS

-----------------------------------------------------------------------------
(* The invariant.                                                          *)

BroadcastLabels ==
  {"broadcast", "findPending", "supersede", "supersedeDriver", "select", "insert",
   "markOffered", "markBroadcasted"}
CancelLabels == {"cancelRead", "cancelPending", "cancelCommit"}
TripLabels   == {"arriveCommit", "startCommit", "disputeCommit", "completeRead", "completeCommit"}

(* What a request carries: where expireStaleAssignments returns to, the     *)
(* status a cancellation writes, and the order and driver it is about.      *)
Routed(r) ==
  /\ r.pc \in {"expire", "expireDriver"} =>
       r.handler \in {"broadcast", "offer", "accept", "reject"}
  /\ r.pc \in BroadcastLabels => r.handler = "broadcast"
  /\ r.pc \in CancelLabels => r.handler \in Terminal
  /\ r.pc \in {"accept", "acceptOffer", "acceptRivals", "acceptCommit"} => r.handler = "accept"
  /\ r.handler = "accept" => r.driver \in Drivers
  /\ r.handler = "offer" => r.pc \in {"expire", "expireDriver"}
  /\ r.pc \notin {"idle", "online", "offline"} /\ r.handler # "offer" => r.order \in Orders

(* The rows a request has read are in use.                                 *)
RowsRead(r) == \A a \in Rows : a \in r.rows \/ a = r.row => asg[a].status # "NONE"

(* A statement about a row follows one that read it; acceptOrder's is the   *)
(* offer its own driver got for the order.                                 *)
RowAtHand(r) ==
  /\ r.pc \in {"acceptRivals", "acceptCommit", "rejectRow"} => r.row \in Rows
  /\ r.pc \in {"acceptRivals", "acceptCommit"} =>
       asg[r.row].order = r.order /\ asg[r.row].driver = r.driver

(* A request about to write a trip is about an order that has been won.     *)
WritesTrip(r) == r.pc \in TripLabels \/ (r.pc \in {"cancelPending", "cancelCommit"} /\ r.flag)

TripOfWonOrder(r) == WritesTrip(r) => order[r.order].driver # None

RequestOK(r) == Routed(r) /\ RowsRead(r) /\ RowAtHand(r) /\ TripOfWonOrder(r)

RequestsOK == req \in [Slots -> Requests] /\ \A s \in Slots : RequestOK(req[s])

(* A row in use names its order and driver.                                *)
RowsNamed ==
  \A a \in Rows :
    IF asg[a].status = "NONE" THEN asg[a] = NoRow
    ELSE asg[a].order \in Orders /\ asg[a].driver \in Drivers

TablesTyped ==
  /\ order \in [Orders -> [status : OrderStatus, driver : Drivers \cup {None}]]
  /\ asg \in [Rows -> [status : AssignmentStatus, order : Orders \cup {None},
                       driver : Drivers \cup {None}]]
  /\ trip \in [Orders -> [status : TripStatus, driver : Drivers \cup {None},
                          arrived : BOOLEAN]]

DriversTyped ==
  /\ op \in [Drivers -> OperationalStatus]
  /\ acct \in [Drivers -> {"ACTIVE", "SUSPENDED"}]

DataOK == TablesTyped /\ RowsNamed /\ ClaimAgrees

IInv == DataOK /\ DriversTyped /\ charges \in [Orders -> Nat] /\ RequestsOK

-----------------------------------------------------------------------------
(* What no step undoes.                                                    *)

Keeps ==
  /\ \A a \in Rows : asg[a].status # "NONE" =>
       /\ asg'[a].status # "NONE"
       /\ asg'[a].order = asg[a].order /\ asg'[a].driver = asg[a].driver
  /\ \A o \in Orders : order[o].driver # None => order'[o].driver # None

(* A request at rest is in order.                                          *)
LEMMA IdleOK == Idle \in Requests /\ RequestOK(Idle)
BY NoneAssumption
DEF Idle, Requests, Labels, Terminal, RequestOK, Routed, RowsRead, RowAtHand,
    TripOfWonOrder, WritesTrip, CancelLabels, TripLabels,
      BroadcastLabels

(* What Keeps keeps is all RequestOK asks of the tables.                    *)
LEMMA RequestKept ==
  ASSUME Keeps, NEW r \in Requests, RequestOK(r)
  PROVE  RequestOK(r)'
<1>1. Routed(r)' /\ RowsRead(r)'
  BY DEF Keeps, RequestOK, Routed, RowsRead
<1>2. RowAtHand(r)'
  BY DEF Keeps, RequestOK, RowsRead, RowAtHand
<1>3. TripOfWonOrder(r)'
  <2>1. WritesTrip(r) => r.order \in Orders
    BY DEF RequestOK, Routed, WritesTrip, TripLabels, CancelLabels, Requests, Terminal
  <2> QED BY <2>1 DEF Keeps, RequestOK, TripOfWonOrder, WritesTrip
<1> QED BY <1>1, <1>2, <1>3 DEF RequestOK

(* A step of slot s leaves every request in order if its own is.            *)
LEMMA SlotStep ==
  ASSUME RequestsOK, Keeps, NEW s \in Slots, NEW r \in Requests, RequestOK(r), Goto(s, r)
  PROVE  RequestsOK'
<1>1. req' \in [Slots -> Requests] /\ req' = [req EXCEPT ![s] = r]
  BY DEF Goto, RequestsOK
<1>2. ASSUME NEW t \in Slots
      PROVE  RequestOK(req[t])'
  <2> DEFINE q == req'[t]
  <2>1. \E x \in Requests : x = req'[t] /\ RequestOK(x)
    BY <1>1, <1>2 DEF RequestsOK
  <2>2. PICK x \in Requests : x = req'[t] /\ RequestOK(x)
    BY <2>1
  <2>3. RequestOK(x)'
    BY <2>2, RequestKept
  <2> QED BY <2>2, <2>3 DEF RequestOK, Routed, RowsRead, RowAtHand, TripOfWonOrder, WritesTrip
<1> QED BY <1>1, <1>2 DEF RequestsOK

(* A statement that leaves orders, rows, trips and charges alone.           *)
LEMMA ReadStep ==
  ASSUME IInv, UNCHANGED <<order, asg, trip, charges>>, DriversTyped',
         NEW s \in Slots, NEW r \in Requests, RequestOK(r), Goto(s, r)
  PROVE  IInv'
<1>1. Keeps
  BY DEF Keeps
<1>2. RequestsOK'
  BY <1>1, SlotStep DEF IInv
<1> QED
  BY <1>2 DEF IInv, DataOK, TablesTyped, RowsNamed, ClaimAgrees

(* A statement that closes an offer in use.                                *)
LEMMA CloseStep ==
  ASSUME IInv, UNCHANGED <<order, trip, charges, op, acct>>,
         NEW a \in Rows, asg[a].status # "NONE",
         NEW status \in AssignmentStatus \ {"NONE", "ACCEPTED"},
         asg' = [asg EXCEPT ![a].status = status],
         NEW s \in Slots, NEW r \in Requests, RequestOK(r), Goto(s, r)
  PROVE  IInv'
<1>1. TablesTyped' /\ RowsNamed' /\ Keeps
  BY DEF IInv, DataOK, TablesTyped, RowsNamed, NoRow, Keeps
<1>2. ClaimAgrees'
  BY DEF IInv, DataOK, TablesTyped, ClaimAgrees
<1>3. RequestsOK'
  BY <1>1, SlotStep DEF IInv
<1> QED
  BY <1>1, <1>2, <1>3 DEF IInv, DataOK, DriversTyped

-----------------------------------------------------------------------------
(* Requests that arrive.                                                   *)

(* The request as its first statement leaves it.                           *)
LEMMA ResumeOK ==
  ASSUME NEW r \in Requests, RequestOK(r), r.pc = "expire" \/ r.pc = "expireDriver",
         r.rows = {}
  PROVE  Resume(r) \in Requests /\ RequestOK(Resume(r))
<1>1. CASE r.handler = "offer"
  BY <1>1, IdleOK DEF Resume
<1>2. CASE r.handler # "offer"
  <2> DEFINE q == [r EXCEPT !.pc = r.handler, !.row = None]
  <2>1. r.handler \in {"broadcast", "accept", "reject"}
    BY <1>2 DEF RequestOK, Routed
  <2>2. q \in Requests
    BY <2>1 DEF Requests, Labels
  <2>3. /\ q.pc = r.handler /\ q.handler = r.handler /\ q.rows = {} /\ q.row = None
        /\ q.order = r.order /\ q.driver = r.driver
    BY DEF Requests
  <2> HIDE DEF q
  <2>4. RequestOK(q)
    BY <2>1, <2>3, NoneAssumption
    DEF RequestOK, Routed, RowsRead, RowAtHand, TripOfWonOrder, WritesTrip, CancelLabels,
        TripLabels, BroadcastLabels
  <2> QED BY <1>2, <2>2, <2>4 DEF Resume, q
<1> QED BY <1>1, <1>2

LEMMA ExpireStaleStep ==
  ASSUME IInv, NEW s \in Slots,
         NEW h \in {"broadcast", "offer", "accept", "reject"}, NEW o \in Orders \cup {None},
         NEW d \in Drivers \cup {None}, h # "offer" => o \in Orders,
         h = "accept" => d \in Drivers, ExpireStale(s, h, o, d)
  PROVE  IInv'
<1> DEFINE r == [Idle EXCEPT !.handler = h, !.order = o, !.driver = d, !.rows = Stale]
           q == [r EXCEPT !.pc = "expire"]
<1>1. /\ q \in Requests /\ q.pc = "expire" /\ q.handler = h /\ q.order = o /\ q.driver = d
      /\ q.rows = Stale /\ q.row = None
  BY DEF Idle, Requests, Labels, Stale
<1>2. /\ Goto(s, IF Stale = {} THEN Resume(r) ELSE q)
      /\ UNCHANGED <<order, asg, trip, op, acct, charges>>
  BY DEF ExpireStale
<1>3. Resume(r) = Resume(q)
  BY DEF Resume, Idle
<1> HIDE DEF r, q
<1>4. RequestOK(q)
  BY <1>1, NoneAssumption
  DEF Stale, RequestOK, Routed, RowsRead, RowAtHand, TripOfWonOrder, WritesTrip, CancelLabels,
      TripLabels, BroadcastLabels
<1>5. CASE Stale = {}
  BY <1>1, <1>2, <1>3, <1>4, <1>5, ResumeOK, ReadStep DEF IInv, DriversTyped
<1>6. CASE Stale # {}
  BY <1>1, <1>2, <1>4, <1>6, ReadStep DEF IInv, DriversTyped
<1> QED BY <1>5, <1>6

(* The handlers that check an order, and the trip they will write, first.   *)
LEMMA CheckedStep ==
  ASSUME IInv, NEW s \in Slots, NEW h, NEW o \in Orders, NEW label \in CancelLabels \cup TripLabels,
         NEW target \in Terminal \cup {"none"}, Checked(s, h, o, label, target),
         label \in CancelLabels => label = "cancelRead" /\ target \in Terminal,
         label \in TripLabels => trip[o].status # "NONE" \/ trip[o].driver \in Drivers
  PROVE  IInv'
<1> DEFINE r == [Idle EXCEPT !.handler = target, !.pc = label, !.order = o]
<1>1. /\ r \in Requests /\ r.pc = label /\ r.handler = target /\ r.order = o
      /\ r.rows = {} /\ r.row = None /\ r.flag = FALSE
  BY DEF Idle, Requests, Labels, CancelLabels, TripLabels, Terminal
<1>2. Goto(s, r) /\ UNCHANGED <<order, asg, trip, op, acct, charges>>
  BY DEF Checked
<1>3. label \in TripLabels => order[o].driver # None
  BY NoneAssumption DEF IInv, DataOK, ClaimAgrees, NoTrip
<1> HIDE DEF r
<1>4. RequestOK(r)
  BY <1>1, <1>3, NoneAssumption
  DEF RequestOK, Routed, RowsRead, RowAtHand, TripOfWonOrder, WritesTrip, CancelLabels,
      TripLabels, BroadcastLabels, Terminal
<1> QED BY <1>1, <1>2, <1>4, ReadStep DEF IInv, DriversTyped

(* A cancellation's transaction as it opens: it writes the trip if there is *)
(* one to write.                                                           *)
LEMMA CancelOpenedOK ==
  ASSUME IInv, NEW o \in Orders, NEW target \in Terminal
  PROVE  CancelOpened(o, target) \in Requests /\ RequestOK(CancelOpened(o, target))
<1> DEFINE r == CancelOpened(o, target)
<1>1. /\ r.pc = "cancelPending" /\ r.handler = target /\ r.order = o
      /\ r.rows = {} /\ r.row = None
  BY DEF CancelOpened, Idle
<1>2. r.flag => trip[o].status # "NONE"
  BY DEF CancelOpened, Idle
<1>3. r.flag => order[o].driver # None
  BY <1>2 DEF IInv, DataOK, ClaimAgrees, NoTrip
<1>4. r \in Requests
  <2>1. order[o].driver \in Drivers \cup {None}
    BY DEF IInv, DataOK, TablesTyped
  <2> QED BY <2>1 DEF CancelOpened, Idle, Requests, Labels
<1> HIDE DEF r
<1>5. RequestOK(r)
  BY <1>1, <1>3, NoneAssumption
  DEF RequestOK, Routed, RowsRead, RowAtHand, TripOfWonOrder, WritesTrip, CancelLabels,
      TripLabels, BroadcastLabels, Terminal
<1> QED BY <1>4, <1>5 DEF r

LEMMA ArrivalStep ==
  ASSUME IInv, NEW s \in Slots, Arrival(s)
  PROVE  IInv'
<1>1. ASSUME NEW o \in Orders, BroadcastOrder(s, o)
      PROVE  IInv'
  BY <1>1, ExpireStaleStep DEF BroadcastOrder
<1>2. ASSUME NEW d \in Drivers, GetCurrentOffer(s, d)
      PROVE  IInv'
  BY <1>2, ExpireStaleStep DEF GetCurrentOffer
<1>3. ASSUME NEW o \in Orders, NEW d \in Drivers, AcceptOrder(s, o, d) \/ RejectOrder(s, o, d)
      PROVE  IInv'
  BY <1>3, ExpireStaleStep DEF AcceptOrder, RejectOrder
<1>4. ASSUME NEW o \in Orders, CancelByOperator(s, o)
      PROVE  IInv'
  <2>1. Goto(s, CancelOpened(o, "CANCELLED_BY_OPERATOR"))
        /\ UNCHANGED <<order, asg, trip, op, acct, charges>>
    BY <1>4 DEF CancelByOperator
  <2>2. "CANCELLED_BY_OPERATOR" \in Terminal
    BY DEF Terminal
  <2> QED BY <2>1, <2>2, CancelOpenedOK, ReadStep DEF IInv, DriversTyped
<1>5. ASSUME NEW o \in Orders,
             CancelByDriver(s, o) \/ MarkPassengerNoShow(s, o) \/ ResolveDisputeCancel(s, o)
      PROVE  IInv'
  BY <1>5, CheckedStep
  DEF CancelByDriver, MarkPassengerNoShow, ResolveDisputeCancel, CancelLabels, TripLabels, Terminal
<1>6. ASSUME NEW o \in Orders,
             MarkPickupArrived(s, o) \/ StartTrip(s, o) \/ OpenDispute(s, o)
      PROVE  IInv'
  BY <1>6, CheckedStep
  DEF MarkPickupArrived, StartTrip, OpenDispute, MayAct, CancelLabels, TripLabels
<1>7. ASSUME NEW o \in Orders, CompleteTrip(s, o) \/ ResolveDisputeComplete(s, o)
      PROVE  IInv'
  BY <1>7, CheckedStep
  DEF CompleteTrip, ResolveDisputeComplete, Completable, MayAct, CancelLabels, TripLabels
<1>8. ASSUME NEW d \in Drivers, NEW label \in {"online", "offline"},
             Goto(s, [Idle EXCEPT !.pc = label, !.driver = d]),
             UNCHANGED <<order, asg, trip, op, acct, charges>>
      PROVE  IInv'
  <2> DEFINE r == [Idle EXCEPT !.pc = label, !.driver = d]
  <2>1. /\ r \in Requests /\ r.pc = label /\ r.handler = "none" /\ r.rows = {}
        /\ r.row = None
    BY DEF Idle, Requests, Labels
  <2> HIDE DEF r
  <2>2. RequestOK(r)
    BY <2>1, NoneAssumption
    DEF RequestOK, Routed, RowsRead, RowAtHand, TripOfWonOrder, WritesTrip, CancelLabels, TripLabels,
      BroadcastLabels
  <2> QED BY <1>8, <2>1, <2>2, ReadStep DEF r, IInv, DriversTyped
<1>9. ASSUME NEW d \in Drivers, GoOnline(s, d) \/ GoOffline(s, d)
      PROVE  IInv'
  BY <1>8, <1>9 DEF GoOnline, GoOffline
<1> QED BY <1>1, <1>2, <1>3, <1>4, <1>5, <1>6, <1>7, <1>9 DEF Arrival

-----------------------------------------------------------------------------
(* Requests in flight.                                                     *)

(* The request goes on, with what it has read in rows and row.              *)
LEMMA GoesOn ==
  ASSUME IInv, NEW r \in Requests, RequestOK(r), NEW q \in Requests,
         q.handler = r.handler, q.order = r.order,
         q.handler = "accept" => q.driver = r.driver,
         \A a \in Rows : a \in q.rows \/ a = q.row =>
           a \in r.rows \/ a = r.row \/ asg[a].status # "NONE",
         r.pc \notin {"idle", "online", "offline"},
         q.pc \in {"expire", "expireDriver"} => r.pc \in {"expire", "expireDriver"},
         r.handler = "offer" => q.pc \in {"expire", "expireDriver"},
         q.pc \in BroadcastLabels => r.handler = "broadcast",
         q.pc \in CancelLabels => r.pc \in CancelLabels,
         q.pc \in {"accept", "acceptOffer", "acceptRivals", "acceptCommit"} => r.handler = "accept",
         RowAtHand(q), TripOfWonOrder(q)
  PROVE  RequestOK(q)
<1>1. Routed(q)
  BY DEF RequestOK, Routed, CancelLabels, BroadcastLabels
<1>2. RowsRead(q)
  BY DEF RequestOK, RowsRead
<1> QED BY <1>1, <1>2 DEF RequestOK

LEMMA FinishStep ==
  ASSUME IInv, UNCHANGED <<order, asg, trip, charges>>, DriversTyped', NEW s \in Slots, Finish(s)
  PROVE  IInv'
BY IdleOK, ReadStep DEF Finish

LEMMA ReleaseTyped ==
  ASSUME DriversTyped, UNCHANGED acct, NEW d, ReleaseIfOffered(d)
  PROVE  DriversTyped'
BY DEF DriversTyped, ReleaseIfOffered, OperationalStatus

LEMMA ExpireSteps ==
  ASSUME IInv, NEW s \in Slots, ExpireRow(s) \/ ExpireDriver(s)
  PROVE  IInv'
<1> DEFINE x == req[s]
<1>1. x \in Requests /\ RequestOK(x)
  BY DEF IInv, RequestsOK
<1>2. CASE ExpireRow(s)
  <2>1. PICK a \in x.rows :
          /\ x.pc = "expire" /\ asg' = [asg EXCEPT ![a].status = "EXPIRED"]
          /\ Goto(s, [x EXCEPT !.pc = "expireDriver", !.row = a, !.rows = @ \ {a}])
          /\ UNCHANGED <<order, trip, op, acct, charges>>
    BY <1>2 DEF ExpireRow, At
  <2> DEFINE q == [x EXCEPT !.pc = "expireDriver", !.row = a, !.rows = @ \ {a}]
  <2> HIDE DEF x
  <2>2. a \in Rows
    BY <1>1, <2>1 DEF Requests
  <2>3. /\ q \in Requests /\ q.pc = "expireDriver" /\ q.handler = x.handler
        /\ q.order = x.order /\ q.driver = x.driver /\ q.row = a /\ q.rows = x.rows \ {a}
    BY <1>1, <2>2 DEF Requests, Labels
  <2> HIDE DEF q
  <2>4. RequestOK(q)
    BY <1>1, <2>1, <2>2, <2>3, GoesOn
    DEF RowAtHand, TripOfWonOrder, WritesTrip, CancelLabels, TripLabels,
      BroadcastLabels
  <2>5. asg[a].status # "NONE"
    BY <1>1, <2>1, <2>2 DEF RequestOK, RowsRead
  <2>6. "EXPIRED" \in AssignmentStatus \ {"NONE", "ACCEPTED"}
    BY DEF AssignmentStatus
  <2> QED BY <2>1, <2>2, <2>3, <2>4, <2>5, <2>6, CloseStep DEF q
<1>3. CASE ExpireDriver(s)
  <2> DEFINE q == [x EXCEPT !.pc = "expire"]
  <2>1. /\ x.pc = "expireDriver" /\ ReleaseIfOffered(asg[x.row].driver)
        /\ Goto(s, IF x.rows = {} THEN Resume(x) ELSE q)
        /\ UNCHANGED <<order, asg, trip, acct, charges>>
    BY <1>3 DEF ExpireDriver, At
  <2>2. DriversTyped'
    BY <2>1, ReleaseTyped DEF IInv
  <2> HIDE DEF x
  <2>3. /\ q \in Requests /\ q.pc = "expire" /\ q.handler = x.handler
        /\ q.order = x.order /\ q.driver = x.driver /\ q.row = x.row /\ q.rows = x.rows
    BY <1>1 DEF Requests, Labels
  <2> HIDE DEF q
  <2>4. RequestOK(q)
    BY <1>1, <2>1, <2>3, GoesOn
    DEF RowAtHand, TripOfWonOrder, WritesTrip, CancelLabels, TripLabels,
      BroadcastLabels
  <2>5. CASE x.rows = {}
    BY <1>1, <2>1, <2>2, <2>5, ResumeOK, ReadStep
  <2>6. CASE x.rows # {}
    BY <2>1, <2>2, <2>3, <2>4, <2>6, ReadStep
  <2> QED BY <2>5, <2>6
<1> QED BY <1>2, <1>3

LEMMA BroadcastReads ==
  ASSUME IInv, NEW s \in Slots,
         \/ BroadcastReadOrder(s) \/ BroadcastFindPending(s) \/ BroadcastRelease(s)
         \/ BroadcastSelect(s) \/ BroadcastMarkOffered(s)
  PROVE  IInv'
<1> DEFINE x == req[s]
<1>1. x \in Requests /\ RequestOK(x)
  BY DEF IInv, RequestsOK
<1>2. UNCHANGED <<order, asg, trip, charges>> /\ DriversTyped'
  <2>1. CASE BroadcastRelease(s)
    BY <2>1, ReleaseTyped DEF IInv, BroadcastRelease
  <2>2. CASE BroadcastMarkOffered(s)
    BY <2>2 DEF IInv, DriversTyped, OperationalStatus, BroadcastMarkOffered
  <2> QED BY <2>1, <2>2
    DEF IInv, DriversTyped, BroadcastReadOrder, BroadcastFindPending, BroadcastSelect
(* Each either ends or goes on to the next statement of the broadcast.      *)
<1>3. \/ Finish(s)
      \/ \E q \in Requests :
           /\ Goto(s, q)
           /\ q.handler = x.handler /\ q.order = x.order
           /\ q.pc \in {"findPending", "select", "supersede", "insert", "markBroadcasted"}
           /\ x.pc \in {"broadcast", "findPending", "supersedeDriver", "select", "markOffered"}
           /\ q.row \in {None, x.row}
           /\ q.rows \subseteq x.rows \cup Pending(x.order)
  <2> HIDE DEF x
  <2>1. CASE BroadcastReadOrder(s)
    <3> DEFINE fresh == order[x.order].status = "CREATED"
               q == [x EXCEPT !.pc = "findPending", !.flag = fresh]
    <3>1. /\ x.pc = "broadcast" /\ (Goto(s, q) \/ Finish(s))
      BY <2>1 DEF BroadcastReadOrder, At, x
    <3>2. fresh \in BOOLEAN
      OBVIOUS
    <3> HIDE DEF fresh
    <3>3. /\ q \in Requests /\ q.pc = "findPending" /\ q.handler = x.handler
          /\ q.order = x.order /\ q.driver = x.driver /\ q.row = x.row /\ q.rows = x.rows
      BY <1>1, <3>2 DEF Requests, Labels
    <3> HIDE DEF q
    <3> QED BY <3>1, <3>3
  <2>2. CASE BroadcastFindPending(s)
    <3> DEFINE q == [x EXCEPT !.rows = Pending(x.order),
                              !.pc = IF Pending(x.order) = {} THEN "select" ELSE "supersede"]
    <3>1. x.pc = "findPending" /\ Goto(s, q)
      BY <2>2 DEF BroadcastFindPending, At, x
    <3>2. Pending(x.order) \subseteq Rows
      BY DEF Pending
    <3>3. /\ q \in Requests /\ q.pc \in {"select", "supersede"} /\ q.handler = x.handler
          /\ q.order = x.order /\ q.driver = x.driver /\ q.row = x.row
          /\ q.rows = Pending(x.order)
      BY <1>1, <3>2 DEF Requests, Labels
    <3> HIDE DEF q
    <3> QED BY <3>1, <3>3
  <2>3. CASE BroadcastRelease(s)
    <3> DEFINE q == [x EXCEPT !.pc = IF x.rows = {} THEN "select" ELSE "supersede", !.row = None]
    <3>1. x.pc = "supersedeDriver" /\ Goto(s, q)
      BY <2>3 DEF BroadcastRelease, At, x
    <3>2. /\ q \in Requests /\ q.pc \in {"select", "supersede"} /\ q.handler = x.handler
          /\ q.order = x.order /\ q.driver = x.driver /\ q.row = None /\ q.rows = x.rows
      BY <1>1 DEF Requests, Labels
    <3> HIDE DEF q
    <3> QED BY <3>1, <3>2
  <2>4. CASE BroadcastSelect(s)
    <3>1. PICK C \in SUBSET Candidates :
            x.pc = "select" /\ (Finish(s) \/ Goto(s, [x EXCEPT !.pc = "insert", !.cands = C]))
      BY <2>4 DEF BroadcastSelect, At, x
    <3> DEFINE q == [x EXCEPT !.pc = "insert", !.cands = C]
    <3>2. C \subseteq Drivers
      BY DEF Candidates
    <3>3. /\ q \in Requests /\ q.pc = "insert" /\ q.handler = x.handler
          /\ q.order = x.order /\ q.driver = x.driver /\ q.row = x.row /\ q.rows = x.rows
      BY <1>1, <3>2 DEF Requests, Labels
    <3> HIDE DEF q
    <3> QED BY <3>1, <3>3 DEF q
  <2>5. CASE BroadcastMarkOffered(s)
    <3>1. PICK label \in {"insert", "markBroadcasted"} :
            /\ x.pc = "markOffered"
            /\ Finish(s) \/ Goto(s, [x EXCEPT !.pc = label, !.driver = None])
      BY <2>5 DEF BroadcastMarkOffered, At, x
    <3> DEFINE q == [x EXCEPT !.pc = label, !.driver = None]
    <3>2. /\ q \in Requests /\ q.pc = label /\ q.handler = x.handler
          /\ q.order = x.order /\ q.driver = None /\ q.row = x.row /\ q.rows = x.rows
      BY <1>1 DEF Requests, Labels
    <3> HIDE DEF q
    <3> QED BY <3>1, <3>2 DEF q
  <2> QED BY <2>1, <2>2, <2>3, <2>4, <2>5
<1>4. ASSUME NEW a \in Rows, a \in Pending(x.order)
      PROVE  asg[a].status # "NONE"
  BY <1>4 DEF Pending, IsPending
<1>5. CASE Finish(s)
  BY <1>2, <1>5, FinishStep
<1>6. ASSUME NEW q \in Requests, Goto(s, q),
             q.handler = x.handler, q.order = x.order,
             q.pc \in {"findPending", "select", "supersede", "insert", "markBroadcasted"},
             x.pc \in {"broadcast", "findPending", "supersedeDriver", "select", "markOffered"},
             q.row \in {None, x.row}, q.rows \subseteq x.rows \cup Pending(x.order)
      PROVE  IInv'
  <2> HIDE DEF x
  <2>1. x.handler = "broadcast"
    BY <1>1, <1>6 DEF RequestOK, Routed, BroadcastLabels
  <2>2. RequestOK(q)
    BY <1>1, <1>4, <1>6, <2>1, NoneAssumption
    DEF RequestOK, Routed, RowsRead, RowAtHand, TripOfWonOrder, WritesTrip, CancelLabels,
        TripLabels, BroadcastLabels
  <2> QED BY <1>2, <1>6, <2>2, ReadStep
<1> QED BY <1>3, <1>5, <1>6

(* Statements that write statuses only: no row, order or trip changes hands. *)
Overwrites ==
  /\ \A a \in Rows :
       /\ asg'[a].order = asg[a].order /\ asg'[a].driver = asg[a].driver
       /\ asg'[a].status = "NONE" <=> asg[a].status = "NONE"
       /\ asg'[a].status = "ACCEPTED" => asg[a].status = "ACCEPTED"
  /\ \A o \in Orders :
       /\ order'[o].driver = order[o].driver /\ trip'[o].driver = trip[o].driver
       /\ trip'[o] = NoTrip <=> trip[o] = NoTrip

LEMMA OverwritesOK ==
  ASSUME DataOK, TablesTyped', Overwrites
  PROVE  DataOK' /\ Keeps
<1>1. RowsNamed'
  BY DEF DataOK, TablesTyped, Overwrites, RowsNamed, NoRow
<1>2. ClaimAgrees'
  BY DEF DataOK, Overwrites, ClaimAgrees
<1>3. Keeps
  BY DEF Overwrites, Keeps
<1> QED BY <1>1, <1>2, <1>3 DEF DataOK

LEMMA BroadcastWrites ==
  ASSUME IInv, NEW s \in Slots, BroadcastSupersede(s) \/ BroadcastInsert(s) \/ BroadcastMark(s)
  PROVE  IInv'
<1> DEFINE x == req[s]
<1>1. x \in Requests /\ RequestOK(x)
  BY DEF IInv, RequestsOK
<1>2. CASE BroadcastSupersede(s)
  <2>1. PICK a \in x.rows :
          /\ x.pc = "supersede" /\ asg' = [asg EXCEPT ![a].status = "SUPERSEDED"]
          /\ Goto(s, [x EXCEPT !.pc = "supersedeDriver", !.row = a, !.rows = @ \ {a}])
          /\ UNCHANGED <<order, trip, op, acct, charges>>
    BY <1>2 DEF BroadcastSupersede, At
  <2> DEFINE q == [x EXCEPT !.pc = "supersedeDriver", !.row = a, !.rows = @ \ {a}]
  <2> HIDE DEF x
  <2>2. a \in Rows
    BY <1>1, <2>1 DEF Requests
  <2>3. /\ q \in Requests /\ q.pc = "supersedeDriver" /\ q.handler = x.handler
        /\ q.order = x.order /\ q.driver = x.driver /\ q.row = a /\ q.rows = x.rows \ {a}
    BY <1>1, <2>2 DEF Requests, Labels
  <2>4. x.handler = "broadcast"
    BY <1>1, <2>1 DEF RequestOK, Routed, BroadcastLabels
  <2> HIDE DEF q
  <2>5. RequestOK(q)
    BY <1>1, <2>1, <2>2, <2>3, <2>4, GoesOn
    DEF RowAtHand, TripOfWonOrder, WritesTrip, CancelLabels, TripLabels, BroadcastLabels
  <2>6. asg[a].status # "NONE"
    BY <1>1, <2>1, <2>2 DEF RequestOK, RowsRead
  <2>7. "SUPERSEDED" \in AssignmentStatus \ {"NONE", "ACCEPTED"}
    BY DEF AssignmentStatus
  <2> QED BY <2>1, <2>2, <2>3, <2>5, <2>6, <2>7, CloseStep DEF q
<1>3. CASE BroadcastInsert(s)
  <2>1. x.pc = "insert" /\ UNCHANGED <<order, trip, op, acct, charges>>
    BY <1>3 DEF BroadcastInsert, At
  <2>2. CASE Finish(s) /\ UNCHANGED asg
    BY <2>1, <2>2, FinishStep DEF IInv, DriversTyped
  <2>3. ASSUME NEW d \in x.cands, NEW a \in Free,
               asg' = [asg EXCEPT ![a] = [status |-> "PENDING", order |-> x.order, driver |-> d]],
               Goto(s, [x EXCEPT !.pc = "markOffered", !.driver = d, !.cands = @ \ {d}])
        PROVE  IInv'
    <3> DEFINE q == [x EXCEPT !.pc = "markOffered", !.driver = d, !.cands = @ \ {d}]
    <3> HIDE DEF x
    <3>1. d \in Drivers /\ a \in Rows /\ asg[a].status = "NONE"
      BY <1>1, <2>3 DEF Requests, Free
    <3>2. x.handler = "broadcast" /\ x.order \in Orders
      BY <1>1, <2>1 DEF RequestOK, Routed, BroadcastLabels
    <3>3. TablesTyped' /\ RowsNamed' /\ Keeps
      BY <2>1, <2>3, <3>1, <3>2
      DEF IInv, DataOK, TablesTyped, AssignmentStatus, RowsNamed, NoRow, Keeps
    <3>4. ClaimAgrees'
      BY <2>1, <2>3, <3>1 DEF IInv, DataOK, TablesTyped, ClaimAgrees
    <3>5. /\ q \in Requests /\ q.pc = "markOffered" /\ q.handler = x.handler
          /\ q.order = x.order /\ q.driver = d /\ q.row = x.row /\ q.rows = x.rows
      BY <1>1, <3>1 DEF Requests, Labels
    <3> HIDE DEF q
    <3>6. RequestOK(q)
      BY <1>1, <2>1, <3>2, <3>5, GoesOn
      DEF RowAtHand, TripOfWonOrder, WritesTrip, CancelLabels, TripLabels, BroadcastLabels
    <3>7. RequestsOK'
      BY <2>3, <3>3, <3>5, <3>6, SlotStep DEF IInv, q
    <3> QED BY <2>1, <3>3, <3>4, <3>7 DEF IInv, DataOK, DriversTyped
  <2> QED BY <1>3, <2>2, <2>3 DEF BroadcastInsert
<1>4. CASE BroadcastMark(s)
  <2>1. /\ x.pc = "markBroadcasted" /\ Finish(s)
        /\ order' = [order EXCEPT ![x.order].status = "BROADCASTED"]
        /\ UNCHANGED <<asg, trip, op, acct, charges>>
    BY <1>4 DEF BroadcastMark, At
  <2> HIDE DEF x
  <2>2. TablesTyped' /\ Overwrites
    BY <2>1 DEF IInv, DataOK, TablesTyped, OrderStatus, Overwrites
  <2>3. RequestsOK'
    BY <2>1, <2>2, OverwritesOK, SlotStep, IdleOK DEF IInv, Finish
  <2> QED BY <2>1, <2>2, <2>3, OverwritesOK DEF IInv, DriversTyped
<1> QED BY <1>2, <1>3, <1>4

LEMMA AcceptReads ==
  ASSUME IInv, NEW s \in Slots,
         AcceptReadOrder(s) \/ AcceptReadOffer(s) \/ AcceptReadRivals(s)
  PROVE  IInv'
<1> DEFINE x == req[s]
<1>1. x \in Requests /\ RequestOK(x)
  BY DEF IInv, RequestsOK
<1>2. UNCHANGED <<order, asg, trip, op, acct, charges>>
  BY DEF AcceptReadOrder, AcceptReadOffer, AcceptReadRivals
<1>3. CASE Finish(s)
  BY <1>2, <1>3, FinishStep DEF IInv, DriversTyped
<1>4. ASSUME x.pc = "accept", Goto(s, [x EXCEPT !.pc = "acceptOffer"])
      PROVE  IInv'
  <2> DEFINE q == [x EXCEPT !.pc = "acceptOffer"]
  <2> HIDE DEF x
  <2>1. x.handler = "accept"
    BY <1>1, <1>4 DEF RequestOK, Routed
  <2>2. /\ q \in Requests /\ q.pc = "acceptOffer" /\ q.handler = x.handler
        /\ q.order = x.order /\ q.driver = x.driver /\ q.row = x.row /\ q.rows = x.rows
    BY <1>1 DEF Requests, Labels
  <2> HIDE DEF q
  <2>3. RequestOK(q)
    BY <1>1, <1>4, <2>1, <2>2, GoesOn
    DEF RowAtHand, TripOfWonOrder, WritesTrip, CancelLabels, TripLabels, BroadcastLabels
  <2> QED BY <1>2, <1>4, <2>2, <2>3, ReadStep DEF q, IInv, DriversTyped
<1>5. ASSUME x.pc = "acceptOffer", NEW a \in LiveOffers(x.order, x.driver),
             Goto(s, [x EXCEPT !.pc = "acceptRivals", !.row = a])
      PROVE  IInv'
  <2> DEFINE q == [x EXCEPT !.pc = "acceptRivals", !.row = a]
  <2> HIDE DEF x
  <2>1. x.handler = "accept"
    BY <1>1, <1>5 DEF RequestOK, Routed
  <2>2. /\ a \in Rows /\ asg[a].status # "NONE" /\ asg[a].order = x.order
        /\ asg[a].driver = x.driver
    BY <1>5 DEF LiveOffers, Pending
  <2>3. /\ q \in Requests /\ q.pc = "acceptRivals" /\ q.handler = x.handler
        /\ q.order = x.order /\ q.driver = x.driver /\ q.row = a /\ q.rows = x.rows
    BY <1>1, <2>2 DEF Requests, Labels
  <2> HIDE DEF q
  <2>4. RequestOK(q)
    BY <1>1, <1>5, <2>1, <2>2, <2>3, GoesOn
    DEF RowAtHand, TripOfWonOrder, WritesTrip, CancelLabels, TripLabels, BroadcastLabels
  <2> QED BY <1>2, <1>5, <2>3, <2>4, ReadStep DEF q, IInv, DriversTyped
<1>6. ASSUME x.pc = "acceptRivals",
             Goto(s, [x EXCEPT !.pc = "acceptCommit", !.rows = Rivals(x.order, x.row)])
      PROVE  IInv'
  <2> DEFINE q == [x EXCEPT !.pc = "acceptCommit", !.rows = Rivals(x.order, x.row)]
  <2> HIDE DEF x
  <2>1. /\ x.handler = "accept" /\ x.row \in Rows
        /\ asg[x.row].order = x.order /\ asg[x.row].driver = x.driver
    BY <1>1, <1>6 DEF RequestOK, Routed, RowAtHand
  <2>2. \A b \in Rivals(x.order, x.row) : b \in Rows /\ asg[b].status # "NONE"
    BY DEF Rivals, Pending, IsPending
  <2>3. /\ q \in Requests /\ q.pc = "acceptCommit" /\ q.handler = x.handler
        /\ q.order = x.order /\ q.driver = x.driver /\ q.row = x.row
        /\ q.rows = Rivals(x.order, x.row)
    BY <1>1, <2>2 DEF Requests, Labels
  <2> HIDE DEF q
  <2>4. RequestOK(q)
    BY <1>1, <1>6, <2>1, <2>2, <2>3, GoesOn
    DEF RowAtHand, TripOfWonOrder, WritesTrip, CancelLabels, TripLabels, BroadcastLabels
  <2> QED BY <1>2, <1>6, <2>3, <2>4, ReadStep DEF q, IInv, DriversTyped
<1> QED
  BY <1>3, <1>4, <1>5, <1>6 DEF AcceptReadOrder, AcceptReadOffer, AcceptReadRivals, At

(* The order is won by the driver of the offer, who had none before.        *)
LEMMA AcceptCommitOK ==
  ASSUME IInv, NEW s \in Slots, AcceptCommit(s)
  PROVE  IInv'
<1> DEFINE x == req[s]
           o == x.order
           d == x.driver
<1>1. x \in Requests /\ RequestOK(x)
  BY DEF IInv, RequestsOK
<1>2. x.pc = "acceptCommit" /\ Finish(s) /\ UNCHANGED <<acct, charges>>
  BY DEF AcceptCommit, At
<1>3. o \in Orders /\ d \in Drivers /\ x.row \in Rows
      /\ asg[x.row].status # "NONE" /\ asg[x.row].order = o /\ asg[x.row].driver = d
  <2> HIDE DEF x
  <2> QED BY <1>1, <1>2 DEF RequestOK, Routed, RowsRead, RowAtHand
<1>4. CASE UNCHANGED <<order, asg, trip, op>>
  BY <1>2, <1>4, FinishStep DEF IInv, DriversTyped
<1>5. CASE /\ TripFree(o)
           /\ asg' = [a \in Rows |->
                        IF a = x.row THEN [asg[a] EXCEPT !.status = "ACCEPTED"]
                        ELSE IF a \in x.rows THEN [asg[a] EXCEPT !.status = "SUPERSEDED"]
                        ELSE asg[a]]
           /\ order' = [order EXCEPT ![o] = [status |-> "ACCEPTED", driver |-> d]]
           /\ trip' = [trip EXCEPT ![o] = [status |-> "NOT_STARTED", driver |-> d,
                                           arrived |-> FALSE]]
           /\ op' = [e \in Drivers |->
                       IF e = d THEN "EN_ROUTE_PICKUP"
                       ELSE IF e \in DriversOf(x.rows) THEN "ONLINE_IDLE" ELSE op[e]]
  <2>1. trip[o] = NoTrip /\ order[o].driver = None
    BY <1>3, <1>5 DEF TripFree, IInv, DataOK, ClaimAgrees
  <2>2. \A a \in Rows : asg[a].status = "ACCEPTED" => asg[a].order # o
    BY <1>3, <2>1, NoneAssumption DEF IInv, DataOK, RowsNamed, ClaimAgrees
  <2>3. \A a \in x.rows : a \in Rows => asg[a].status # "NONE"
    BY <1>1 DEF RequestOK, RowsRead
  <2> HIDE DEF o, d, x
  <2>4. TablesTyped'
    <3>1. asg' \in [Rows -> [status : AssignmentStatus, order : Orders \cup {None},
                             driver : Drivers \cup {None}]]
      BY <1>5 DEF IInv, DataOK, TablesTyped, AssignmentStatus
    <3>2. order' \in [Orders -> [status : OrderStatus, driver : Drivers \cup {None}]]
      BY <1>3, <1>5 DEF IInv, DataOK, TablesTyped, OrderStatus
    <3>3. trip' \in [Orders -> [status : TripStatus, driver : Drivers \cup {None},
                                arrived : BOOLEAN]]
      BY <1>3, <1>5 DEF IInv, DataOK, TablesTyped, TripStatus
    <3> QED BY <3>1, <3>2, <3>3 DEF TablesTyped
  <2>5. \A a \in Rows :
          /\ asg'[a].order = asg[a].order /\ asg'[a].driver = asg[a].driver
          /\ asg[a].status # "NONE" => asg'[a].status # "NONE"
          /\ asg[a].status = "NONE" => asg'[a] = asg[a]
          /\ asg'[a].status = "ACCEPTED" => a = x.row \/ asg[a].status = "ACCEPTED"
    BY <1>3, <1>5, <2>3 DEF IInv, DataOK, TablesTyped
  <2>6. \A p \in Orders : p # o => order'[p] = order[p] /\ trip'[p] = trip[p]
    BY <1>5 DEF IInv, DataOK, TablesTyped
  <2>7. order'[o].driver = d /\ trip'[o].driver = d /\ trip'[o] # NoTrip
    BY <1>3, <1>5, NoneAssumption DEF IInv, DataOK, TablesTyped, NoTrip
  <2>8. RowsNamed'
    BY <2>5 DEF IInv, DataOK, RowsNamed
  <2>9. Keeps
    BY <1>3, <2>5, <2>6, <2>7, NoneAssumption DEF Keeps
  <2>10. ClaimAgrees'
    <3>1. \A p \in Orders : /\ trip'[p].driver = order'[p].driver
                            /\ trip'[p] = NoTrip <=> order'[p].driver = None
      BY <1>3, <2>6, <2>7, NoneAssumption DEF IInv, DataOK, ClaimAgrees
    <3>2. \A a \in Rows : asg'[a].status = "ACCEPTED" =>
            asg'[a].order \in Orders /\ asg'[a].driver = order'[asg'[a].order].driver
      BY <1>3, <2>2, <2>5, <2>6, <2>7 DEF IInv, DataOK, ClaimAgrees
    <3>3. \A a, b \in Rows :
            asg'[a].status = "ACCEPTED" /\ asg'[b].status = "ACCEPTED"
            /\ asg'[a].order = asg'[b].order => a = b
      BY <1>3, <2>2, <2>5 DEF IInv, DataOK, ClaimAgrees
    <3> QED BY <3>1, <3>2, <3>3 DEF ClaimAgrees
  <2>11. DriversTyped'
    BY <1>2, <1>5 DEF IInv, DriversTyped, OperationalStatus, CantOffline
  <2>12. RequestsOK'
    BY <1>2, <2>9, IdleOK, SlotStep DEF IInv, Finish
  <2> QED BY <1>2, <2>4, <2>8, <2>10, <2>11, <2>12 DEF IInv, DataOK
<1> QED BY <1>4, <1>5 DEF AcceptCommit

LEMMA RejectSteps ==
  ASSUME IInv, NEW s \in Slots, RejectFind(s) \/ RejectRow(s) \/ RejectDriver(s)
  PROVE  IInv'
<1> DEFINE x == req[s]
<1>1. x \in Requests /\ RequestOK(x)
  BY DEF IInv, RequestsOK
<1>2. CASE RejectFind(s)
  <2>1. x.pc = "reject" /\ UNCHANGED <<order, asg, trip, op, acct, charges>>
    BY <1>2 DEF RejectFind, At
  <2>2. CASE Finish(s)
    BY <2>1, <2>2, FinishStep DEF IInv, DriversTyped
  <2>3. ASSUME NEW a \in Pending(x.order), Goto(s, [x EXCEPT !.pc = "rejectRow", !.row = a])
        PROVE  IInv'
    <3> DEFINE q == [x EXCEPT !.pc = "rejectRow", !.row = a]
    <3> HIDE DEF x
    <3>1. a \in Rows /\ asg[a].status # "NONE"
      BY <2>3 DEF Pending, IsPending
    <3>2. /\ q \in Requests /\ q.pc = "rejectRow" /\ q.handler = x.handler
          /\ q.order = x.order /\ q.driver = x.driver /\ q.row = a /\ q.rows = x.rows
      BY <1>1, <3>1 DEF Requests, Labels
    <3>3. x.handler # "offer"
      BY <1>1, <2>1 DEF RequestOK, Routed
    <3> HIDE DEF q
    <3>4. RequestOK(q)
      BY <1>1, <2>1, <3>1, <3>2, <3>3, GoesOn
      DEF RowAtHand, TripOfWonOrder, WritesTrip, CancelLabels, TripLabels, BroadcastLabels
    <3> QED BY <2>1, <2>3, <3>2, <3>4, ReadStep DEF q, IInv, DriversTyped
  <2> QED BY <1>2, <2>2, <2>3 DEF RejectFind
<1>3. CASE RejectRow(s)
  <2> DEFINE q == [x EXCEPT !.pc = "rejectDriver", !.row = None]
  <2>1. /\ x.pc = "rejectRow" /\ asg' = [asg EXCEPT ![x.row].status = "REJECTED"]
        /\ Goto(s, q) /\ UNCHANGED <<order, trip, op, acct, charges>>
    BY <1>3 DEF RejectRow, At
  <2> HIDE DEF x
  <2>2. /\ q \in Requests /\ q.pc = "rejectDriver" /\ q.handler = x.handler
        /\ q.order = x.order /\ q.driver = x.driver /\ q.row = None /\ q.rows = x.rows
    BY <1>1 DEF Requests, Labels
  <2>3. x.handler # "offer" /\ x.row \in Rows
    BY <1>1, <2>1 DEF RequestOK, Routed, RowAtHand
  <2> HIDE DEF q
  <2>4. RequestOK(q)
    BY <1>1, <2>1, <2>2, <2>3, NoneAssumption, GoesOn
    DEF RowAtHand, TripOfWonOrder, WritesTrip, CancelLabels, TripLabels, BroadcastLabels
  <2>5. asg[x.row].status # "NONE"
    BY <1>1, <2>3 DEF RequestOK, RowsRead
  <2>6. "REJECTED" \in AssignmentStatus \ {"NONE", "ACCEPTED"}
    BY DEF AssignmentStatus
  <2> QED BY <2>1, <2>2, <2>3, <2>4, <2>5, <2>6, CloseStep
<1>4. CASE RejectDriver(s)
  BY <1>4, FinishStep DEF RejectDriver, IInv, DriversTyped, OperationalStatus
<1> QED BY <1>2, <1>3, <1>4

LEMMA CancelReads ==
  ASSUME IInv, NEW s \in Slots, CancelRead(s) \/ CancelReadPending(s)
  PROVE  IInv'
<1> DEFINE x == req[s]
<1>1. x \in Requests /\ RequestOK(x)
  BY DEF IInv, RequestsOK
<1>2. UNCHANGED <<order, asg, trip, op, acct, charges>>
  BY DEF CancelRead, CancelReadPending
<1>3. CASE CancelRead(s)
  <2>1. x.pc = "cancelRead" /\ (Finish(s) \/ Goto(s, CancelOpened(x.order, x.handler)))
    BY <1>3 DEF CancelRead, At
  <2>2. x.handler \in Terminal /\ x.order \in Orders
    BY <1>1, <2>1 DEF RequestOK, Routed, CancelLabels, Terminal
  <2> HIDE DEF x
  <2> QED BY <1>2, <2>1, <2>2, CancelOpenedOK, FinishStep, ReadStep DEF IInv, DriversTyped
<1>4. CASE CancelReadPending(s)
  <2> DEFINE q == [x EXCEPT !.pc = "cancelCommit", !.rows = Pending(x.order)]
  <2>1. x.pc = "cancelPending" /\ Goto(s, q)
    BY <1>4 DEF CancelReadPending, At
  <2> HIDE DEF x
  <2>2. \A a \in Pending(x.order) : a \in Rows /\ asg[a].status # "NONE"
    BY DEF Pending, IsPending
  <2>3. /\ q \in Requests /\ q.pc = "cancelCommit" /\ q.handler = x.handler
        /\ q.order = x.order /\ q.driver = x.driver /\ q.row = x.row
        /\ q.rows = Pending(x.order) /\ q.flag = x.flag
    BY <1>1, <2>2 DEF Requests, Labels
  <2>4. x.handler # "offer"
    BY <1>1, <2>1 DEF RequestOK, Routed
  <2>5. TripOfWonOrder(q)
    BY <1>1, <2>1, <2>3 DEF RequestOK, TripOfWonOrder, WritesTrip, TripLabels
  <2> HIDE DEF q
  <2>6. RequestOK(q)
    BY <1>1, <2>1, <2>2, <2>3, <2>4, <2>5, GoesOn DEF RowAtHand, CancelLabels, BroadcastLabels
  <2> QED BY <1>2, <2>1, <2>3, <2>6, ReadStep DEF IInv, DriversTyped
<1> QED BY <1>3, <1>4

LEMMA CancelCommitOK ==
  ASSUME IInv, NEW s \in Slots, CancelCommit(s)
  PROVE  IInv'
<1> DEFINE x == req[s]
           o == x.order
<1>1. x \in Requests /\ RequestOK(x)
  BY DEF IInv, RequestsOK
<1>2. /\ x.pc = "cancelCommit" /\ Finish(s) /\ UNCHANGED <<acct, charges>>
      /\ asg' = [a \in Rows |-> IF a \in x.rows
                                THEN [asg[a] EXCEPT !.status = "SUPERSEDED"] ELSE asg[a]]
      /\ trip' = [trip EXCEPT ![o].status = IF x.flag THEN "CANCELLED" ELSE @]
      /\ op' = [d \in Drivers |->
                  IF \/ d = x.driver
                     \/ d \in DriversOf(x.rows) /\ op[d] = "ORDER_OFFERED"
                  THEN "ONLINE_IDLE" ELSE op[d]]
      /\ order' = [order EXCEPT ![o].status = x.handler]
  BY DEF CancelCommit, At
<1> HIDE DEF x
<1>3. x.handler \in Terminal /\ o \in Orders
  BY <1>1, <1>2 DEF RequestOK, Routed, CancelLabels, Terminal
<1>4. x.flag => order[o].driver # None
  BY <1>1, <1>2 DEF RequestOK, TripOfWonOrder, WritesTrip
<1>5. \A a \in x.rows : a \in Rows => asg[a].status # "NONE"
  BY <1>1 DEF RequestOK, RowsRead
<1> HIDE DEF o
<1>6. TablesTyped'
  <2>1. asg' \in [Rows -> [status : AssignmentStatus, order : Orders \cup {None},
                           driver : Drivers \cup {None}]]
    <3>1. \A a \in Rows :
            [asg[a] EXCEPT !.status = "SUPERSEDED"]
              \in [status : AssignmentStatus, order : Orders \cup {None}, driver : Drivers \cup {None}]
      BY DEF IInv, DataOK, TablesTyped, AssignmentStatus
    <3>2. \A a \in Rows :
            asg[a] \in [status : AssignmentStatus, order : Orders \cup {None}, driver : Drivers \cup {None}]
      BY DEF IInv, DataOK, TablesTyped
    <3> QED BY <1>2, <3>1, <3>2
  <2>2. order' \in [Orders -> [status : OrderStatus, driver : Drivers \cup {None}]]
    BY <1>2, <1>3 DEF IInv, DataOK, TablesTyped, OrderStatus
  <2>3. trip' \in [Orders -> [status : TripStatus, driver : Drivers \cup {None},
                              arrived : BOOLEAN]]
    BY <1>2, <1>3 DEF IInv, DataOK, TablesTyped, TripStatus
  <2> QED BY <2>1, <2>2, <2>3 DEF TablesTyped
<1>7. Overwrites
  <2>1. \A a \in Rows :
          /\ asg'[a].order = asg[a].order /\ asg'[a].driver = asg[a].driver
          /\ asg'[a].status = "NONE" <=> asg[a].status = "NONE"
          /\ asg'[a].status = "ACCEPTED" => asg[a].status = "ACCEPTED"
    BY <1>2, <1>5 DEF IInv, DataOK, TablesTyped
  <2>2. \A p \in Orders : order'[p].driver = order[p].driver /\ trip'[p].driver = trip[p].driver
    BY <1>2 DEF IInv, DataOK, TablesTyped
  <2>3. \A p \in Orders : trip'[p] = NoTrip <=> trip[p] = NoTrip
    <3>1. x.flag => trip[o].driver # None
      BY <1>3, <1>4 DEF IInv, DataOK, ClaimAgrees
    <3>2. ~x.flag => trip' = trip
      BY <1>2, <1>3 DEF IInv, DataOK, TablesTyped
    <3>3. \A p \in Orders : p # o => trip'[p] = trip[p]
      BY <1>2 DEF IInv, DataOK, TablesTyped
    <3>4. x.flag => trip'[o] # NoTrip /\ trip[o] # NoTrip
      BY <1>3, <2>2, <3>1 DEF NoTrip
    <3> QED BY <3>2, <3>3, <3>4
  <2> QED BY <2>1, <2>2, <2>3 DEF Overwrites
<1>8. DriversTyped'
  BY <1>2 DEF IInv, DriversTyped, OperationalStatus
<1>9. DataOK' /\ Keeps
  BY <1>6, <1>7, OverwritesOK DEF IInv
<1>10. RequestsOK'
  BY <1>2, <1>9, IdleOK, SlotStep DEF IInv, Finish
<1> QED BY <1>2, <1>8, <1>9, <1>10 DEF IInv

(* The commits of TripsService write the trip, and perhaps the order's       *)
(* status, of an order that has been won.                                  *)
LEMMA TripCommitOK ==
  ASSUME IInv, NEW s \in Slots,
         ArriveCommit(s) \/ StartCommit(s) \/ DisputeCommit(s) \/ CompleteCommit(s)
  PROVE  IInv'
<1> DEFINE x == req[s]
           o == x.order
<1>1. x \in Requests /\ RequestOK(x)
  BY DEF IInv, RequestsOK
<1>2. x.pc \in TripLabels
  BY DEF ArriveCommit, StartCommit, DisputeCommit, CompleteCommit, At, TripLabels
<1>3. o \in Orders /\ order[o].driver # None
  <2> HIDE DEF x
  <2> QED BY <1>1, <1>2 DEF RequestOK, Routed, TripOfWonOrder, WritesTrip, TripLabels
<1>4. trip[o].driver # None
  BY <1>3 DEF IInv, DataOK, ClaimAgrees
<1>5. PICK t \in TripStatus, z \in OrderStatus, w \in BOOLEAN :
        /\ trip' = [trip EXCEPT ![o] = [@ EXCEPT !.status = t, !.arrived = w]]
        /\ order' = [order EXCEPT ![o].status = z]
  <2>1. /\ trip[o].status \in TripStatus /\ trip[o].arrived \in BOOLEAN
        /\ order[o].status \in OrderStatus
        /\ trip[o] \in [status : TripStatus, driver : Drivers \cup {None}, arrived : BOOLEAN]
        /\ order[o] \in [status : OrderStatus, driver : Drivers \cup {None}]
    BY <1>3 DEF IInv, DataOK, TablesTyped
  <2>2. CASE ArriveCommit(s)
    <3>1. /\ trip' = [trip EXCEPT ![o] = [@ EXCEPT !.status = trip[o].status, !.arrived = TRUE]]
          /\ order' = [order EXCEPT ![o].status = "DRIVER_ARRIVING"]
      BY <2>1, <2>2 DEF ArriveCommit
    <3> QED BY <2>1, <3>1 DEF OrderStatus
  <2>3. CASE StartCommit(s)
    <3>1. /\ trip' = [trip EXCEPT ![o] = [@ EXCEPT !.status = "ACTIVE", !.arrived = trip[o].arrived]]
          /\ order' = [order EXCEPT ![o].status = "PASSENGER_ONBOARD"]
      BY <2>1, <2>3 DEF StartCommit
    <3> QED BY <2>1, <3>1 DEF OrderStatus, TripStatus
  <2>4. CASE DisputeCommit(s)
    <3>1. /\ trip' = [trip EXCEPT ![o] = [@ EXCEPT !.status = "DISPUTED", !.arrived = trip[o].arrived]]
          /\ order' = [order EXCEPT ![o].status = order[o].status]
      BY <1>3, <2>1, <2>4 DEF DisputeCommit, IInv, DataOK, TablesTyped
    <3> QED BY <2>1, <3>1 DEF TripStatus
  <2>5. CASE CompleteCommit(s)
    <3>1. /\ trip' = [trip EXCEPT ![o] = [@ EXCEPT !.status = "COMPLETED", !.arrived = trip[o].arrived]]
          /\ order' = [order EXCEPT ![o].status = "COMPLETED"]
      BY <2>1, <2>5 DEF CompleteCommit
    <3> QED BY <2>1, <3>1 DEF OrderStatus, TripStatus, Terminal
  <2> QED BY <2>2, <2>3, <2>4, <2>5
<1>6. Finish(s) /\ UNCHANGED asg
  BY DEF ArriveCommit, StartCommit, DisputeCommit, CompleteCommit
<1>7. DriversTyped' /\ charges' \in [Orders -> Nat]
  BY DEF ArriveCommit, StartCommit, DisputeCommit, CompleteCommit, IInv, DriversTyped,
         OperationalStatus, CantOffline
<1> HIDE DEF o, x
<1>8. TablesTyped'
  BY <1>3, <1>5, <1>6 DEF IInv, DataOK, TablesTyped
<1>9. Overwrites
  <2>1. /\ \A p \in Orders : p # o => trip'[p] = trip[p]
        /\ \A p \in Orders : order'[p].driver = order[p].driver /\ trip'[p].driver = trip[p].driver
    BY <1>5 DEF IInv, DataOK, TablesTyped
  <2>2. trip'[o] # NoTrip /\ trip[o] # NoTrip
    BY <1>3, <1>4, <2>1 DEF NoTrip
  <2> QED BY <1>6, <2>1, <2>2 DEF Overwrites
<1>10. DataOK' /\ Keeps
  BY <1>8, <1>9, OverwritesOK DEF IInv
<1>11. RequestsOK'
  BY <1>6, <1>10, IdleOK, SlotStep DEF IInv, Finish
<1> QED BY <1>7, <1>10, <1>11 DEF IInv

LEMMA CompleteReadOK ==
  ASSUME IInv, NEW s \in Slots, CompleteRead(s)
  PROVE  IInv'
<1> DEFINE x == req[s]
           q == [x EXCEPT !.pc = "completeCommit"]
<1>1. x \in Requests /\ RequestOK(x)
  BY DEF IInv, RequestsOK
<1>2. /\ x.pc = "completeRead" /\ (Finish(s) \/ Goto(s, q))
      /\ UNCHANGED <<order, asg, trip, op, acct, charges>>
  BY DEF CompleteRead, At
<1> HIDE DEF x
<1>3. /\ q \in Requests /\ q.pc = "completeCommit" /\ q.handler = x.handler
      /\ q.order = x.order /\ q.driver = x.driver /\ q.row = x.row /\ q.rows = x.rows
  BY <1>1 DEF Requests, Labels
<1>4. x.handler # "offer"
  BY <1>1, <1>2 DEF RequestOK, Routed
<1> HIDE DEF q
<1>5. TripOfWonOrder(q)
  BY <1>1, <1>2, <1>3 DEF RequestOK, TripOfWonOrder, WritesTrip, TripLabels
<1>6. RequestOK(q)
  BY <1>1, <1>2, <1>3, <1>4, <1>5, GoesOn DEF RowAtHand, CancelLabels, BroadcastLabels
<1> QED BY <1>2, <1>3, <1>6, FinishStep, ReadStep DEF IInv, DriversTyped

LEMMA ServeStep ==
  ASSUME IInv, NEW s \in Slots, Serve(s)
  PROVE  IInv'
<1>1. CASE PresenceWrite(s)
  BY <1>1, FinishStep DEF PresenceWrite, IInv, DriversTyped, OperationalStatus
<1> QED
  BY <1>1, ExpireSteps, BroadcastReads, BroadcastWrites, AcceptReads, AcceptCommitOK, RejectSteps,
     CancelReads, CancelCommitOK, TripCommitOK, CompleteReadOK
  DEF Serve

-----------------------------------------------------------------------------
(* Everything else.                                                        *)

LEMMA EnvironmentStep ==
  ASSUME IInv, Environment
  PROVE  IInv'
<1>1. ASSUME DataOK', Keeps, DriversTyped', UNCHANGED <<charges, req>>
      PROVE  IInv'
  <2>1. ASSUME NEW s \in Slots
        PROVE  RequestOK(req[s])'
    <3>1. PICK r \in Requests : r = req[s] /\ RequestOK(r)
      BY DEF IInv, RequestsOK
    <3>2. RequestOK(r)'
      BY <1>1, <3>1, RequestKept
    <3> QED
      BY <1>1, <3>1, <3>2 DEF RequestOK, Routed, RowsRead, RowAtHand, TripOfWonOrder, WritesTrip
  <2> QED BY <1>1, <2>1 DEF IInv, RequestsOK
<1>2. ASSUME NEW o \in Orders, CreateOrder(o)
      PROVE  IInv'
  <2>1. TablesTyped' /\ Overwrites
    BY <1>2 DEF CreateOrder, IInv, DataOK, TablesTyped, OrderStatus, Overwrites
  <2> QED BY <1>1, <1>2, <2>1, OverwritesOK DEF CreateOrder, IInv, DriversTyped
<1>3. ASSUME NEW d \in Drivers, SuspendDriver(d) \/ ReactivateDriver(d)
      PROVE  IInv'
  <2>1. UNCHANGED <<order, asg, trip, charges, req>> /\ DriversTyped'
    BY <1>3 DEF SuspendDriver, ReactivateDriver, IInv, DriversTyped, OperationalStatus
  <2>2. DataOK' /\ Keeps
    BY <2>1 DEF IInv, DataOK, TablesTyped, RowsNamed, ClaimAgrees, Keeps
  <2> QED BY <1>1, <2>1, <2>2
<1>4. ASSUME NEW a \in Rows, Lapse(a)
      PROVE  IInv'
  <2>1. TablesTyped' /\ Overwrites
    BY <1>4 DEF Lapse, IInv, DataOK, TablesTyped, AssignmentStatus, Overwrites
  <2> QED BY <1>1, <1>4, <2>1, OverwritesOK DEF Lapse, IInv, DriversTyped
<1>5. ASSUME NEW s \in Slots, Abort(s)
      PROVE  IInv'
  BY <1>5, FinishStep DEF Abort, IInv, DriversTyped
<1> QED BY <1>2, <1>3, <1>4, <1>5 DEF Environment

THEOREM Inductive == Spec => []IInv
<1>1. Init => IInv
  <2> SUFFICES ASSUME Init
               PROVE  IInv
    OBVIOUS
  <2>1. TablesTyped /\ RowsNamed /\ ClaimAgrees
    BY DEF Init, NoOrder, NoRow, NoTrip, TablesTyped, RowsNamed, ClaimAgrees, OrderStatus,
           AssignmentStatus, TripStatus
  <2>2. DriversTyped /\ charges \in [Orders -> Nat]
    BY DEF Init, DriversTyped, OperationalStatus
  <2>3. RequestsOK
    BY IdleOK DEF Init, RequestsOK
  <2> QED BY <2>1, <2>2, <2>3 DEF IInv, DataOK
<1>2. IInv /\ [Next]_vars => IInv'
  <2> SUFFICES ASSUME IInv, [Next]_vars
               PROVE  IInv'
    OBVIOUS
  <2>1. CASE UNCHANGED vars
    BY <2>1 DEF vars, IInv, DataOK, TablesTyped, RowsNamed, ClaimAgrees, DriversTyped, RequestsOK,
                RequestOK, Routed, RowsRead, RowAtHand, TripOfWonOrder, WritesTrip
  <2>2. CASE Next
    BY <2>2, ArrivalStep, ServeStep, EnvironmentStep DEF Next
  <2> QED BY <2>1, <2>2
<1> QED BY <1>1, <1>2, PTL DEF Spec

(* Every column keeps its type and every request stays at a statement of     *)
(* its handler: the type invariant of the runs, for any number of each.     *)
THEOREM TypeCorrect == Spec => []TypeOK
<1>1. IInv => TypeOK
  BY DEF IInv, DataOK, TablesTyped, DriversTyped, RequestsOK, TypeOK
<1> QED BY <1>1, Inductive, PTL

(* However many requests race, the accepted offer, the order and the trip    *)
(* name the same driver, and an order has at most one accepted offer.       *)
THEOREM ClaimAlwaysAgrees == Spec => []ClaimAgrees
<1>1. IInv => ClaimAgrees
  BY DEF IInv, DataOK
<1> QED BY <1>1, Inductive, PTL

-----------------------------------------------------------------------------
(* The handlers implement OrderClaim.                                      *)

(* A step that OrderClaim does not see: no row changes order or driver, no   *)
(* order is won, nothing is charged.                                       *)
Unseen ==
  /\ \A a \in Rows : asg'[a].order = asg[a].order /\ asg'[a].driver = asg[a].driver
  /\ \A o \in Orders : order'[o].driver = order[o].driver
  /\ charges' = charges

Seen(s) == BroadcastInsert(s) \/ AcceptCommit(s) \/ CompleteCommit(s)

LEMMA UnseenSteps ==
  ASSUME TypeOK, [Next]_vars
  PROVE  Unseen \/ \E s \in Slots : Seen(s)
<1>1. CASE UNCHANGED vars
  BY <1>1 DEF vars, Unseen
<1>2. ASSUME NEW s \in Slots, Arrival(s)
      PROVE  Unseen
  <2>1. UNCHANGED <<order, asg, charges>>
    BY <1>2
    DEF Arrival, BroadcastOrder, GetCurrentOffer, AcceptOrder, RejectOrder, ExpireStale,
        CancelByOperator, CancelByDriver, MarkPassengerNoShow, ResolveDisputeCancel,
        MarkPickupArrived, StartTrip, OpenDispute, CompleteTrip, ResolveDisputeComplete, Checked,
        GoOnline, GoOffline
  <2> QED BY <2>1 DEF Unseen
<1>3. ASSUME Environment
      PROVE  Unseen
  <2>1. ASSUME NEW o \in Orders, CreateOrder(o)
        PROVE  Unseen
    BY <2>1 DEF CreateOrder, Unseen, TypeOK
  <2>2. ASSUME NEW a \in Rows, Lapse(a)
        PROVE  Unseen
    BY <2>2 DEF Lapse, Unseen, TypeOK
  <2>3. CASE UNCHANGED <<order, asg, charges>>
    BY <2>3 DEF Unseen
  <2> QED
    BY <1>3, <2>1, <2>2, <2>3 DEF Environment, SuspendDriver, ReactivateDriver, Abort
<1>4. ASSUME NEW s \in Slots, Serve(s), ~Seen(s)
      PROVE  Unseen
  <2>1. ASSUME NEW a, NEW status, asg' = [asg EXCEPT ![a].status = status],
               UNCHANGED <<order, charges>>
        PROVE  Unseen
    BY <2>1 DEF Unseen, TypeOK
  <2>2. CASE ExpireRow(s) \/ BroadcastSupersede(s) \/ RejectRow(s)
    BY <2>1, <2>2 DEF ExpireRow, BroadcastSupersede, RejectRow
  <2>3. CASE BroadcastMark(s) \/ ArriveCommit(s) \/ StartCommit(s)
    <3>1. ASSUME NEW o, NEW status, order' = [order EXCEPT ![o].status = status],
                 UNCHANGED <<asg, charges>>
          PROVE  Unseen
      BY <3>1 DEF Unseen, TypeOK
    <3> QED BY <2>3, <3>1 DEF BroadcastMark, ArriveCommit, StartCommit
  <2>4. CASE CancelCommit(s)
    BY <2>4 DEF CancelCommit, Unseen, TypeOK
  <2>5. CASE UNCHANGED <<order, asg, charges>>
    BY <2>5 DEF Unseen
  <2>6. \/ ExpireRow(s) \/ BroadcastSupersede(s) \/ RejectRow(s) \/ BroadcastMark(s)
        \/ ArriveCommit(s) \/ StartCommit(s) \/ CancelCommit(s)
        \/ UNCHANGED <<order, asg, charges>>
    BY <1>4
    DEF Serve, Seen, ExpireDriver, BroadcastReadOrder, BroadcastFindPending, BroadcastRelease,
        BroadcastSelect, BroadcastMarkOffered, AcceptReadOrder, AcceptReadOffer, AcceptReadRivals,
        RejectFind,
        RejectDriver, CancelRead, CancelReadPending, DisputeCommit, CompleteRead, PresenceWrite
  <2> QED BY <2>2, <2>3, <2>4, <2>5, <2>6
<1> QED BY <1>1, <1>2, <1>3, <1>4 DEF Next

LEMMA OfferedBefore ==
  ASSUME NEW o, NEW d
  PROVE  d \in OfferedTo(o) <=> \E a \in Rows : asg[a].order = o /\ asg[a].driver = d
BY DEF OfferedTo

LEMMA UnseenStutters ==
  ASSUME Unseen
  PROVE  UNCHANGED Claim!vars
<1>1. \A o \in Orders : OfferedTo(o)' = OfferedTo(o)
  BY DEF Unseen, OfferedTo
<1> QED BY <1>1 DEF Unseen, Claim!vars

LEMMA InsertOffers ==
  ASSUME IInv, NEW s \in Slots, BroadcastInsert(s)
  PROVE  [Claim!Next]_Claim!vars
<1> DEFINE x == req[s]
<1>1. x \in Requests /\ RequestOK(x) /\ x.pc = "insert" /\ UNCHANGED <<order, charges>>
  BY DEF IInv, RequestsOK, BroadcastInsert, At
<1>2. PICK o \in Orders : o = x.order
  <2> HIDE DEF x
  <2> QED BY <1>1 DEF RequestOK, Routed, BroadcastLabels
<1>3. CASE UNCHANGED asg
  BY <1>1, <1>3, UnseenStutters DEF Unseen
<1>4. ASSUME NEW d \in x.cands, NEW a \in Free,
             asg' = [asg EXCEPT ![a] = [status |-> "PENDING", order |-> x.order, driver |-> d]]
      PROVE  Claim!Next
  <2> HIDE DEF x
  <2>1. d \in Drivers /\ a \in Rows /\ asg[a] = NoRow
    BY <1>1, <1>4 DEF Requests, Free, IInv, DataOK, RowsNamed
  <2>2. /\ \A b \in Rows : b # a => asg'[b] = asg[b]
        /\ asg'[a].order = o /\ asg'[a].driver = d
        /\ asg[a].order = None
    BY <1>2, <1>4, <2>1 DEF IInv, DataOK, TablesTyped, NoRow
  <2>3. ASSUME NEW p \in Orders, NEW e
        PROVE  e \in OfferedTo(p)' <=> e \in OfferedTo(p) \/ (p = o /\ e = d)
    <3>1. asg[a].order # p
      BY <2>2, NoneAssumption
    <3>2. (\E b \in Rows : asg'[b].order = p /\ asg'[b].driver = e)
            <=> \/ \E b \in Rows : asg[b].order = p /\ asg[b].driver = e
                \/ p = o /\ e = d
      BY <2>1, <2>2, <3>1
    <3>3. e \in OfferedTo(p) <=> \E b \in Rows : asg[b].order = p /\ asg[b].driver = e
      BY OfferedBefore
    <3>4. e \in OfferedTo(p)' <=> \E b \in Rows : asg'[b].order = p /\ asg'[b].driver = e
      BY DEF OfferedTo
    <3> QED BY <3>2, <3>3, <3>4
  <2>4. /\ OfferedTo(o)' = OfferedTo(o) \cup {d}
        /\ \A p \in Orders : p # o => OfferedTo(p)' = OfferedTo(p)
    BY <2>3
  <2>5. Claim!Offer(o, d)
    BY <1>1, <2>4 DEF Claim!Offer
  <2> QED BY <2>1, <2>5 DEF Claim!Next
<1> QED BY <1>3, <1>4 DEF BroadcastInsert

LEMMA AcceptWins ==
  ASSUME IInv, NEW s \in Slots, AcceptCommit(s)
  PROVE  [Claim!Next]_Claim!vars
<1> DEFINE x == req[s]
<1>1. x \in Requests /\ RequestOK(x) /\ x.pc = "acceptCommit" /\ UNCHANGED charges
  BY DEF IInv, RequestsOK, AcceptCommit, At
<1>2. PICK o \in Orders, d \in Drivers, a \in Rows :
        /\ o = x.order /\ d = x.driver /\ a = x.row
        /\ asg[a].order = o /\ asg[a].driver = d
  <2> HIDE DEF x
  <2> QED BY <1>1 DEF RequestOK, Routed, RowAtHand
<1>3. CASE UNCHANGED <<order, asg, trip, op>>
  BY <1>1, <1>3, UnseenStutters DEF Unseen
<1>4. CASE ~UNCHANGED <<order, asg, trip, op>>
  <2>1. /\ TripFree(o)
        /\ order' = [order EXCEPT ![o] = [status |-> "ACCEPTED", driver |-> d]]
        /\ asg' = [b \in Rows |->
                     IF b = a THEN [asg[b] EXCEPT !.status = "ACCEPTED"]
                     ELSE IF b \in x.rows THEN [asg[b] EXCEPT !.status = "SUPERSEDED"]
                     ELSE asg[b]]
    BY <1>2, <1>4 DEF AcceptCommit
  <2>2. order[o].driver = None
    BY <2>1 DEF TripFree, IInv, DataOK, ClaimAgrees
  <2> HIDE DEF x
  <2>3. \A b \in Rows : asg'[b].order = asg[b].order /\ asg'[b].driver = asg[b].driver
    BY <2>1 DEF IInv, DataOK, TablesTyped
  <2>4. \A p \in Orders : OfferedTo(p)' = OfferedTo(p)
    BY <2>3 DEF OfferedTo
  <2>5. d \in OfferedTo(o)
    BY <1>2 DEF OfferedTo
  <2>6. \A p \in Orders : order'[p].driver = IF p = o THEN d ELSE order[p].driver
    BY <2>1 DEF IInv, DataOK, TablesTyped
  <2>7. Claim!Win(o, d)
    BY <1>1, <2>2, <2>4, <2>5, <2>6 DEF Claim!Win
  <2> QED BY <2>7 DEF Claim!Next
<1> QED BY <1>3, <1>4

LEMMA CompleteCharges ==
  ASSUME IInv, NEW s \in Slots, CompleteCommit(s)
  PROVE  [Claim!Next]_Claim!vars
<1> DEFINE x == req[s]
<1>1. x \in Requests /\ RequestOK(x) /\ x.pc = "completeCommit"
  BY DEF IInv, RequestsOK, CompleteCommit, At
<1>2. PICK o \in Orders : o = x.order /\ order[o].driver # None
  <2> HIDE DEF x
  <2> QED BY <1>1 DEF RequestOK, Routed, TripOfWonOrder, WritesTrip, TripLabels
<1>3. /\ order' = [order EXCEPT ![o].status = "COMPLETED"]
      /\ charges' = [charges EXCEPT ![o] = @ + 1] /\ UNCHANGED asg
  BY <1>2 DEF CompleteCommit
<1>4. \A p \in Orders : OfferedTo(p)' = OfferedTo(p) /\ order'[p].driver = order[p].driver
  BY <1>3 DEF OfferedTo, IInv, DataOK, TablesTyped
<1>5. charges'[o] > 0 /\ \A p \in Orders : p # o => charges'[p] = charges[p]
  BY <1>3 DEF IInv
<1>6. Claim!Charge(o)
  BY <1>2, <1>4, <1>5 DEF Claim!Charge
<1> QED BY <1>6 DEF Claim!Next

(* Racing accepts, re-broadcasts, cancellations and completions implement    *)
(* OrderClaim: an order is won once, by a driver it was offered to, and      *)
(* only a won order is charged.                                            *)
THEOREM ClaimRefined == Spec => ClaimImplemented
<1>1. Init => Claim!Init
  <2> SUFFICES ASSUME Init
               PROVE  Claim!Init
    OBVIOUS
  <2>1. \A o \in Orders : /\ OfferedTo(o) = {} /\ order[o].driver = None
                          /\ (charges[o] > 0) = FALSE
    BY NoneAssumption DEF Init, NoRow, NoOrder, OfferedTo
  <2> QED BY <2>1 DEF Claim!Init
<1>2. IInv /\ [Next]_vars => [Claim!Next]_Claim!vars
  <2> SUFFICES ASSUME IInv, [Next]_vars
               PROVE  [Claim!Next]_Claim!vars
    OBVIOUS
  <2>1. TypeOK
    BY DEF IInv, DataOK, TablesTyped, DriversTyped, RequestsOK, TypeOK
  <2> QED
    BY <2>1, UnseenSteps, UnseenStutters, InsertOffers, AcceptWins, CompleteCharges DEF Seen
<1> QED BY <1>1, <1>2, Inductive, PTL DEF Spec, ClaimImplemented, Claim!Spec

-----------------------------------------------------------------------------
(* Commission is charged only for trips that reached the pickup, and for   *)
(* every completed one.                                                    *)
(*                                                                         *)
(* ChargedAfterPickup is not inductive: a request that checked the trip    *)
(* charges later.  PickedUp adds what such a request relies on.  It is     *)
(* inductive because a trip that reached the pickup stays so: a trip is    *)
(* created once, and no handler clears waitingStartedAt.                   *)

(* A passenger is on board only where the driver has arrived.               *)
OnboardAfterPickup ==
  \A o \in Orders : order[o].status = "PASSENGER_ONBOARD" => trip[o].arrived

(* A request about to start or complete a trip is at one that reached the   *)
(* pickup, and a cancellation does not write COMPLETED.                     *)
Reached(r) == r.pc \in {"startCommit", "completeCommit"} => trip[r.order].arrived
Cancels(r) == r.pc \in CancelLabels => r.handler # "COMPLETED"
RequestsReached == \A s \in Slots : Reached(req[s]) /\ Cancels(req[s])

PickedUp == ChargedAfterPickup /\ OnboardAfterPickup /\ RequestsReached

-----------------------------------------------------------------------------
(* Steps that neither move an order on board or to its end, nor charge.     *)

(* What such a step leaves of orders, trips and charges.                    *)
Quiet ==
  /\ charges' = charges
  /\ \A o \in Orders :
       /\ trip[o].arrived => trip'[o].arrived
       /\ trip'[o].status = "COMPLETED" => trip[o].status = "COMPLETED"
       /\ order'[o].status \in {"PASSENGER_ONBOARD", "COMPLETED"} =>
            order[o].status = order'[o].status

LEMMA QuietTables ==
  ASSUME ChargedAfterPickup, OnboardAfterPickup, Quiet
  PROVE  ChargedAfterPickup' /\ OnboardAfterPickup'
BY DEF ChargedAfterPickup, OnboardAfterPickup, Quiet

(* A request that waits keeps what it relies on.                           *)
LEMMA OthersReached ==
  ASSUME IInv, RequestsReached, \A o \in Orders : trip[o].arrived => trip'[o].arrived,
         NEW t \in Slots, req'[t] = req[t]
  PROVE  (Reached(req[t]) /\ Cancels(req[t]))'
<1>1. req[t].pc \in {"startCommit", "completeCommit"} => req[t].order \in Orders
  <2>1. PICK r \in Requests : r = req[t] /\ RequestOK(r)
    BY DEF IInv, RequestsOK
  <2>2. r.pc \in {"startCommit", "completeCommit"} => r.handler # "offer"
    BY <2>1 DEF RequestOK, Routed
  <2> QED BY <2>1, <2>2 DEF RequestOK, Routed
<1> QED BY <1>1 DEF RequestsReached, Reached, Cancels

(* A quiet step after which its own request is in order too.               *)
LEMMA QuietStep ==
  ASSUME IInv, PickedUp, Quiet, NEW s \in Slots, NEW r, Goto(s, r),
         r.pc \in {"startCommit", "completeCommit"} => trip'[r.order].arrived, Cancels(r)
  PROVE  PickedUp'
<1>1. req' = [req EXCEPT ![s] = r] /\ req \in [Slots -> Requests]
  BY DEF Goto, IInv, RequestsOK
<1>2. ASSUME NEW t \in Slots
      PROVE  (Reached(req[t]) /\ Cancels(req[t]))'
  <2>1. CASE t = s
    BY <1>1, <2>1 DEF Reached, Cancels
  <2>2. CASE t # s
    <3>1. req'[t] = req[t]
      BY <1>1, <2>2
    <3> QED BY <3>1, OthersReached DEF PickedUp, Quiet
  <2> QED BY <2>1, <2>2
<1> QED BY <1>2, QuietTables DEF PickedUp, RequestsReached

LEMMA QuietFinish ==
  ASSUME IInv, PickedUp, Quiet, NEW s \in Slots, Finish(s)
  PROVE  PickedUp'
BY IdleOK, QuietStep DEF Finish, Idle, Cancels, CancelLabels

(* A write that ends its request and takes no trip back from the pickup.    *)
LEMMA WriteFinishes ==
  ASSUME IInv, RequestsReached, ChargedAfterPickup', OnboardAfterPickup',
         \A o \in Orders : trip'[o].arrived = trip[o].arrived, NEW s \in Slots, Finish(s)
  PROVE  PickedUp'
<1>1. req' = [req EXCEPT ![s] = Idle] /\ req \in [Slots -> Requests]
  BY DEF Finish, Goto, IInv, RequestsOK
<1>2. ASSUME NEW t \in Slots
      PROVE  (Reached(req[t]) /\ Cancels(req[t]))'
  <2>1. CASE t = s
    BY <1>1, <2>1 DEF Reached, Cancels, Idle, CancelLabels
  <2>2. CASE t # s
    <3>1. req'[t] = req[t]
      BY <1>1, <2>2
    <3> QED BY <3>1, OthersReached
  <2> QED BY <2>1, <2>2
<1> QED BY <1>2 DEF PickedUp, RequestsReached

LEMMA ReadsAreQuiet ==
  ASSUME UNCHANGED <<order, trip, charges>>
  PROVE  Quiet
BY DEF Quiet

(* A statement that leaves orders, trips and charges alone, on the way to    *)
(* one that is no part of a cancellation either.                           *)
LEMMA ReadStepPickedUp ==
  ASSUME IInv, PickedUp, UNCHANGED <<order, trip, charges>>, NEW s \in Slots,
         NEW r, Goto(s, r), r.pc \notin {"startCommit", "completeCommit"} \cup CancelLabels
  PROVE  PickedUp'
BY ReadsAreQuiet, QuietStep DEF Cancels

-----------------------------------------------------------------------------
(* Arrivals.                                                               *)

LEMMA ResumePickedUp ==
  ASSUME NEW r \in Requests, r.handler \in {"broadcast", "offer", "accept", "reject"}
  PROVE  /\ Resume(r) \in Requests
         /\ Resume(r).pc \notin {"startCommit", "completeCommit"} \cup CancelLabels
<1>1. CASE r.handler = "offer"
  BY <1>1, IdleOK DEF Resume, Idle, CancelLabels
<1>2. CASE r.handler # "offer"
  <2> DEFINE q == [r EXCEPT !.pc = r.handler, !.row = None]
  <2>1. q \in Requests /\ q.pc = r.handler
    BY <1>2 DEF Requests, Labels
  <2> QED BY <1>2, <2>1 DEF Resume, CancelLabels
<1> QED BY <1>1, <1>2

LEMMA ExpireStalePickedUp ==
  ASSUME IInv, PickedUp, NEW s \in Slots,
         NEW h \in {"broadcast", "offer", "accept", "reject"}, NEW o \in Orders \cup {None},
         NEW d \in Drivers \cup {None}, ExpireStale(s, h, o, d)
  PROVE  PickedUp'
<1> DEFINE r == [Idle EXCEPT !.handler = h, !.order = o, !.driver = d, !.rows = Stale]
           q == [r EXCEPT !.pc = "expire"]
<1>1. r \in Requests /\ r.handler = h /\ q \in Requests /\ q.pc = "expire"
  BY DEF Idle, Requests, Labels, Stale
<1>2. /\ Goto(s, IF Stale = {} THEN Resume(r) ELSE q)
      /\ UNCHANGED <<order, asg, trip, op, acct, charges>>
  BY DEF ExpireStale
<1> HIDE DEF r, q
<1>3. CASE Stale = {}
  BY <1>1, <1>2, <1>3, ResumePickedUp, ReadStepPickedUp
<1>4. CASE Stale # {}
  BY <1>1, <1>2, <1>4, ReadStepPickedUp DEF CancelLabels
<1> QED BY <1>3, <1>4

LEMMA CheckedPickedUp ==
  ASSUME IInv, PickedUp, NEW s \in Slots, NEW h, NEW o \in Orders,
         NEW label \in CancelLabels \cup TripLabels, NEW target \in Terminal \cup {"none"},
         Checked(s, h, o, label, target),
         label \in {"startCommit", "completeCommit"} => trip[o].arrived,
         label \in CancelLabels => target # "COMPLETED"
  PROVE  PickedUp'
<1> DEFINE r == [Idle EXCEPT !.handler = target, !.pc = label, !.order = o]
<1>1. r \in Requests /\ r.pc = label /\ r.handler = target /\ r.order = o
  BY DEF Idle, Requests, Labels, CancelLabels, TripLabels, Terminal
<1>2. Goto(s, r) /\ UNCHANGED <<order, asg, trip, op, acct, charges>>
  BY DEF Checked
<1> HIDE DEF r
<1> QED BY <1>1, <1>2, ReadsAreQuiet, QuietStep DEF Cancels

LEMMA ArrivalPickedUp ==
  ASSUME IInv, PickedUp, NEW s \in Slots, Arrival(s)
  PROVE  PickedUp'
<1>1. ASSUME NEW o \in Orders, BroadcastOrder(s, o)
      PROVE  PickedUp'
  BY <1>1, ExpireStalePickedUp DEF BroadcastOrder
<1>2. ASSUME NEW d \in Drivers, GetCurrentOffer(s, d)
      PROVE  PickedUp'
  BY <1>2, ExpireStalePickedUp DEF GetCurrentOffer
<1>3. ASSUME NEW o \in Orders, NEW d \in Drivers, AcceptOrder(s, o, d) \/ RejectOrder(s, o, d)
      PROVE  PickedUp'
  BY <1>3, ExpireStalePickedUp DEF AcceptOrder, RejectOrder
<1>4. ASSUME NEW o \in Orders, CancelByOperator(s, o)
      PROVE  PickedUp'
  <2> DEFINE r == CancelOpened(o, "CANCELLED_BY_OPERATOR")
  <2>1. Goto(s, r) /\ UNCHANGED <<order, trip, charges>>
    BY <1>4 DEF CancelByOperator
  <2>2. r \in Requests
    BY CancelOpenedOK DEF Terminal
  <2>3. r.pc = "cancelPending" /\ r.handler = "CANCELLED_BY_OPERATOR"
    BY DEF CancelOpened, Idle
  <2> HIDE DEF r
  <2> QED BY <2>1, <2>2, <2>3, ReadsAreQuiet, QuietStep DEF Cancels
<1>5. ASSUME NEW o \in Orders,
             CancelByDriver(s, o) \/ MarkPassengerNoShow(s, o) \/ ResolveDisputeCancel(s, o)
      PROVE  PickedUp'
  BY <1>5, CheckedPickedUp
  DEF CancelByDriver, MarkPassengerNoShow, ResolveDisputeCancel, CancelLabels, TripLabels, Terminal
<1>6. ASSUME NEW o \in Orders,
             MarkPickupArrived(s, o) \/ StartTrip(s, o) \/ OpenDispute(s, o)
      PROVE  PickedUp'
  BY <1>6, CheckedPickedUp DEF MarkPickupArrived, StartTrip, OpenDispute, CancelLabels, TripLabels
<1>7. ASSUME NEW o \in Orders, CompleteTrip(s, o) \/ ResolveDisputeComplete(s, o)
      PROVE  PickedUp'
  <2>1. trip[o].arrived
    BY <1>7 DEF CompleteTrip, ResolveDisputeComplete, Completable, PickedUp, OnboardAfterPickup
  <2> QED
    BY <1>7, <2>1, CheckedPickedUp
    DEF CompleteTrip, ResolveDisputeComplete, CancelLabels, TripLabels
<1>8. ASSUME NEW d \in Drivers, GoOnline(s, d) \/ GoOffline(s, d)
      PROVE  PickedUp'
  <2>1. PICK label \in {"online", "offline"} : Goto(s, [Idle EXCEPT !.pc = label, !.driver = d])
    BY <1>8 DEF GoOnline, GoOffline
  <2>2. UNCHANGED <<order, trip, charges>>
    BY <1>8 DEF GoOnline, GoOffline
  <2> DEFINE r == [Idle EXCEPT !.pc = label, !.driver = d]
  <2>3. r \in Requests /\ r.pc = label
    BY DEF Idle, Requests, Labels
  <2> HIDE DEF r
  <2>4. Goto(s, r)
    BY <2>1 DEF r
  <2> QED BY <2>2, <2>3, <2>4, ReadStepPickedUp DEF CancelLabels
<1> QED BY <1>1, <1>2, <1>3, <1>4, <1>5, <1>6, <1>7, <1>8 DEF Arrival

-----------------------------------------------------------------------------
(* Requests in flight.                                                     *)

(* The statements about offers and drivers.                                *)
LEMMA StatementPickedUp ==
  ASSUME IInv, PickedUp, NEW s \in Slots,
         \/ ExpireRow(s) \/ ExpireDriver(s) \/ BroadcastReadOrder(s) \/ BroadcastFindPending(s)
         \/ BroadcastSupersede(s) \/ BroadcastRelease(s) \/ BroadcastSelect(s)
         \/ BroadcastInsert(s) \/ BroadcastMarkOffered(s) \/ AcceptReadOrder(s)
         \/ AcceptReadOffer(s) \/ AcceptReadRivals(s) \/ RejectFind(s) \/ RejectRow(s)
         \/ RejectDriver(s) \/ PresenceWrite(s)
  PROVE  PickedUp'
<1> DEFINE x == req[s]
           labels == {"expire", "expireDriver", "findPending", "supersede", "supersedeDriver",
                      "select", "insert", "markOffered", "markBroadcasted", "acceptOffer",
                      "acceptRivals", "acceptCommit", "rejectRow", "rejectDriver"}
<1>1. x \in Requests /\ RequestOK(x)
  BY DEF IInv, RequestsOK
<1>2. UNCHANGED <<order, trip, charges>>
  BY DEF ExpireRow, ExpireDriver, BroadcastReadOrder, BroadcastFindPending, BroadcastSupersede,
         BroadcastRelease, BroadcastSelect, BroadcastInsert, BroadcastMarkOffered, AcceptReadOrder,
         AcceptReadOffer, AcceptReadRivals, RejectFind, RejectRow, RejectDriver, PresenceWrite
<1>3. CASE Finish(s)
  BY <1>2, <1>3, ReadsAreQuiet, QuietFinish
<1>4. ASSUME NEW r, r.pc \in labels, Goto(s, r)
      PROVE  PickedUp'
  BY <1>2, <1>4, ReadStepPickedUp DEF CancelLabels
(* The shapes of the local updates.                                         *)
<1>5. ASSUME NEW p \in labels, NEW v,
             \/ Goto(s, [x EXCEPT !.pc = p])
             \/ Goto(s, [x EXCEPT !.pc = p, !.flag = v])
             \/ Goto(s, [x EXCEPT !.pc = p, !.row = v])
             \/ Goto(s, [x EXCEPT !.pc = p, !.rows = v])
             \/ Goto(s, [x EXCEPT !.rows = v, !.pc = p])
             \/ Goto(s, [x EXCEPT !.pc = p, !.cands = v])
             \/ Goto(s, [x EXCEPT !.pc = p, !.driver = v])
             \/ Goto(s, [x EXCEPT !.pc = p, !.row = v, !.rows = @ \ {v}])
             \/ Goto(s, [x EXCEPT !.pc = p, !.driver = v, !.cands = @ \ {v}])
      PROVE  PickedUp'
  <2> DEFINE q1 == [x EXCEPT !.pc = p]
             q2 == [x EXCEPT !.pc = p, !.flag = v]
             q3 == [x EXCEPT !.pc = p, !.row = v]
             q4 == [x EXCEPT !.pc = p, !.rows = v]
             q5 == [x EXCEPT !.rows = v, !.pc = p]
             q6 == [x EXCEPT !.pc = p, !.cands = v]
             q7 == [x EXCEPT !.pc = p, !.driver = v]
             q8 == [x EXCEPT !.pc = p, !.row = v, !.rows = @ \ {v}]
             q9 == [x EXCEPT !.pc = p, !.driver = v, !.cands = @ \ {v}]
  <2> HIDE DEF x, labels
  <2>1. /\ q1.pc = p /\ q2.pc = p /\ q3.pc = p /\ q4.pc = p /\ q5.pc = p
        /\ q6.pc = p /\ q7.pc = p /\ q8.pc = p /\ q9.pc = p
    BY <1>1 DEF Requests
  <2>2. \/ Goto(s, q1) \/ Goto(s, q2) \/ Goto(s, q3) \/ Goto(s, q4) \/ Goto(s, q5)
        \/ Goto(s, q6) \/ Goto(s, q7) \/ Goto(s, q8) \/ Goto(s, q9)
    BY <1>5
  <2> HIDE DEF q1, q2, q3, q4, q5, q6, q7, q8, q9
  <2> QED BY <1>4, <1>5, <2>1, <2>2
<1>6. CASE ExpireDriver(s)
  <2> DEFINE q == [x EXCEPT !.pc = "expire"]
  <2>1. x.pc = "expireDriver" /\ Goto(s, IF x.rows = {} THEN Resume(x) ELSE q)
    BY <1>6 DEF ExpireDriver, At
  <2>2. x.handler \in {"broadcast", "offer", "accept", "reject"}
    BY <1>1, <2>1 DEF RequestOK, Routed
  <2>3. CASE x.rows = {}
    BY <1>1, <1>2, <2>1, <2>2, <2>3, ResumePickedUp, ReadStepPickedUp
  <2>4. CASE x.rows # {}
    BY <1>5, <2>1, <2>4
  <2> QED BY <2>3, <2>4
<1>7. CASE ExpireRow(s)
  BY <1>5, <1>7 DEF ExpireRow
<1>8. CASE BroadcastReadOrder(s)
  BY <1>3, <1>5, <1>8 DEF BroadcastReadOrder
<1>9. CASE BroadcastFindPending(s)
  BY <1>5, <1>9 DEF BroadcastFindPending
<1>10. CASE BroadcastSupersede(s)
  BY <1>5, <1>10 DEF BroadcastSupersede
<1>11. CASE BroadcastRelease(s)
  BY <1>5, <1>11 DEF BroadcastRelease
<1>12. CASE BroadcastSelect(s)
  BY <1>3, <1>5, <1>12 DEF BroadcastSelect
<1>13. CASE BroadcastInsert(s)
  BY <1>3, <1>5, <1>13 DEF BroadcastInsert
<1>14. CASE BroadcastMarkOffered(s)
  BY <1>3, <1>5, <1>14 DEF BroadcastMarkOffered
<1>15. CASE AcceptReadOrder(s)
  BY <1>3, <1>5, <1>15 DEF AcceptReadOrder
<1>16. CASE AcceptReadOffer(s)
  BY <1>3, <1>5, <1>16 DEF AcceptReadOffer
<1>17. CASE AcceptReadRivals(s)
  BY <1>5, <1>17 DEF AcceptReadRivals
<1>18. CASE RejectFind(s)
  BY <1>3, <1>5, <1>18 DEF RejectFind
<1>19. CASE RejectRow(s)
  BY <1>5, <1>19 DEF RejectRow
<1>20. CASE RejectDriver(s) \/ PresenceWrite(s)
  BY <1>3, <1>20 DEF RejectDriver, PresenceWrite
<1> QED BY <1>6, <1>7, <1>8, <1>9, <1>10, <1>11, <1>12, <1>13, <1>14, <1>15, <1>16, <1>17,
           <1>18, <1>19, <1>20

(* The other steps of a request, each by what it writes.                   *)
LEMMA CancelPickedUp ==
  ASSUME IInv, PickedUp, NEW s \in Slots,
         CancelRead(s) \/ CancelReadPending(s) \/ CancelCommit(s)
  PROVE  PickedUp'
<1> DEFINE x == req[s]
<1>1. x \in Requests /\ RequestOK(x) /\ Cancels(x)
  BY DEF IInv, RequestsOK, PickedUp, RequestsReached
<1>2. /\ x.pc \in CancelLabels /\ x.order \in Orders
      /\ x.handler \in Terminal /\ x.handler # "COMPLETED"
  <2>1. x.pc \in CancelLabels
    BY DEF CancelRead, CancelReadPending, CancelCommit, At, CancelLabels
  <2>2. x.handler \in Terminal /\ x.handler # "COMPLETED"
    BY <1>1, <2>1 DEF RequestOK, Routed, Cancels
  <2> QED BY <1>1, <2>1, <2>2 DEF RequestOK, Routed, CancelLabels, Terminal
<1>3. CASE CancelRead(s)
  <2> DEFINE q == CancelOpened(x.order, x.handler)
  <2>1. UNCHANGED <<order, trip, charges>> /\ (Goto(s, q) \/ Finish(s))
    BY <1>3 DEF CancelRead
  <2>2. q.pc = "cancelPending" /\ q.handler = x.handler
    BY DEF CancelOpened, Idle
  <2> HIDE DEF q, x
  <2> QED BY <1>2, <2>1, <2>2, ReadsAreQuiet, QuietStep, QuietFinish DEF Cancels
<1>4. CASE CancelReadPending(s)
  <2> DEFINE q == [x EXCEPT !.pc = "cancelCommit", !.rows = Pending(x.order)]
  <2>1. UNCHANGED <<order, trip, charges>> /\ Goto(s, q)
    BY <1>4 DEF CancelReadPending
  <2> HIDE DEF x
  <2>2. q.pc = "cancelCommit" /\ q.handler = x.handler
    BY <1>1 DEF Requests
  <2> HIDE DEF q
  <2> QED BY <1>2, <2>1, <2>2, ReadsAreQuiet, QuietStep DEF Cancels
<1>5. CASE CancelCommit(s)
  <2>1. /\ Finish(s) /\ charges' = charges
        /\ trip' = [trip EXCEPT ![x.order].status = IF x.flag THEN "CANCELLED" ELSE @]
        /\ order' = [order EXCEPT ![x.order].status = x.handler]
    BY <1>5 DEF CancelCommit
  <2> HIDE DEF x
  <2>2. x.handler \notin {"PASSENGER_ONBOARD", "COMPLETED"}
    BY <1>2 DEF Terminal
  <2>3. Quiet
    BY <1>2, <2>1, <2>2 DEF IInv, DataOK, TablesTyped, Quiet
  <2> QED BY <2>1, <2>3, QuietFinish
<1> QED BY <1>3, <1>4, <1>5

LEMMA CommitPickedUp ==
  ASSUME IInv, PickedUp, NEW s \in Slots,
         BroadcastMark(s) \/ AcceptCommit(s) \/ ArriveCommit(s) \/ DisputeCommit(s)
  PROVE  PickedUp'
<1> DEFINE x == req[s]
<1>1. x \in Requests /\ RequestOK(x)
  BY DEF IInv, RequestsOK
<1>2. Finish(s) /\ charges' = charges
  BY DEF BroadcastMark, AcceptCommit, ArriveCommit, DisputeCommit
<1>3. order \in [Orders -> [status : OrderStatus, driver : Drivers \cup {None}]]
  BY DEF IInv, DataOK, TablesTyped
<1>4. trip \in [Orders -> [status : TripStatus, driver : Drivers \cup {None}, arrived : BOOLEAN]]
  BY DEF IInv, DataOK, TablesTyped
<1>5. CASE BroadcastMark(s)
  BY <1>2, <1>3, <1>4, <1>5, QuietFinish DEF BroadcastMark, Quiet
<1>6. CASE AcceptCommit(s)
  <2>1. CASE UNCHANGED <<order, trip>>
    BY <1>2, <2>1, ReadsAreQuiet, QuietFinish
  <2>2. CASE /\ TripFree(x.order)
             /\ order' = [order EXCEPT ![x.order] = [status |-> "ACCEPTED", driver |-> x.driver]]
             /\ trip' = [trip EXCEPT ![x.order] = [status |-> "NOT_STARTED", driver |-> x.driver,
                                                   arrived |-> FALSE]]
    <3> HIDE DEF x
    <3>1. ~NoTrip.arrived
      BY DEF NoTrip
    <3>2. Quiet
      BY <1>2, <1>3, <1>4, <2>2, <3>1 DEF TripFree, Quiet
    <3> QED BY <1>2, <3>2, QuietFinish
  <2> QED BY <1>6, <2>1, <2>2 DEF AcceptCommit
<1>7. CASE ArriveCommit(s)
  BY <1>2, <1>3, <1>4, <1>7, QuietFinish DEF ArriveCommit, Quiet
<1>8. CASE DisputeCommit(s)
  BY <1>2, <1>3, <1>4, <1>8, QuietFinish DEF DisputeCommit, Quiet
<1> QED BY <1>5, <1>6, <1>7, <1>8

LEMMA StartPickedUp ==
  ASSUME IInv, PickedUp, NEW s \in Slots, StartCommit(s)
  PROVE  PickedUp'
<1> DEFINE x == req[s]
<1>1. x.pc = "startCommit" /\ Reached(x) /\ RequestOK(x)
  BY DEF StartCommit, At, PickedUp, RequestsReached, IInv, RequestsOK
<1>2. x.order \in Orders /\ trip[x.order].arrived
  <2>1. x.handler # "offer"
    BY <1>1 DEF RequestOK, Routed
  <2> QED BY <1>1, <2>1 DEF Reached, RequestOK, Routed
<1>3. /\ Finish(s) /\ charges' = charges
      /\ trip' = [trip EXCEPT ![x.order].status = "ACTIVE"]
      /\ order' = [order EXCEPT ![x.order].status = "PASSENGER_ONBOARD"]
  BY DEF StartCommit
<1> HIDE DEF x
<1>4. \A o \in Orders :
        /\ trip'[o].arrived = trip[o].arrived
        /\ trip'[o].status = "COMPLETED" => trip[o].status = "COMPLETED"
        /\ order'[o].status = "COMPLETED" => order[o].status = "COMPLETED"
        /\ order'[o].status = "PASSENGER_ONBOARD" =>
             order[o].status = "PASSENGER_ONBOARD" \/ o = x.order
  BY <1>2, <1>3 DEF IInv, DataOK, TablesTyped
<1>5. ChargedAfterPickup' /\ OnboardAfterPickup'
  BY <1>2, <1>3, <1>4 DEF PickedUp, ChargedAfterPickup, OnboardAfterPickup
<1> QED BY <1>3, <1>4, <1>5, WriteFinishes DEF PickedUp

LEMMA CompletePickedUp ==
  ASSUME IInv, PickedUp, NEW s \in Slots, CompleteRead(s) \/ CompleteCommit(s)
  PROVE  PickedUp'
<1> DEFINE x == req[s]
<1>1. x \in Requests /\ Reached(x) /\ RequestOK(x)
  BY DEF PickedUp, RequestsReached, IInv, RequestsOK
<1>2. x.pc \in TripLabels /\ x.order \in Orders
  <2>1. x.pc \in {"completeRead", "completeCommit"}
    BY DEF CompleteRead, CompleteCommit, At
  <2>2. x.handler # "offer"
    BY <1>1, <2>1 DEF RequestOK, Routed
  <2> QED BY <1>1, <2>1, <2>2 DEF RequestOK, Routed, TripLabels
<1>3. CASE CompleteRead(s)
  <2> DEFINE q == [x EXCEPT !.pc = "completeCommit"]
  <2>1. UNCHANGED <<order, trip, charges>>
    BY <1>3 DEF CompleteRead
  <2>2. CASE Finish(s)
    BY <2>1, <2>2, ReadsAreQuiet, QuietFinish
  <2>3. CASE Goto(s, q) /\ Completable(x.order, {"ACTIVE", "DISPUTED"})
    <3>1. trip'[x.order].arrived
      BY <1>2, <2>1, <2>3 DEF Completable, PickedUp, OnboardAfterPickup
    <3> HIDE DEF x
    <3>2. q.pc = "completeCommit" /\ q.order = x.order
      BY <1>1 DEF Requests
    <3> HIDE DEF q
    <3> QED BY <2>1, <2>3, <3>1, <3>2, ReadsAreQuiet, QuietStep DEF Cancels, CancelLabels
  <2> QED BY <1>3, <2>2, <2>3 DEF CompleteRead
<1>4. CASE CompleteCommit(s)
  <2>1. /\ x.pc = "completeCommit" /\ Finish(s)
        /\ trip' = [trip EXCEPT ![x.order].status = "COMPLETED"]
        /\ order' = [order EXCEPT ![x.order].status = "COMPLETED"]
        /\ charges' = [charges EXCEPT ![x.order] = @ + 1]
    BY <1>4 DEF CompleteCommit, At
  <2> HIDE DEF x
  <2>2. trip[x.order].arrived
    BY <1>1, <2>1 DEF Reached
  <2>3. \A o \in Orders :
          /\ trip'[o].arrived = trip[o].arrived
          /\ o = x.order => charges'[o] > 0
          /\ o # x.order =>
               /\ trip'[o].status = trip[o].status
               /\ order'[o].status = order[o].status
               /\ charges'[o] = charges[o]
          /\ order'[o].status = "PASSENGER_ONBOARD" => order[o].status = "PASSENGER_ONBOARD"
    BY <1>2, <2>1 DEF IInv, DataOK, TablesTyped
  <2>4. ChargedAfterPickup' /\ OnboardAfterPickup'
    BY <2>2, <2>3 DEF PickedUp, ChargedAfterPickup, OnboardAfterPickup
  <2> QED BY <2>1, <2>3, <2>4, WriteFinishes DEF PickedUp
<1> QED BY <1>3, <1>4

LEMMA ServePickedUp ==
  ASSUME IInv, PickedUp, NEW s \in Slots, Serve(s)
  PROVE  PickedUp'
BY StatementPickedUp, CancelPickedUp, CommitPickedUp, StartPickedUp, CompletePickedUp DEF Serve

-----------------------------------------------------------------------------
(* The world around the requests.                                          *)
LEMMA EnvironmentPickedUp ==
  ASSUME IInv, PickedUp, Environment
  PROVE  PickedUp'
<1>1. ASSUME Quiet, UNCHANGED req
      PROVE  PickedUp'
  <2>1. ASSUME NEW t \in Slots
        PROVE  (Reached(req[t]) /\ Cancels(req[t]))'
    BY <1>1, <2>1, OthersReached DEF PickedUp, Quiet
  <2> QED BY <1>1, <2>1, QuietTables DEF PickedUp, RequestsReached
<1>2. ASSUME NEW o \in Orders, CreateOrder(o)
      PROVE  PickedUp'
  <2>1. Quiet
    BY <1>2 DEF CreateOrder, Quiet, IInv, DataOK, TablesTyped
  <2> QED BY <1>1, <1>2, <2>1 DEF CreateOrder
<1>3. CASE \/ \E d \in Drivers : SuspendDriver(d) \/ ReactivateDriver(d)
           \/ \E a \in Rows : Lapse(a)
  BY <1>1, <1>3, ReadsAreQuiet DEF SuspendDriver, ReactivateDriver, Lapse
<1>4. ASSUME NEW s \in Slots, Abort(s)
      PROVE  PickedUp'
  BY <1>4, ReadsAreQuiet, QuietFinish DEF Abort
<1> QED BY <1>2, <1>3, <1>4 DEF Environment

-----------------------------------------------------------------------------
(* Commission is charged only for trips whose driver reported arrival at    *)
(* the pickup, and every order and trip that reads COMPLETED was charged:   *)
(* no race of arrival, start, dispute, completion and cancellation bills a  *)
(* ride that never began or closes one as completed for free.               *)
THEOREM ChargedOnlyAfterPickup == Spec => []ChargedAfterPickup
<1>1. Init => PickedUp
  BY DEF Init, PickedUp, ChargedAfterPickup, OnboardAfterPickup, RequestsReached, Reached, Cancels,
         NoOrder, NoTrip, Idle, CancelLabels
<1>2. IInv /\ PickedUp /\ [Next]_vars => PickedUp'
  <2> SUFFICES ASSUME IInv, PickedUp, [Next]_vars
               PROVE  PickedUp'
    OBVIOUS
  <2>1. CASE Next
    BY <2>1, ArrivalPickedUp, ServePickedUp, EnvironmentPickedUp DEF Next
  <2>2. CASE UNCHANGED vars
    BY <2>2 DEF vars, PickedUp, ChargedAfterPickup, OnboardAfterPickup, RequestsReached, Reached,
                Cancels
  <2> QED BY <2>1, <2>2
<1>3. PickedUp => ChargedAfterPickup
  BY DEF PickedUp
<1> QED BY <1>1, <1>2, <1>3, Inductive, PTL DEF Spec

=============================================================================
