----------------------------- MODULE Settlement -----------------------------
(***************************************************************************)
(* Monthly settlements: what each driver owes the platform for the trips   *)
(* that ended in a month.  An administrator syncs a period, now or later,  *)
(* as often as wanted: the trips are summed in one query, then one row     *)
(* after another is written.  An administrator confirms a row.             *)
(***************************************************************************)
EXTENDS Integers

CONSTANTS
  Payers,       (* drivers                                                  *)
  Trips,        (* a bound                                                  *)
  Closers,      (* requests on trips that may be in flight at once          *)
  Syncs,        (* administrators' requests that may be                     *)
  LastMonth,    (* bound: months are 1..LastMonth + 1                       *)
  MaxDue,       (* bound: commission rows that a trip still open may have   *)
  Commissions,  (* what a completion may charge                             *)
  NoSettlement  (* a row that is not there                                  *)

ASSUME SettlementAssumption ==
  LastMonth \in Nat /\ Commissions \subseteq Nat

Sums == [trips : Int, due : Int]
Rows == [sum : Sums, status : {"PENDING", "CONFIRMED"}]
ASSUME NoSettlementAssumption == NoSettlement \notin Rows

VARIABLES
  thisMonth,    (* the month it is                                          *)
  trip,         (* a trip's status, the month of its endedAt, its           *)
                (* commission rows; OPEN is any status but the two others   *)
  finishing,    (* requests that have checked that a trip is open, and      *)
                (* taken the time, but not committed                        *)
  ended,        (* what the completed trips of a driver and month add up to *)
  settlement,   (* DriverMonthSettlement rows, by driver and period         *)
  sync,         (* requests                                                 *)
  agreed,       (* history: what a row said when it was last confirmed      *)
  settled,      (* history: periods that a sync has gone through which      *)
                (* began when they were over, with no completion under way  *)
  crossed,      (* history: periods of which two syncs overlapped           *)
  undone        (* history: drivers and periods that a completed trip was   *)
                (* taken out of                                             *)

settlementVars ==
  <<thisMonth, trip, finishing, ended, settlement, sync, agreed, settled, crossed, undone>>

Periods  == 1..LastMonth
Statuses == {"OPEN", "COMPLETED", "CANCELLED"}
Zero     == [trips |-> 0, due |-> 0]
NoSync   == [pc |-> "idle", period |-> 0, items |-> {}, whole |-> FALSE]

Counts(r, p)  == r.status = "COMPLETED" /\ r.month = p
Counted(r, p) == IF Counts(r, p) THEN [trips |-> 1, due |-> r.due] ELSE Zero
Completing(p) == \E f \in finishing : f.to = "COMPLETED" /\ f.month = p

(* completeTrip, cancelOrder, openDispute and startTrip read the trip and   *)
(* refuse a closed one,                                                     *)
TakeEndedAt(k, t) ==
  /\ trip[t].status = "OPEN" /\ trip[t].due <= MaxDue
  /\ ~\E f \in finishing : f.by = k
  /\ \E to \in Statuses :
       finishing' = finishing \cup {[by |-> k, trip |-> t, to |-> to,
                                       month |-> IF to = "COMPLETED" THEN thisMonth ELSE 0]}
  /\ UNCHANGED <<thisMonth, trip, ended, settlement, sync, agreed, settled, crossed, undone>>

(* then write it by its id, whatever it has become.  A second completion    *)
(* moves endedAt and adds a second commission row.                          *)
Written(r, f, c) ==
  IF f.to = "COMPLETED"
  THEN [r EXCEPT !.status = f.to, !.month = f.month, !.due = @ + c]
  ELSE [r EXCEPT !.status = f.to]

Left(old, new) == {p \in Periods : Counts(old, p) /\ ~Counts(new, p)}
Resummed(sums, old, new) ==
  [p \in Periods |->
     [trips |-> sums[p].trips - Counted(old, p).trips + Counted(new, p).trips,
      due   |-> sums[p].due - Counted(old, p).due + Counted(new, p).due]]

CommitEnded(f) ==
  /\ finishing' = finishing \ {f}
  /\ \E c \in Commissions :
       LET old == trip[f.trip]
           new == Written(old, f, c)
       IN  /\ trip' = [trip EXCEPT ![f.trip] = new]
           /\ ended' = [ended EXCEPT ![old.driver] = Resummed(@, old, new)]
           /\ undone' = undone \cup ({old.driver} \X Left(old, new))
  /\ UNCHANGED <<thisMonth, settlement, sync, agreed, settled, crossed>>

(* Its transaction fails.                                                   *)
EndedFails(f) ==
  /\ finishing' = finishing \ {f}
  /\ UNCHANGED <<thisMonth, trip, ended, settlement, sync, agreed, settled, crossed, undone>>

MonthPasses ==
  /\ thisMonth <= LastMonth
  /\ thisMonth' = thisMonth + 1
  /\ UNCHANGED <<trip, finishing, ended, settlement, sync, agreed, settled, crossed, undone>>

(* commissionMonthlyByPeriod: the drivers with a trip in the month and      *)
(* their sums.                                                              *)
ByPeriod(p) ==
  {[driver |-> d, sum |-> ended[d][p]] : d \in {x \in Payers : ended[x][p].trips > 0}}

PersistMonthlySettlements(s) ==
  /\ sync[s].pc = "idle"
  /\ \E p \in Periods :
       LET others == {x \in Syncs : sync[x].pc # "idle" /\ sync[x].period = p}
       IN  /\ sync' = [sync EXCEPT ![s] =
                 [pc |-> "rows", period |-> p, items |-> ByPeriod(p),
                  whole |-> thisMonth > p /\ others = {} /\ ~Completing(p)]]
           /\ crossed' = crossed \cup (IF others = {} THEN {} ELSE {p})
  /\ UNCHANGED <<thisMonth, trip, finishing, ended, settlement, agreed, settled, undone>>

(* Mutant: a row that exists is made pending again.                         *)
UpsertReopens(row, sum) == [sum |-> sum, status |-> "PENDING"]
Upsert(row, sum) ==
  [sum |-> sum, status |-> IF row = NoSettlement THEN "PENDING" ELSE row.status]

PersistRow(s) ==
  /\ sync[s].pc = "rows"
  /\ \E i \in sync[s].items :
       /\ settlement' = [settlement EXCEPT ![i.driver][sync[s].period] = Upsert(@, i.sum)]
       /\ sync' = [sync EXCEPT ![s].items = @ \ {i}]
  /\ UNCHANGED <<thisMonth, trip, finishing, ended, agreed, settled, crossed, undone>>

SyncDone(s) ==
  /\ sync[s].pc = "rows" /\ sync[s].items = {}
  /\ settled' = IF sync[s].whole THEN settled \cup {sync[s].period} ELSE settled
  /\ sync' = [sync EXCEPT ![s] = NoSync]
  /\ UNCHANGED <<thisMonth, trip, finishing, ended, settlement, agreed, crossed, undone>>

(* A statement fails or the process stops: the rows written stay.           *)
SyncDies(s) ==
  /\ sync[s].pc = "rows"
  /\ sync' = [sync EXCEPT ![s] = NoSync]
  /\ UNCHANGED <<thisMonth, trip, finishing, ended, settlement, agreed, settled, crossed, undone>>

ConfirmDriverMonthSettlement(d, p) ==
  /\ settlement[d][p] # NoSettlement
  /\ settlement' = [settlement EXCEPT ![d][p].status = "CONFIRMED"]
  /\ agreed' = [agreed EXCEPT ![d][p] = settlement[d][p].sum]
  /\ UNCHANGED <<thisMonth, trip, finishing, ended, sync, settled, crossed, undone>>

SettlementInit ==
  /\ thisMonth = 1 /\ finishing = {}
  /\ trip \in [Trips -> [driver : Payers, status : {"OPEN"}, month : {0}, due : {0}]]
  /\ ended = [d \in Payers |-> [p \in Periods |-> Zero]]
  /\ settlement = [d \in Payers |-> [p \in Periods |-> NoSettlement]]
  /\ sync = [s \in Syncs |-> NoSync]
  /\ agreed = [d \in Payers |-> [p \in Periods |-> Zero]]
  /\ settled = {} /\ crossed = {} /\ undone = {}

SettlementNext ==
  \/ \E k \in Closers, t \in Trips : TakeEndedAt(k, t)
  \/ \E f \in finishing : CommitEnded(f) \/ EndedFails(f)
  \/ MonthPasses
  \/ \E s \in Syncs : PersistMonthlySettlements(s) \/ PersistRow(s) \/ SyncDone(s) \/ SyncDies(s)
  \/ \E d \in Payers, p \in Periods : ConfirmDriverMonthSettlement(d, p)

SettlementSpec == SettlementInit /\ [][SettlementNext]_settlementVars

-----------------------------------------------------------------------------
(* Properties.                                                             *)

(* Once a period has been synced after its end, with no completion caught  *)
(* between its endedAt and its commit, the rows say what its trips owe,    *)
(* and go on saying it through later syncs, interrupted ones too; but for  *)
(* a driver who has lost a completed trip of the period to a cancellation, *)
(* a dispute or a second completion that had checked it before: no sync    *)
(* withdraws a row whose driver has no trip left.                          *)
SettledAddsUp ==
  \A p \in settled, d \in Payers : <<d, p>> \notin undone =>
    IF ended[d][p] = Zero THEN settlement[d][p] = NoSettlement
    ELSE settlement[d][p] # NoSettlement /\ settlement[d][p].sum = ended[d][p]

(* A confirmed row stays confirmed, whatever happens to its trips; and no  *)
(* later sync lowers it below what was confirmed, unless such a trip was   *)
(* taken out of it or two syncs of the period overlapped: then the one     *)
(* that read first may write last.  That a sync may raise it, the code     *)
(* leaves open.                                                            *)
ConfirmedNotLowered ==
  \A d \in Payers, p \in Periods :
    agreed[d][p] # Zero =>
      /\ settlement[d][p].status = "CONFIRMED"
      /\ p \notin crossed /\ <<d, p>> \notin undone =>
           /\ settlement[d][p].sum.trips >= agreed[d][p].trips
           /\ settlement[d][p].sum.due >= agreed[d][p].due

(* Settlements say what is owed, and what was confirmed holds.             *)
SettledForGood == SettledAddsUp /\ ConfirmedNotLowered
=============================================================================
