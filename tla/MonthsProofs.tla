---------------------------- MODULE MonthsProofs ----------------------------
(***************************************************************************)
(* What Settlement, Board and Champions promise, proved for any number of  *)
(* drivers, months, trips, requests and pages, for tiers of any height.    *)
(***************************************************************************)
EXTENDS Settlement, Board, Champions, WellFoundedInduction, FiniteSetTheorems,
        SequenceTheorems, TLAPS

(* Sums grow trip by trip, but for those that a trip was taken out of: one  *)
(* is below another when it was taken before.                              *)
Below(a, b) == a.trips <= b.trips /\ a.due <= b.due
Items       == [driver : Payers, sum : Sums]
SyncRows    == [pc : {"idle", "rows"}, period : Nat, items : SUBSET Items, whole : BOOLEAN]
TripRows    == [driver : Payers, status : Statuses, month : Nat, due : Nat]
Closings    == [by : Closers, trip : Trips, to : Statuses, month : Nat]
InFlight(p) == {s \in Syncs : sync[s].pc = "rows" /\ sync[s].period = p}

SettlementTyped ==
  /\ thisMonth \in Nat /\ finishing \subseteq Closings /\ trip \in [Trips -> TripRows]
  /\ ended \in [Payers -> [Periods -> Sums]]
  /\ settlement \in [Payers -> [Periods -> Rows \cup {NoSettlement}]]
  /\ sync \in [Syncs -> SyncRows] /\ \A s \in Syncs : sync[s].pc = "rows" => sync[s].period \in Periods
  /\ agreed \in [Payers -> [Periods -> Sums]] /\ settled \subseteq Periods

(* A completed trip is in the sum of its driver and month.                 *)
TripsSummed ==
  \A t \in Trips, p \in Periods :
    Counts(trip[t], p) /\ <<trip[t].driver, p>> \notin undone => ended[trip[t].driver][p].trips > 0

(* A row says no more than its driver's trips do.                          *)
RowsBelow ==
  \A d \in Payers, p \in Periods : <<d, p>> \notin undone =>
    /\ ended[d][p].trips >= 0
    /\ ended[d][p].trips = 0 => ended[d][p] = Zero
    /\ settlement[d][p] # NoSettlement =>
         ended[d][p].trips > 0 /\ Below(settlement[d][p].sum, ended[d][p])

(* Nor does an item that a sync has still to write; it has one per driver. *)
ItemsBelow ==
  \A p \in Periods : \A s \in InFlight(p) : \A i \in sync[s].items :
    /\ i.sum.trips > 0
    /\ <<i.driver, p>> \notin undone => Below(i.sum, ended[i.driver][p])
    /\ \A j \in sync[s].items : i.driver = j.driver => i = j

(* The sums of a period are final once a sync of it is whole: every sync   *)
(* of it that is under way has read them.                                  *)
Final(p) == p \in settled \/ \E s \in InFlight(p) : sync[s].whole
FinalStays ==
  \A p \in Periods : Final(p) =>
    /\ thisMonth > p /\ ~Completing(p)
    /\ \A s \in InFlight(p) : \A i \in sync[s].items :
         <<i.driver, p>> \notin undone => i.sum = ended[i.driver][p]

RowRight(d, p) == settlement[d][p] # NoSettlement /\ settlement[d][p].sum = ended[d][p]

(* A whole sync has written a driver's row or has the item still to write; *)
(* when it is done, every row is right.                                    *)
WholeWrites ==
  \A p \in Periods, d \in Payers : ended[d][p].trips > 0 /\ <<d, p>> \notin undone =>
    /\ p \in settled => RowRight(d, p)
    /\ \A s \in InFlight(p) : sync[s].whole => RowRight(d, p) \/ \E i \in sync[s].items : i.driver = d

(* Until two syncs of a period overlap, rows are written in the order in   *)
(* which the sums were read.                                               *)
RowsRise ==
  \A p \in Periods \ crossed :
    /\ \A s, x \in InFlight(p) : s = x
    /\ \A s \in InFlight(p) : \A i \in sync[s].items :
         settlement[i.driver][p] # NoSettlement /\ <<i.driver, p>> \notin undone =>
           Below(settlement[i.driver][p].sum, i.sum)

AgreedHolds ==
  \A d \in Payers, p \in Periods : agreed[d][p] # Zero =>
    /\ settlement[d][p] # NoSettlement /\ settlement[d][p].status = "CONFIRMED"
    /\ p \notin crossed /\ <<d, p>> \notin undone => Below(agreed[d][p], settlement[d][p].sum)

SettlementIInv ==
  /\ SettlementTyped /\ TripsSummed /\ RowsBelow /\ ItemsBelow
  /\ FinalStays /\ WholeWrites /\ RowsRise /\ AgreedHolds

-----------------------------------------------------------------------------
(* Settlements.                                                            *)

LEMMA SettlementRows ==
  ASSUME SettlementIInv
  PROVE  /\ thisMonth \in Nat /\ finishing \subseteq Closings /\ trip \in [Trips -> TripRows]
         /\ Periods \subseteq Nat /\ sync \in [Syncs -> SyncRows] /\ settled \subseteq Periods
         /\ \A s \in Syncs : /\ sync[s].items \subseteq Items /\ sync[s].whole \in BOOLEAN
                             /\ sync[s].pc = "rows" => sync[s].period \in Periods
         /\ \A d \in Payers, p \in Periods :
              /\ ended[d][p] \in Sums /\ agreed[d][p] \in Sums
              /\ settlement[d][p] \in Rows \cup {NoSettlement}
              /\ settlement[d][p] # NoSettlement => settlement[d][p].sum \in Sums
<1>1. SettlementTyped /\ Periods \subseteq Nat
  BY SettlementAssumption DEF SettlementIInv, Periods
<1>2. \A s \in Syncs : /\ sync[s].items \subseteq Items /\ sync[s].whole \in BOOLEAN
                       /\ sync[s].pc = "rows" => sync[s].period \in Periods
  BY <1>1 DEF SettlementTyped, SyncRows
<1>3. \A d \in Payers, p \in Periods :
        /\ ended[d][p] \in Sums /\ agreed[d][p] \in Sums
        /\ settlement[d][p] \in Rows \cup {NoSettlement}
  BY <1>1 DEF SettlementTyped
<1>4. \A r \in Rows : r.sum \in Sums
  BY DEF Rows
<1> QED BY <1>1, <1>2, <1>3, <1>4 DEF SettlementTyped

LEMMA BelowIsOrder ==
  /\ \A a \in Sums : Below(a, a)
  /\ \A a, b, c \in Sums : Below(a, b) /\ Below(b, c) => Below(a, c)
BY DEF Below, Sums

(* A completion takes its time, or the month passes: final sums are those  *)
(* of a month that is over.                                                *)
LEMMA TimeMoves ==
  ASSUME SettlementIInv, UNCHANGED <<trip, ended, settlement, sync, agreed, settled, crossed, undone>>,
         thisMonth' \in Nat, thisMonth' >= thisMonth, finishing' \subseteq Closings,
         \A f \in finishing' : f \in finishing \/ f.to # "COMPLETED" \/ f.month = thisMonth
  PROVE  SettlementIInv'
<1>1. SettlementTyped'
  BY DEF SettlementIInv, SettlementTyped
<1>2. RowsBelow' /\ ItemsBelow' /\ WholeWrites' /\ RowsRise' /\ AgreedHolds' /\ TripsSummed'
  BY DEF SettlementIInv, RowsBelow, ItemsBelow, WholeWrites, RowsRise, AgreedHolds, TripsSummed,
         InFlight, RowRight
<1>3. ASSUME NEW p \in Periods, Final(p)'
      PROVE  /\ thisMonth' > p /\ ~Completing(p)'
             /\ \A s \in InFlight(p)' : \A i \in sync'[s].items :
                  <<i.driver, p>> \notin undone' => i.sum = ended'[i.driver][p]
  <2>1. InFlight(p)' = InFlight(p) /\ Final(p)
    BY <1>3 DEF Final, InFlight
  <2>2. /\ thisMonth > p /\ ~Completing(p)
        /\ \A s \in InFlight(p) : \A i \in sync[s].items :
             <<i.driver, p>> \notin undone => i.sum = ended[i.driver][p]
    BY <2>1 DEF SettlementIInv, FinalStays
  <2>3. thisMonth' > p /\ ~Completing(p)'
    BY <2>2, SettlementRows DEF Completing
  <2> QED BY <2>1, <2>2, <2>3
<1>4. FinalStays'
  BY <1>3 DEF FinalStays, Periods
<1> QED BY <1>1, <1>2, <1>4 DEF SettlementIInv

LEMMA TakeEndedAtStep ==
  ASSUME SettlementIInv, NEW k \in Closers, NEW t \in Trips, TakeEndedAt(k, t)
  PROVE  SettlementIInv'
<1>1. PICK to \in Statuses :
        finishing' = finishing \cup {[by |-> k, trip |-> t, to |-> to,
                                      month |-> IF to = "COMPLETED" THEN thisMonth ELSE 0]}
  BY DEF TakeEndedAt
<1>2. UNCHANGED <<thisMonth, trip, ended, settlement, sync, agreed, settled, crossed, undone>>
  BY DEF TakeEndedAt
<1>3. PICK m \in Nat : /\ m = IF to = "COMPLETED" THEN thisMonth ELSE 0
                       /\ to # "COMPLETED" \/ m = thisMonth
  BY SettlementRows
<1>4. /\ thisMonth' \in Nat /\ thisMonth' >= thisMonth /\ finishing' \subseteq Closings
      /\ \A f \in finishing' : f \in finishing \/ f.to # "COMPLETED" \/ f.month = thisMonth
  BY <1>1, <1>2, <1>3, SettlementRows DEF Closings
<1> QED BY <1>2, <1>4, TimeMoves

LEMMA MonthPassesStep ==
  ASSUME SettlementIInv, MonthPasses
  PROVE  SettlementIInv'
<1>1. /\ thisMonth' = thisMonth + 1
      /\ UNCHANGED <<trip, finishing, ended, settlement, sync, agreed, settled, crossed, undone>>
  BY DEF MonthPasses
<1>2. /\ thisMonth' \in Nat /\ thisMonth' >= thisMonth /\ finishing' \subseteq Closings
  BY <1>1, SettlementRows
<1> QED BY <1>1, <1>2, TimeMoves

LEMMA EndedFailsStep ==
  ASSUME SettlementIInv, NEW f \in finishing, EndedFails(f)
  PROVE  SettlementIInv'
<1>1. /\ finishing' = finishing \ {f}
      /\ UNCHANGED <<thisMonth, trip, ended, settlement, sync, agreed, settled, crossed, undone>>
  BY DEF EndedFails
<1>2. /\ thisMonth' \in Nat /\ thisMonth' >= thisMonth /\ finishing' \subseteq Closings
  BY <1>1, SettlementRows
<1> QED BY <1>1, <1>2, TimeMoves

LEMMA TripIsRow ==
  ASSUME NEW r \in TripRows, NEW f \in Closings, NEW c \in Nat
  PROVE  Written(r, f, c) \in TripRows /\ Written(r, f, c).driver = r.driver
<1>1. CASE f.to = "COMPLETED"
  <2>1. Written(r, f, c) = [driver |-> r.driver, status |-> f.to, month |-> f.month, due |-> r.due + c]
    BY <1>1 DEF Written, TripRows
  <2>2. f.to \in Statuses /\ f.month \in Nat /\ r.due + c \in Nat /\ r.driver \in Payers
    BY DEF TripRows, Closings
  <2> QED BY <2>1, <2>2 DEF TripRows
<1>2. CASE f.to # "COMPLETED"
  BY <1>2 DEF Written, TripRows, Closings
<1> QED BY <1>1, <1>2

(* What a request writes into a trip: sums that lose no trip do not fall,   *)
(* and only a completion raises them, those of its month.                   *)
LEMMA TripWritten ==
  ASSUME NEW r \in TripRows, NEW f \in Closings, NEW c \in Commissions, NEW p \in Periods
  PROVE  /\ Counts(Written(r, f, c), p) => f.to = "COMPLETED" /\ f.month = p
         /\ Counts(r, p) => Counted(r, p) = [trips |-> 1, due |-> r.due]
         /\ ~Counts(r, p) => Counted(r, p) = [trips |-> 0, due |-> 0]
         /\ Counts(Written(r, f, c), p) =>
              /\ Counted(Written(r, f, c), p).trips = 1
              /\ Counted(Written(r, f, c), p).due = r.due + c
         /\ ~Counts(Written(r, f, c), p) => Counted(Written(r, f, c), p) = [trips |-> 0, due |-> 0]
<1>1. c \in Nat
  BY SettlementAssumption
<1>2. CASE f.to = "COMPLETED"
  <2>1. PICK w : w = Written(r, f, c)
    OBVIOUS
  <2>2. w.status = "COMPLETED" /\ w.month = f.month /\ w.due = r.due + c
    BY <1>2, <2>1 DEF Written, TripRows
  <2> QED BY <1>2, <2>1, <2>2 DEF Counts, Counted, Zero
<1>3. CASE f.to # "COMPLETED"
  <2>1. PICK w : w = Written(r, f, c)
    OBVIOUS
  <2>2. w.status # "COMPLETED"
    BY <1>3, <2>1 DEF Written, TripRows
  <2> QED BY <2>1, <2>2 DEF Counts, Counted, Zero
<1> QED BY <1>2, <1>3

(* A request on a trip commits: no sum of a final period that has kept its  *)
(* trips changes.                                                           *)
LEMMA CommitEndedStep ==
  ASSUME SettlementIInv, NEW f \in finishing, CommitEnded(f)
  PROVE  SettlementIInv'
<1>1. /\ finishing' = finishing \ {f} /\ UNCHANGED <<thisMonth, settlement, sync, agreed, settled, crossed>>
      /\ f \in Closings /\ f.trip \in Trips
  BY SettlementRows DEF CommitEnded, Closings
<1>2. PICK old \in TripRows : old = trip[f.trip] /\ old.driver \in Payers /\ old.due \in Nat
  BY <1>1, SettlementRows DEF TripRows
<1>3. PICK c \in Commissions :
        /\ trip' = [trip EXCEPT ![f.trip] = Written(old, f, c)]
        /\ ended' = [ended EXCEPT ![old.driver] = Resummed(@, old, Written(old, f, c))]
        /\ undone' = undone \cup ({old.driver} \X Left(old, Written(old, f, c)))
  BY <1>2 DEF CommitEnded
<1>4. PICK new : new = Written(old, f, c)
  OBVIOUS
<1>5. PICK sum : sum = Resummed(ended[old.driver], old, new)
  OBVIOUS
<1>6. trip' = [trip EXCEPT ![f.trip] = new] /\ undone' = undone \cup ({old.driver} \X Left(old, new))
  BY <1>3, <1>4
<1>7. ended' = [ended EXCEPT ![old.driver] = sum]
  BY <1>3, <1>4, <1>5
<1>8. c \in Nat
  BY SettlementAssumption
<1>9. ASSUME NEW p \in Periods, NEW was \in Sums, was = ended[old.driver][p]
      PROVE  /\ sum[p] \in Sums
             /\ Counts(new, p) => Completing(p)
             /\ ~Counts(old, p) /\ ~Counts(new, p) => sum[p] = was
             /\ Counts(new, p) /\ ~Counts(old, p) => sum[p].trips = was.trips + 1 /\ was.due <= sum[p].due
             /\ Counts(new, p) /\ Counts(old, p) => sum[p].trips = was.trips /\ was.due <= sum[p].due
  <2>1. sum[p] = [trips |-> was.trips - Counted(old, p).trips + Counted(new, p).trips,
                  due   |-> was.due - Counted(old, p).due + Counted(new, p).due]
    BY <1>5, <1>9 DEF Resummed
  <2>2. /\ Counts(new, p) => f.to = "COMPLETED" /\ f.month = p
        /\ Counts(old, p) => Counted(old, p).trips = 1 /\ Counted(old, p).due = old.due
        /\ ~Counts(old, p) => Counted(old, p).trips = 0 /\ Counted(old, p).due = 0
        /\ Counts(new, p) => Counted(new, p).trips = 1 /\ Counted(new, p).due = old.due + c
        /\ ~Counts(new, p) => Counted(new, p).trips = 0 /\ Counted(new, p).due = 0
    BY <1>1, <1>4, TripWritten
  <2>3. Counts(new, p) => Completing(p)
    BY <2>2 DEF Completing
  <2>4. was.trips \in Int /\ was.due \in Int /\ was = [trips |-> was.trips, due |-> was.due]
    BY <1>9 DEF Sums
  <2>5. PICK a \in {0, 1}, b \in {0, 1} : a = Counted(old, p).trips /\ b = Counted(new, p).trips
    BY <2>2
  <2>6. PICK x \in Nat, y \in Nat : x = Counted(old, p).due /\ y = Counted(new, p).due
    BY <1>2, <1>8, <2>2
  <2>7. sum[p] = [trips |-> was.trips - a + b, due |-> was.due - x + y]
    BY <2>1, <2>5, <2>6
  <2>8. sum[p] \in Sums
    BY <2>4, <2>5, <2>6, <2>7 DEF Sums
  <2>9. sum[p].trips = was.trips - a + b /\ sum[p].due = was.due - x + y
    BY <2>7
  <2>10. ~Counts(old, p) /\ ~Counts(new, p) => sum[p] = was
    BY <2>2, <2>4, <2>5, <2>6, <2>7
  <2>11. Counts(new, p) /\ ~Counts(old, p) => sum[p].trips = was.trips + 1 /\ was.due <= sum[p].due
    BY <1>2, <1>8, <2>2, <2>4, <2>5, <2>6, <2>9
  <2>12. Counts(new, p) /\ Counts(old, p) => sum[p].trips = was.trips /\ was.due <= sum[p].due
    BY <1>2, <1>8, <2>2, <2>4, <2>5, <2>6, <2>9
  <2> QED BY <2>3, <2>8, <2>10, <2>11, <2>12
<1>10. /\ sum \in [Periods -> Sums] /\ ended' \in [Payers -> [Periods -> Sums]]
       /\ \A p \in Periods : ended'[old.driver][p] = sum[p]
       /\ \A d \in Payers, p \in Periods : d # old.driver => ended'[d][p] = ended[d][p]
  <2>1. ended \in [Payers -> [Periods -> Sums]]
    BY DEF SettlementIInv, SettlementTyped
  <2>2. sum \in [Periods -> Sums]
    <3>1. \A p \in Periods : sum[p] \in Sums
      BY <1>2, <1>9, SettlementRows
    <3> QED BY <1>5, <3>1 DEF Resummed
  <2> QED BY <1>2, <1>7, <2>1, <2>2
<1>11. \A p \in Periods : Counts(old, p) /\ <<old.driver, p>> \notin undone' => Counts(new, p)
  BY <1>6 DEF Left
<1>12. undone \subseteq undone'
  BY <1>6
<1>13. \A p \in Periods : Counts(old, p) /\ <<old.driver, p>> \notin undone => ended[old.driver][p].trips > 0
  BY <1>1, <1>2 DEF SettlementIInv, TripsSummed
<1>14. \A d \in Payers, p \in Periods : <<d, p>> \notin undone' =>
         /\ <<d, p>> \notin undone /\ ended'[d][p] \in Sums /\ Below(ended[d][p], ended'[d][p])
         /\ ended'[d][p].trips >= 0 /\ (ended'[d][p].trips = 0 => ended'[d][p] = Zero)
         /\ ended[d][p].trips > 0 => ended'[d][p].trips > 0
         /\ ended'[d][p] = ended[d][p] \/ Completing(p)
         /\ d = old.driver /\ Counts(new, p) => ended'[d][p].trips > 0
  <2>1. ASSUME NEW d \in Payers, NEW p \in Periods, <<d, p>> \notin undone'
        PROVE  /\ <<d, p>> \notin undone /\ ended'[d][p] \in Sums /\ Below(ended[d][p], ended'[d][p])
               /\ ended'[d][p].trips >= 0 /\ (ended'[d][p].trips = 0 => ended'[d][p] = Zero)
               /\ ended[d][p].trips > 0 => ended'[d][p].trips > 0
               /\ ended'[d][p] = ended[d][p] \/ Completing(p)
               /\ d = old.driver /\ Counts(new, p) => ended'[d][p].trips > 0
    <3>1. PICK was \in Sums : /\ was = ended[d][p] /\ was.trips \in Int /\ was.due \in Int
                              /\ Below(was, was)
      BY SettlementRows, BelowIsOrder DEF Sums
    <3>2. <<d, p>> \notin undone /\ was.trips >= 0 /\ (was.trips = 0 => was = Zero)
      BY <1>12, <2>1, <3>1 DEF SettlementIInv, RowsBelow
    <3>3. CASE d # old.driver
      BY <1>10, <3>1, <3>2, <3>3
    <3>4. CASE d = old.driver /\ ~Counts(new, p)
      <4>1. ended'[d][p] = was
        BY <1>9, <1>10, <1>11, <2>1, <3>1, <3>4
      <4> QED BY <3>1, <3>2, <3>4, <4>1
    <3>5. CASE d = old.driver /\ Counts(new, p)
      <4>1. PICK is \in Sums : /\ is = ended'[d][p] /\ is.trips \in Int /\ is.due \in Int
        BY <1>10 DEF Sums
      <4>2. Completing(p) /\ was.due <= is.due /\ is.trips >= was.trips /\ is.trips > 0
        <5>1. CASE Counts(old, p)
          <6>1. was.trips > 0
            BY <1>13, <3>1, <3>2, <3>5, <5>1
          <6> QED BY <1>9, <1>10, <3>1, <3>5, <4>1, <5>1, <6>1
        <5>2. CASE ~Counts(old, p)
          BY <1>9, <1>10, <3>1, <3>2, <3>5, <4>1, <5>2
        <5> QED BY <5>1, <5>2
      <4> QED BY <3>1, <3>2, <4>1, <4>2 DEF Below
    <3> QED BY <3>3, <3>4, <3>5
  <2> QED BY <2>1
<1>15. /\ trip' \in [Trips -> TripRows] /\ trip'[f.trip] = new /\ new.driver = old.driver
       /\ \A t \in Trips \ {f.trip} : trip'[t] = trip[t]
  <2>1. new \in TripRows /\ new.driver = old.driver
    BY <1>1, <1>4, <1>8, TripIsRow
  <2>2. trip \in [Trips -> TripRows]
    BY SettlementRows
  <2> QED BY <1>1, <1>6, <2>1, <2>2
<1>16. SettlementTyped'
  BY <1>1, <1>10, <1>15 DEF SettlementIInv, SettlementTyped
<1>17. TripsSummed'
  <2>1. ASSUME NEW t \in Trips, NEW p \in Periods, Counts(trip'[t], p), <<trip'[t].driver, p>> \notin undone'
        PROVE  ended'[trip'[t].driver][p].trips > 0
    <3>1. CASE t = f.trip
      BY <1>2, <1>14, <1>15, <2>1, <3>1
    <3>2. CASE t # f.trip
      <4>1. trip'[t] = trip[t] /\ trip[t].driver \in Payers /\ <<trip[t].driver, p>> \notin undone
        BY <1>12, <1>15, <2>1, <3>2, SettlementRows DEF TripRows
      <4>2. ended[trip[t].driver][p].trips > 0
        BY <2>1, <4>1 DEF SettlementIInv, TripsSummed
      <4> QED BY <1>14, <2>1, <4>1, <4>2
    <3> QED BY <3>1, <3>2
  <2> QED BY <2>1 DEF TripsSummed, Counts
<1>18. RowsBelow'
  <2>1. ASSUME NEW d \in Payers, NEW p \in Periods, settlement[d][p] # NoSettlement, <<d, p>> \notin undone'
        PROVE  ended'[d][p].trips > 0 /\ Below(settlement[d][p].sum, ended'[d][p])
    <3>1. ended[d][p].trips > 0 /\ Below(settlement[d][p].sum, ended[d][p])
      BY <1>12, <2>1 DEF SettlementIInv, RowsBelow
    <3> QED BY <1>14, <2>1, <3>1, SettlementRows, BelowIsOrder
  <2> QED BY <1>1, <1>14, <2>1 DEF RowsBelow
<1>19. \A p \in Periods : InFlight(p)' = InFlight(p) /\ (Final(p)' <=> Final(p))
  BY <1>1 DEF InFlight, Final
<1>20. ItemsBelow'
  <2>1. ASSUME NEW p \in Periods, NEW s \in InFlight(p), NEW i \in sync[s].items
        PROVE  /\ i.sum.trips > 0
               /\ <<i.driver, p>> \notin undone' => Below(i.sum, ended'[i.driver][p])
               /\ \A j \in sync[s].items : i.driver = j.driver => i = j
    <3>1. /\ i.sum.trips > 0
          /\ <<i.driver, p>> \notin undone => Below(i.sum, ended[i.driver][p])
          /\ \A j \in sync[s].items : i.driver = j.driver => i = j
      BY DEF SettlementIInv, ItemsBelow
    <3>2. i.driver \in Payers /\ i.sum \in Sums
      BY SettlementRows DEF InFlight, Items
    <3> QED BY <1>14, <3>1, <3>2, SettlementRows, BelowIsOrder
  <2> QED BY <1>1, <1>19, <2>1 DEF ItemsBelow
<1>21. ASSUME NEW p \in Periods, Final(p)
       PROVE  /\ thisMonth > p /\ ~Completing(p)
              /\ \A s \in InFlight(p) : \A i \in sync[s].items :
                   <<i.driver, p>> \notin undone => i.sum = ended[i.driver][p]
  BY <1>21 DEF SettlementIInv, FinalStays
<1>22. FinalStays'
  <2>1. ASSUME NEW p \in Periods, Final(p)
        PROVE  /\ thisMonth' > p /\ ~Completing(p)'
               /\ \A s \in InFlight(p) : \A i \in sync[s].items :
                    <<i.driver, p>> \notin undone' => i.sum = ended'[i.driver][p]
    <3>1. \A s \in InFlight(p) : \A i \in sync[s].items : i.driver \in Payers
      BY SettlementRows DEF InFlight, Items
    <3>2. ~Completing(p)'
      BY <1>1, <1>21, <2>1 DEF Completing
    <3> QED BY <1>1, <1>14, <1>21, <2>1, <3>1, <3>2
  <2> QED BY <1>1, <1>19, <2>1 DEF FinalStays
<1>23. WholeWrites'
  <2>1. ASSUME NEW p \in Periods, NEW d \in Payers, Final(p), <<d, p>> \notin undone'
        PROVE  ended'[d][p] = ended[d][p] /\ <<d, p>> \notin undone
    BY <1>14, <1>21, <2>1
  <2>2. ASSUME NEW p \in Periods, NEW d \in Payers, ended'[d][p].trips > 0, <<d, p>> \notin undone',
               p \in settled
        PROVE  RowRight(d, p)'
    <3>1. ended'[d][p] = ended[d][p] /\ <<d, p>> \notin undone
      BY <2>1, <2>2 DEF Final
    <3>2. RowRight(d, p)
      BY <2>2, <3>1 DEF SettlementIInv, WholeWrites
    <3> QED BY <1>1, <3>1, <3>2 DEF RowRight
  <2>3. ASSUME NEW p \in Periods, NEW d \in Payers, ended'[d][p].trips > 0, <<d, p>> \notin undone',
               NEW s \in InFlight(p), sync[s].whole
        PROVE  RowRight(d, p)' \/ \E i \in sync[s].items : i.driver = d
    <3>1. ended'[d][p] = ended[d][p] /\ <<d, p>> \notin undone
      BY <2>1, <2>3 DEF Final
    <3>2. RowRight(d, p) \/ \E i \in sync[s].items : i.driver = d
      BY <2>3, <3>1 DEF SettlementIInv, WholeWrites
    <3> QED BY <1>1, <3>1, <3>2 DEF RowRight
  <2> QED BY <1>1, <1>19, <2>2, <2>3 DEF WholeWrites
<1>24. RowsRise' /\ AgreedHolds'
  BY <1>1, <1>12, <1>19 DEF SettlementIInv, RowsRise, AgreedHolds
<1> QED BY <1>16, <1>17, <1>18, <1>20, <1>22, <1>23, <1>24 DEF SettlementIInv

(* One sync moves, the rows stay.                                          *)
LEMMA SyncMoves ==
  ASSUME SettlementIInv, NEW s \in Syncs, NEW y \in SyncRows, sync' = [sync EXCEPT ![s] = y],
         UNCHANGED <<thisMonth, trip, finishing, ended, settlement, agreed, undone>>
  PROVE  /\ sync' \in [Syncs -> SyncRows] /\ sync'[s] = y /\ \A x \in Syncs \ {s} : sync'[x] = sync[x]
         /\ \A p \in Periods : InFlight(p)' \subseteq InFlight(p) \cup {s}
         /\ RowsBelow'
         /\ \A p \in Periods, d \in Payers : RowRight(d, p)' <=> RowRight(d, p)
<1>1. sync \in [Syncs -> SyncRows]
  BY SettlementRows
<1>2. sync' \in [Syncs -> SyncRows] /\ sync'[s] = y /\ \A x \in Syncs \ {s} : sync'[x] = sync[x]
  BY <1>1
<1>3. RowsBelow'
  BY DEF SettlementIInv, RowsBelow
<1> QED BY <1>2, <1>3 DEF InFlight, RowRight

(* A sync ends: when it was whole, its rows are right.                     *)
LEMMA SyncEnds ==
  ASSUME SettlementIInv, NEW s \in Syncs, sync[s].pc = "rows", sync' = [sync EXCEPT ![s] = NoSync],
         UNCHANGED <<thisMonth, trip, finishing, ended, settlement, agreed, crossed, undone>>,
         settled' = settled \/ /\ settled' = settled \cup {sync[s].period}
                               /\ sync[s].whole /\ sync[s].items = {}
  PROVE  SettlementIInv'
<1>1. PICK y \in SyncRows : sync' = [sync EXCEPT ![s] = y] /\ y.pc = "idle"
  <2>1. NoSync \in SyncRows /\ NoSync.pc = "idle"
    BY DEF NoSync, SyncRows
  <2> QED BY <2>1
<1>2. /\ sync' \in [Syncs -> SyncRows] /\ sync'[s] = y /\ \A x \in Syncs \ {s} : sync'[x] = sync[x]
      /\ RowsBelow' /\ \A p \in Periods, d \in Payers : RowRight(d, p)' <=> RowRight(d, p)
  BY <1>1, SyncMoves
<1>3. \A p \in Periods : InFlight(p)' = InFlight(p) \ {s}
  BY <1>1, <1>2 DEF InFlight
<1>4. \A p \in Periods : \A x \in InFlight(p)' : x \in InFlight(p) /\ sync'[x] = sync[x]
  BY <1>2, <1>3 DEF InFlight
<1>5. sync[s].period \in Periods /\ s \in InFlight(sync[s].period)
  BY SettlementRows DEF InFlight
<1>6. SettlementTyped' /\ TripsSummed'
  BY <1>1, <1>2, <1>5 DEF SettlementIInv, SettlementTyped, TripsSummed
<1>7. \A p \in Periods : Final(p)' => Final(p)
  BY <1>4, <1>5 DEF Final
<1>8. ItemsBelow'
  BY <1>4 DEF SettlementIInv, ItemsBelow
<1>9. FinalStays'
  BY <1>4, <1>7 DEF SettlementIInv, FinalStays, Completing
<1>10. WholeWrites'
  <2>1. ASSUME NEW p \in Periods, NEW d \in Payers, ended[d][p].trips > 0, <<d, p>> \notin undone,
               p \in settled'
        PROVE  RowRight(d, p)
    <3>1. CASE p \in settled
      BY <2>1, <3>1 DEF SettlementIInv, WholeWrites
    <3>2. CASE p \notin settled
      <4>1. p = sync[s].period /\ sync[s].whole /\ sync[s].items = {}
        BY <2>1, <3>2
      <4> QED BY <1>5, <2>1, <4>1 DEF SettlementIInv, WholeWrites
    <3> QED BY <3>1, <3>2
  <2>2. ASSUME NEW p \in Periods, NEW d \in Payers, ended[d][p].trips > 0, <<d, p>> \notin undone,
               NEW x \in InFlight(p)', sync'[x].whole
        PROVE  RowRight(d, p) \/ \E i \in sync'[x].items : i.driver = d
    BY <1>4, <2>2 DEF SettlementIInv, WholeWrites
  <2> QED BY <1>2, <2>1, <2>2 DEF WholeWrites
<1>11. RowsRise' /\ AgreedHolds'
  BY <1>4 DEF SettlementIInv, RowsRise, AgreedHolds
<1> QED BY <1>2, <1>6, <1>8, <1>9, <1>10, <1>11 DEF SettlementIInv

LEMMA SyncDoneStep ==
  ASSUME SettlementIInv, NEW s \in Syncs, SyncDone(s)
  PROVE  SettlementIInv'
<1>1. settled' = settled \/ /\ settled' = settled \cup {sync[s].period}
                            /\ sync[s].whole /\ sync[s].items = {}
  BY SettlementRows DEF SyncDone
<1> QED BY <1>1, SyncEnds DEF SyncDone

LEMMA SyncDiesStep ==
  ASSUME SettlementIInv, NEW s \in Syncs, SyncDies(s)
  PROVE  SettlementIInv'
BY SyncEnds DEF SyncDies

(* The sums a sync starts from are those of the moment.                    *)
LEMMA PersistMonthlySettlementsStep ==
  ASSUME SettlementIInv, NEW s \in Syncs, PersistMonthlySettlements(s)
  PROVE  SettlementIInv'
<1> DEFINE Others(p) == {x \in Syncs : sync[x].pc # "idle" /\ sync[x].period = p}
           Whole(p)  == thisMonth > p /\ Others(p) = {} /\ ~Completing(p)
<1>1. PICK p \in Periods :
        /\ sync' = [sync EXCEPT ![s] = [pc |-> "rows", period |-> p, items |-> ByPeriod(p), whole |-> Whole(p)]]
        /\ crossed' = crossed \cup (IF Others(p) = {} THEN {} ELSE {p})
  BY DEF PersistMonthlySettlements
<1>2. sync[s].pc = "idle" /\ UNCHANGED <<thisMonth, trip, finishing, ended, settlement, agreed, settled, undone>>
  BY DEF PersistMonthlySettlements
<1>3. PICK whole \in BOOLEAN : whole = Whole(p)
  BY Zenon
<1>4. Others(p) = InFlight(p)
  BY SettlementRows DEF InFlight, SyncRows
<1>5. /\ whole => thisMonth > p /\ InFlight(p) = {} /\ ~Completing(p)
      /\ crossed' = crossed \cup (IF InFlight(p) = {} THEN {} ELSE {p})
  BY <1>1, <1>3, <1>4
<1>6. /\ ByPeriod(p) \subseteq Items
      /\ \A i \in ByPeriod(p) : i.driver \in Payers /\ i.sum = ended[i.driver][p] /\ i.sum.trips > 0
      /\ \A i, j \in ByPeriod(p) : i.driver = j.driver => i = j
      /\ \A d \in Payers : ended[d][p].trips > 0 => \E i \in ByPeriod(p) : i.driver = d
  <2>1. \A i \in ByPeriod(p) : \E d \in Payers : /\ ended[d][p].trips > 0 /\ ended[d][p] \in Sums
                                                 /\ i = [driver |-> d, sum |-> ended[d][p]]
    BY SettlementRows DEF ByPeriod
  <2>2. \A i \in ByPeriod(p) : /\ i \in Items /\ i.driver \in Payers /\ i.sum = ended[i.driver][p]
                               /\ i.sum.trips > 0 /\ i = [driver |-> i.driver, sum |-> ended[i.driver][p]]
    BY <2>1 DEF Items
  <2>3. \A i, j \in ByPeriod(p) : i.driver = j.driver => i = j
    BY <2>2
  <2>4. ASSUME NEW d \in Payers, ended[d][p].trips > 0
        PROVE  \E i \in ByPeriod(p) : i.driver = d
    <3>1. [driver |-> d, sum |-> ended[d][p]] \in ByPeriod(p)
      BY <2>4 DEF ByPeriod
    <3> QED BY <3>1
  <2> QED BY <2>2, <2>3, <2>4
<1>7. PICK y \in SyncRows : /\ sync' = [sync EXCEPT ![s] = y]
                            /\ y.pc = "rows" /\ y.period = p /\ y.items = ByPeriod(p) /\ y.whole = whole
  <2>1. p \in Nat
    BY SettlementRows
  <2>2. [pc |-> "rows", period |-> p, items |-> ByPeriod(p), whole |-> whole] \in SyncRows
    BY <1>6, <2>1 DEF SyncRows
  <2>3. sync' = [sync EXCEPT ![s] = [pc |-> "rows", period |-> p, items |-> ByPeriod(p), whole |-> whole]]
    BY <1>1, <1>3
  <2> QED BY <2>2, <2>3
<1> HIDE DEF Others, Whole
<1>8. /\ sync' \in [Syncs -> SyncRows] /\ sync'[s] = y /\ \A x \in Syncs \ {s} : sync'[x] = sync[x]
      /\ RowsBelow' /\ \A q \in Periods, d \in Payers : RowRight(d, q)' <=> RowRight(d, q)
  BY <1>2, <1>7, SyncMoves
<1>9. /\ InFlight(p)' = InFlight(p) \cup {s} /\ s \notin InFlight(p)
      /\ \A q \in Periods : q # p => InFlight(q)' = InFlight(q)
      /\ \A q \in Periods : \A x \in InFlight(q) : x # s /\ x \in Syncs /\ sync'[x] = sync[x]
  BY <1>2, <1>7, <1>8 DEF InFlight
<1>10. \A q \in Periods : \A x \in InFlight(q)' :
         (x = s /\ q = p /\ sync'[x] = y) \/ (x # s /\ x \in InFlight(q) /\ sync'[x] = sync[x])
  BY <1>8, <1>9
<1>11. SettlementTyped' /\ TripsSummed'
  BY <1>2, <1>7, <1>8 DEF SettlementIInv, SettlementTyped, TripsSummed
<1>12. ItemsBelow'
  <2>1. \A i \in y.items : /\ i.sum.trips > 0 /\ Below(i.sum, ended[i.driver][p])
                           /\ \A j \in y.items : i.driver = j.driver => i = j
    BY <1>6, <1>7, SettlementRows, BelowIsOrder
  <2> QED BY <1>2, <1>10, <2>1 DEF SettlementIInv, ItemsBelow
<1>13. FinalStays'
  <2>1. ASSUME NEW q \in Periods, Final(q)'
        PROVE  thisMonth > q /\ ~Completing(q)
    <3>1. CASE Final(q)
      BY <3>1 DEF SettlementIInv, FinalStays
    <3>2. CASE ~Final(q)
      <4>1. q = p /\ whole
        BY <1>2, <1>7, <1>10, <2>1, <3>2 DEF Final
      <4> QED BY <1>5, <4>1
    <3> QED BY <3>1, <3>2
  <2>2. ASSUME NEW q \in Periods, Final(q)', NEW x \in InFlight(q)', NEW i \in sync'[x].items,
               <<i.driver, q>> \notin undone
        PROVE  i.sum = ended[i.driver][q]
    <3>1. CASE x = s
      BY <1>6, <1>7, <1>10, <2>2, <3>1
    <3>2. CASE x # s
      <4>1. x \in InFlight(q) /\ sync'[x] = sync[x]
        BY <1>10, <3>2
      <4>2. CASE Final(q)
        BY <2>2, <4>1, <4>2 DEF SettlementIInv, FinalStays
      <4>3. CASE ~Final(q)
        <5>1. q = p /\ whole
          BY <1>2, <1>7, <1>10, <2>2, <4>3 DEF Final
        <5> QED BY <1>5, <4>1, <5>1
      <4> QED BY <4>2, <4>3
    <3> QED BY <3>1, <3>2
  <2> QED BY <1>2, <2>1, <2>2 DEF FinalStays, Completing
<1>14. WholeWrites'
  <2>1. ASSUME NEW q \in Periods, NEW d \in Payers, ended[d][q].trips > 0, <<d, q>> \notin undone,
               NEW x \in InFlight(q)', sync'[x].whole
        PROVE  RowRight(d, q) \/ \E i \in sync'[x].items : i.driver = d
    <3>1. CASE x = s
      BY <1>6, <1>7, <1>10, <2>1, <3>1
    <3>2. CASE x # s
      BY <1>10, <2>1, <3>2 DEF SettlementIInv, WholeWrites
    <3> QED BY <3>1, <3>2
  <2>2. \A q \in Periods, d \in Payers :
          ended[d][q].trips > 0 /\ <<d, q>> \notin undone /\ q \in settled => RowRight(d, q)
    BY DEF SettlementIInv, WholeWrites
  <2> QED BY <1>2, <1>8, <2>1, <2>2 DEF WholeWrites
<1>15. RowsRise'
  <2>1. ASSUME NEW q \in Periods \ crossed', NEW x \in InFlight(q)', NEW z \in InFlight(q)'
        PROVE  x = z
    BY <1>5, <1>10, <2>1 DEF SettlementIInv, RowsRise
  <2>2. ASSUME NEW q \in Periods \ crossed', NEW x \in InFlight(q)', NEW i \in sync'[x].items,
               settlement[i.driver][q] # NoSettlement, <<i.driver, q>> \notin undone
        PROVE  Below(settlement[i.driver][q].sum, i.sum)
    <3>1. CASE x = s
      <4>1. q = p /\ i \in ByPeriod(p)
        BY <1>7, <1>10, <2>2, <3>1
      <4> QED BY <1>6, <2>2, <4>1 DEF SettlementIInv, RowsBelow
    <3>2. CASE x # s
      BY <1>5, <1>10, <2>2, <3>2 DEF SettlementIInv, RowsRise
    <3> QED BY <3>1, <3>2
  <2> QED BY <1>2, <2>1, <2>2 DEF RowsRise
<1>16. AgreedHolds'
  BY <1>2, <1>5 DEF SettlementIInv, AgreedHolds
<1> QED BY <1>8, <1>11, <1>12, <1>13, <1>14, <1>15, <1>16 DEF SettlementIInv

(* A row is written: no sum of its period has fallen since it was read.    *)
LEMMA PersistRowStep ==
  ASSUME SettlementIInv, NEW s \in Syncs, PersistRow(s)
  PROVE  SettlementIInv'
<1>1. PICK i \in sync[s].items :
        /\ settlement' = [settlement EXCEPT ![i.driver][sync[s].period] = Upsert(@, i.sum)]
        /\ sync' = [sync EXCEPT ![s].items = @ \ {i}]
  BY DEF PersistRow
<1>2. sync[s].pc = "rows" /\ UNCHANGED <<thisMonth, trip, finishing, ended, agreed, settled, crossed, undone>>
  BY DEF PersistRow
<1>3. PICK p \in Periods : p = sync[s].period
  BY <1>2, SettlementRows
<1>4. s \in InFlight(p) /\ i \in Items /\ i.driver \in Payers /\ i.sum \in Sums
  BY <1>2, <1>3, SettlementRows DEF InFlight, Items
<1>5. PICK old \in Rows \cup {NoSettlement} : old = settlement[i.driver][p]
  BY <1>4, SettlementRows
<1>6. PICK new \in Rows : /\ new = Upsert(old, i.sum) /\ new.sum = i.sum /\ new # NoSettlement
                          /\ old # NoSettlement => new.status = old.status
  <2>1. Upsert(old, i.sum) \in Rows
    BY <1>4 DEF Upsert, Rows, Sums
  <2>2. Upsert(old, i.sum).sum = i.sum /\ (old # NoSettlement => Upsert(old, i.sum).status = old.status)
    BY DEF Upsert
  <2> QED BY <2>1, <2>2, NoSettlementAssumption
<1>7. /\ settlement' \in [Payers -> [Periods -> Rows \cup {NoSettlement}]]
      /\ settlement'[i.driver][p] = new
      /\ \A d \in Payers, q \in Periods : d # i.driver \/ q # p => settlement'[d][q] = settlement[d][q]
  <2>1. settlement' = [settlement EXCEPT ![i.driver][p] = new]
    BY <1>1, <1>3, <1>5, <1>6
  <2>2. settlement \in [Payers -> [Periods -> Rows \cup {NoSettlement}]]
    BY DEF SettlementIInv, SettlementTyped
  <2> QED BY <1>4, <2>1, <2>2
<1>8. PICK y \in SyncRows : /\ sync' = [sync EXCEPT ![s] = y] /\ y.pc = "rows" /\ y.period = p
                            /\ y.items = sync[s].items \ {i} /\ y.whole = sync[s].whole
  <2>1. sync[s] \in SyncRows
    BY SettlementRows
  <2> DEFINE y == [sync[s] EXCEPT !.items = sync[s].items \ {i}]
  <2>2. /\ y \in SyncRows /\ y.pc = "rows" /\ y.period = p
        /\ y.items = sync[s].items \ {i} /\ y.whole = sync[s].whole
    BY <1>2, <1>3, <2>1 DEF SyncRows
  <2>3. sync' = [sync EXCEPT ![s] = y]
    BY <1>1
  <2> QED BY <2>2, <2>3
<1>9. sync' \in [Syncs -> SyncRows] /\ sync'[s] = y /\ \A x \in Syncs \ {s} : sync'[x] = sync[x]
  BY <1>8, SettlementRows
<1>10. \A q \in Periods : /\ InFlight(q)' = InFlight(q)
                          /\ \A x \in InFlight(q) : /\ sync'[x].items \subseteq sync[x].items
                                                    /\ sync'[x].whole = sync[x].whole
                                                    /\ x # s => sync'[x] = sync[x]
  BY <1>2, <1>3, <1>8, <1>9 DEF InFlight
<1>11. /\ i.sum.trips > 0 /\ (<<i.driver, p>> \notin undone => Below(i.sum, ended[i.driver][p]))
       /\ \A j \in sync[s].items : i.driver = j.driver => i = j
  BY <1>4 DEF SettlementIInv, ItemsBelow
<1>12. SettlementTyped' /\ TripsSummed'
  BY <1>2, <1>3, <1>7, <1>8, <1>9 DEF SettlementIInv, SettlementTyped, TripsSummed
<1>13. RowsBelow'
  <2>1. ASSUME NEW d \in Payers, NEW q \in Periods, settlement'[d][q] # NoSettlement, <<d, q>> \notin undone
        PROVE  ended[d][q].trips > 0 /\ Below(settlement'[d][q].sum, ended[d][q])
    <3>1. CASE d = i.driver /\ q = p
      <4>1. ended[d][q] \in Sums /\ i.sum.trips \in Int
        BY <1>4, SettlementRows DEF Sums
      <4>2. ended[d][q].trips > 0
        BY <1>11, <2>1, <3>1, <4>1 DEF Below, Sums
      <4> QED BY <1>6, <1>7, <1>11, <2>1, <3>1, <4>2
    <3>2. CASE ~(d = i.driver /\ q = p)
      BY <1>7, <2>1, <3>2 DEF SettlementIInv, RowsBelow
    <3> QED BY <3>1, <3>2
  <2>2. \A d \in Payers, q \in Periods : <<d, q>> \notin undone =>
          ended[d][q].trips >= 0 /\ (ended[d][q].trips = 0 => ended[d][q] = Zero)
    BY DEF SettlementIInv, RowsBelow
  <2> QED BY <1>2, <2>1, <2>2 DEF RowsBelow
<1>14. ItemsBelow'
  <2>1. ASSUME NEW q \in Periods, NEW x \in InFlight(q), NEW j \in sync'[x].items
        PROVE  /\ j.sum.trips > 0
               /\ <<j.driver, q>> \notin undone => Below(j.sum, ended[j.driver][q])
               /\ \A z \in sync'[x].items : j.driver = z.driver => j = z
    <3>1. j \in sync[x].items /\ sync'[x].items \subseteq sync[x].items
      BY <1>10
    <3> QED BY <3>1 DEF SettlementIInv, ItemsBelow
  <2> QED BY <1>2, <1>10, <2>1 DEF ItemsBelow
<1>15. \A q \in Periods : Final(q)' <=> Final(q)
  BY <1>2, <1>10 DEF Final
<1>16. FinalStays'
  BY <1>2, <1>10, <1>15 DEF SettlementIInv, FinalStays, Completing
<1>17. Final(p) /\ <<i.driver, p>> \notin undone => RowRight(i.driver, p)'
  <2>1. Final(p) /\ <<i.driver, p>> \notin undone => i.sum = ended[i.driver][p]
    BY <1>4 DEF SettlementIInv, FinalStays
  <2> QED BY <1>2, <1>6, <1>7, <2>1 DEF RowRight
<1>18. WholeWrites'
  <2>1. ASSUME NEW q \in Periods, NEW d \in Payers, RowRight(d, q), Final(q), <<d, q>> \notin undone
        PROVE  RowRight(d, q)'
    <3>1. CASE d = i.driver /\ q = p
      BY <1>17, <2>1, <3>1
    <3>2. CASE ~(d = i.driver /\ q = p)
      BY <1>2, <1>7, <2>1, <3>2 DEF RowRight
    <3> QED BY <3>1, <3>2
  <2>2. ASSUME NEW q \in Periods, NEW d \in Payers, ended[d][q].trips > 0, <<d, q>> \notin undone, q \in settled
        PROVE  RowRight(d, q)'
    BY <2>1, <2>2 DEF SettlementIInv, WholeWrites, Final
  <2>3. ASSUME NEW q \in Periods, NEW d \in Payers, ended[d][q].trips > 0, <<d, q>> \notin undone,
               NEW x \in InFlight(q), sync[x].whole
        PROVE  RowRight(d, q)' \/ \E j \in sync'[x].items : j.driver = d
    <3>1. Final(q)
      BY <2>3 DEF Final
    <3>2. RowRight(d, q) \/ \E j \in sync[x].items : j.driver = d
      BY <2>3 DEF SettlementIInv, WholeWrites
    <3>3. CASE x = s
      <4>1. q = p
        BY <1>3, <3>3 DEF InFlight
      <4>2. CASE d = i.driver
        BY <1>17, <2>3, <3>1, <4>1, <4>2
      <4>3. CASE d # i.driver
        BY <1>8, <1>9, <2>1, <2>3, <3>1, <3>2, <3>3, <4>3
      <4> QED BY <4>2, <4>3
    <3>4. CASE x # s
      BY <1>10, <2>1, <2>3, <3>1, <3>2, <3>4
    <3> QED BY <3>3, <3>4
  <2> QED BY <1>2, <1>10, <2>2, <2>3 DEF WholeWrites
<1>19. RowsRise'
  <2>1. ASSUME NEW q \in Periods \ crossed, NEW x \in InFlight(q), NEW j \in sync'[x].items,
               settlement'[j.driver][q] # NoSettlement, <<j.driver, q>> \notin undone
        PROVE  Below(settlement'[j.driver][q].sum, j.sum)
    <3>1. j \in sync[x].items /\ j.driver \in Payers
      BY <1>10, SettlementRows DEF InFlight, Items
    <3>2. CASE x = s
      <4>1. j.driver # i.driver
        BY <1>8, <1>9, <1>11, <2>1, <3>1, <3>2
      <4>2. settlement'[j.driver][q] = settlement[j.driver][q]
        BY <1>7, <3>1, <4>1
      <4> QED BY <2>1, <3>1, <4>2 DEF SettlementIInv, RowsRise
    <3>3. CASE x # s
      <4>1. q # p
        BY <1>4, <2>1, <3>3 DEF SettlementIInv, RowsRise
      <4>2. settlement'[j.driver][q] = settlement[j.driver][q]
        BY <1>7, <3>1, <4>1
      <4> QED BY <2>1, <3>1, <4>2 DEF SettlementIInv, RowsRise
    <3> QED BY <3>2, <3>3
  <2>2. \A q \in Periods \ crossed : \A x, z \in InFlight(q) : x = z
    BY DEF SettlementIInv, RowsRise
  <2> QED BY <1>2, <1>10, <2>1, <2>2 DEF RowsRise
<1>20. AgreedHolds'
  <2>1. ASSUME NEW d \in Payers, NEW q \in Periods, agreed[d][q] # Zero
        PROVE  /\ settlement'[d][q] # NoSettlement /\ settlement'[d][q].status = "CONFIRMED"
               /\ q \notin crossed /\ <<d, q>> \notin undone => Below(agreed[d][q], settlement'[d][q].sum)
    <3>1. /\ settlement[d][q] # NoSettlement /\ settlement[d][q].status = "CONFIRMED"
          /\ q \notin crossed /\ <<d, q>> \notin undone => Below(agreed[d][q], settlement[d][q].sum)
      BY <2>1 DEF SettlementIInv, AgreedHolds
    <3>2. CASE d = i.driver /\ q = p
      <4>1. q \notin crossed /\ <<d, q>> \notin undone => Below(settlement[d][q].sum, i.sum)
        BY <1>4, <3>1, <3>2 DEF SettlementIInv, RowsRise
      <4>2. agreed[d][q] \in Sums /\ settlement[d][q].sum \in Sums
        BY <3>1, SettlementRows
      <4>3. q \notin crossed /\ <<d, q>> \notin undone => Below(agreed[d][q], i.sum)
        BY <1>4, <3>1, <4>1, <4>2, BelowIsOrder
      <4> QED BY <1>5, <1>6, <1>7, <3>1, <3>2, <4>3
    <3>3. CASE ~(d = i.driver /\ q = p)
      BY <1>7, <3>1, <3>3
    <3> QED BY <3>2, <3>3
  <2> QED BY <1>2, <2>1 DEF AgreedHolds
<1> QED BY <1>12, <1>13, <1>14, <1>16, <1>18, <1>19, <1>20 DEF SettlementIInv

LEMMA ConfirmStep ==
  ASSUME SettlementIInv, NEW d \in Payers, NEW p \in Periods, ConfirmDriverMonthSettlement(d, p)
  PROVE  SettlementIInv'
<1>1. /\ settlement[d][p] # NoSettlement
      /\ settlement' = [settlement EXCEPT ![d][p].status = "CONFIRMED"]
      /\ agreed' = [agreed EXCEPT ![d][p] = settlement[d][p].sum]
      /\ UNCHANGED <<thisMonth, trip, finishing, ended, sync, settled, crossed, undone>>
  BY DEF ConfirmDriverMonthSettlement
<1>2. PICK old \in Rows : old = settlement[d][p] /\ old.sum \in Sums
  BY <1>1, SettlementRows
<1>3. PICK new \in Rows : /\ new = [old EXCEPT !.status = "CONFIRMED"]
                          /\ new.sum = old.sum /\ new.status = "CONFIRMED" /\ new # NoSettlement
  <2> DEFINE new == [old EXCEPT !.status = "CONFIRMED"]
  <2>1. new \in Rows /\ new.sum = old.sum /\ new.status = "CONFIRMED"
    BY DEF Rows
  <2> HIDE DEF new
  <2>2. new # NoSettlement
    BY <2>1, NoSettlementAssumption
  <2> QED BY <2>1, <2>2 DEF new
<1>4. /\ settlement' \in [Payers -> [Periods -> Rows \cup {NoSettlement}]]
      /\ settlement'[d][p] = new
      /\ \A e \in Payers, q \in Periods : e # d \/ q # p => settlement'[e][q] = settlement[e][q]
  <2>1. settlement' = [settlement EXCEPT ![d][p] = new]
    BY <1>1, <1>2, <1>3
  <2>2. settlement \in [Payers -> [Periods -> Rows \cup {NoSettlement}]]
    BY DEF SettlementIInv, SettlementTyped
  <2> QED BY <2>1, <2>2
<1>5. /\ agreed' \in [Payers -> [Periods -> Sums]] /\ agreed'[d][p] = old.sum
      /\ \A e \in Payers, q \in Periods : e # d \/ q # p => agreed'[e][q] = agreed[e][q]
  <2>1. agreed' = [agreed EXCEPT ![d][p] = old.sum]
    BY <1>1, <1>2
  <2>2. agreed \in [Payers -> [Periods -> Sums]]
    BY DEF SettlementIInv, SettlementTyped
  <2> QED BY <1>2, <2>1, <2>2
<1>6. \A e \in Payers, q \in Periods :
        /\ settlement'[e][q] # NoSettlement <=> settlement[e][q] # NoSettlement
        /\ settlement[e][q] # NoSettlement => settlement'[e][q].sum = settlement[e][q].sum
  <2>1. ASSUME NEW e \in Payers, NEW q \in Periods
        PROVE  /\ settlement'[e][q] # NoSettlement <=> settlement[e][q] # NoSettlement
               /\ settlement[e][q] # NoSettlement => settlement'[e][q].sum = settlement[e][q].sum
    <3>1. CASE e = d /\ q = p
      BY <1>1, <1>2, <1>3, <1>4, <3>1
    <3>2. CASE ~(e = d /\ q = p)
      BY <1>4, <3>2
    <3> QED BY <3>1, <3>2
  <2> QED BY <2>1
<1>7. SettlementTyped' /\ TripsSummed'
  BY <1>1, <1>4, <1>5 DEF SettlementIInv, SettlementTyped, TripsSummed
<1>8. RowsBelow'
  BY <1>1, <1>6 DEF SettlementIInv, RowsBelow
<1>9. \A q \in Periods : InFlight(q)' = InFlight(q) /\ (Final(q)' <=> Final(q))
  BY <1>1 DEF InFlight, Final
<1>10. ItemsBelow' /\ FinalStays'
  BY <1>1, <1>9 DEF SettlementIInv, ItemsBelow, FinalStays, Completing
<1>11. \A q \in Periods, e \in Payers : RowRight(e, q)' <=> RowRight(e, q)
  BY <1>1, <1>6 DEF RowRight
<1>12. WholeWrites'
  BY <1>1, <1>9, <1>11 DEF SettlementIInv, WholeWrites
<1>13. RowsRise'
  <2>1. \A q \in Periods : \A s \in InFlight(q) : \A i \in sync[s].items : i.driver \in Payers
    BY SettlementRows DEF InFlight, Items
  <2>2. ASSUME NEW q \in Periods \ crossed, NEW s \in InFlight(q), NEW i \in sync[s].items,
               settlement'[i.driver][q] # NoSettlement, <<i.driver, q>> \notin undone
        PROVE  Below(settlement'[i.driver][q].sum, i.sum)
    <3>1. i.driver \in Payers /\ settlement[i.driver][q] # NoSettlement
      BY <1>6, <2>1, <2>2
    <3>2. Below(settlement[i.driver][q].sum, i.sum)
      BY <2>2, <3>1 DEF SettlementIInv, RowsRise
    <3> QED BY <1>6, <3>1, <3>2
  <2>3. \A q \in Periods \ crossed : \A s, x \in InFlight(q) : s = x
    BY DEF SettlementIInv, RowsRise
  <2> QED BY <1>1, <1>9, <2>2, <2>3 DEF RowsRise
<1>14. AgreedHolds'
  <2>1. ASSUME NEW e \in Payers, NEW q \in Periods, agreed'[e][q] # Zero
        PROVE  /\ settlement'[e][q] # NoSettlement /\ settlement'[e][q].status = "CONFIRMED"
               /\ q \notin crossed /\ <<e, q>> \notin undone => Below(agreed'[e][q], settlement'[e][q].sum)
    <3>1. CASE e = d /\ q = p
      BY <1>2, <1>3, <1>4, <1>5, <3>1, BelowIsOrder
    <3>2. CASE ~(e = d /\ q = p)
      BY <1>4, <1>5, <2>1, <3>2 DEF SettlementIInv, AgreedHolds
    <3> QED BY <3>1, <3>2
  <2> QED BY <1>1, <2>1 DEF AgreedHolds
<1> QED BY <1>7, <1>8, <1>10, <1>12, <1>13, <1>14 DEF SettlementIInv

LEMMA SettlementStarts == SettlementInit => SettlementIInv
<1> SUFFICES ASSUME SettlementInit PROVE SettlementIInv
  OBVIOUS
<1>1. /\ thisMonth = 1 /\ finishing = {} /\ settled = {} /\ crossed = {}
      /\ \A t \in Trips : trip[t].status = "OPEN"
      /\ \A d \in Payers, p \in Periods :
           ended[d][p] = Zero /\ settlement[d][p] = NoSettlement /\ agreed[d][p] = Zero
      /\ \A s \in Syncs : sync[s] = NoSync
  BY DEF SettlementInit
<1>2. Zero \in Sums /\ NoSync \in SyncRows /\ NoSync.pc = "idle"
  BY DEF Zero, Sums, NoSync, SyncRows
<1>3. SettlementTyped /\ TripsSummed
  <2>1. trip \in [Trips -> TripRows]
    BY DEF SettlementInit, TripRows, Statuses
  <2> QED BY <1>1, <1>2, <2>1 DEF SettlementInit, SettlementTyped, TripsSummed, Counts
<1>4. \A p \in Periods : InFlight(p) = {}
  BY <1>1, <1>2 DEF InFlight
<1>5. RowsBelow /\ AgreedHolds
  BY <1>1 DEF RowsBelow, AgreedHolds, Zero
<1>6. ItemsBelow /\ FinalStays /\ RowsRise
  BY <1>1, <1>4 DEF ItemsBelow, FinalStays, Final, RowsRise
<1>7. WholeWrites
  BY <1>1 DEF WholeWrites, Zero
<1> QED BY <1>3, <1>5, <1>6, <1>7 DEF SettlementIInv

LEMMA SettlementInductive == SettlementSpec => []SettlementIInv
<1>1. SettlementIInv /\ [SettlementNext]_settlementVars => SettlementIInv'
  <2> SUFFICES ASSUME SettlementIInv, [SettlementNext]_settlementVars
               PROVE  SettlementIInv'
    OBVIOUS
  <2>1. ASSUME NEW k \in Closers, NEW t \in Trips, TakeEndedAt(k, t) PROVE SettlementIInv'
    BY <2>1, TakeEndedAtStep
  <2>2. ASSUME NEW f \in finishing, CommitEnded(f) PROVE SettlementIInv'
    BY <2>2, CommitEndedStep
  <2>10. ASSUME NEW f \in finishing, EndedFails(f) PROVE SettlementIInv'
    BY <2>10, EndedFailsStep
  <2>3. CASE MonthPasses
    BY <2>3, MonthPassesStep
  <2>4. ASSUME NEW s \in Syncs, PersistMonthlySettlements(s) PROVE SettlementIInv'
    BY <2>4, PersistMonthlySettlementsStep
  <2>5. ASSUME NEW s \in Syncs, PersistRow(s) PROVE SettlementIInv'
    BY <2>5, PersistRowStep
  <2>6. ASSUME NEW s \in Syncs, SyncDone(s) PROVE SettlementIInv'
    BY <2>6, SyncDoneStep
  <2>7. ASSUME NEW s \in Syncs, SyncDies(s) PROVE SettlementIInv'
    BY <2>7, SyncDiesStep
  <2>8. ASSUME NEW d \in Payers, NEW p \in Periods, ConfirmDriverMonthSettlement(d, p)
        PROVE  SettlementIInv'
    BY <2>8, ConfirmStep
  <2>9. CASE UNCHANGED settlementVars
    <3>1. UNCHANGED <<thisMonth, trip, finishing, ended, settlement, sync, agreed, settled, crossed, undone>>
      BY <2>9 DEF settlementVars
    <3>2. /\ thisMonth' \in Nat /\ thisMonth' >= thisMonth
          /\ finishing' \subseteq Closings
      BY <3>1, SettlementRows
    <3> QED BY <3>1, <3>2, TimeMoves
  <2> QED BY <2>1, <2>2, <2>3, <2>4, <2>5, <2>6, <2>7, <2>8, <2>9, <2>10 DEF SettlementNext
<1> QED BY <1>1, SettlementStarts, PTL DEF SettlementSpec

(* Once a period has been synced after its end, its rows say what its trips *)
(* owe, through every later sync; and no sync takes back or lowers what an  *)
(* administrator confirmed, unless two syncs of the period overlapped.  A   *)
(* row is exempt once a completed trip has been taken out of its month; it  *)
(* stays confirmed all the same (persistMonthlySettlements,                 *)
(* confirmDriverMonthSettlement, completeTrip, cancelOrder).                *)
THEOREM SettlementsHold == SettlementSpec => []SettledForGood
<1>1. SettlementIInv => SettledForGood
  <2> SUFFICES ASSUME SettlementIInv PROVE SettledForGood
    OBVIOUS
  <2>1. ASSUME NEW p \in settled, NEW d \in Payers, <<d, p>> \notin undone
        PROVE  IF ended[d][p] = Zero THEN settlement[d][p] = NoSettlement
               ELSE settlement[d][p] # NoSettlement /\ settlement[d][p].sum = ended[d][p]
    <3>1. p \in Periods /\ ended[d][p] \in Sums
      BY SettlementRows
    <3>2. CASE ended[d][p] = Zero
      BY <2>1, <3>1, <3>2 DEF SettlementIInv, RowsBelow, Zero
    <3>3. CASE ended[d][p] # Zero
      <4>1. ended[d][p].trips > 0
        BY <2>1, <3>1, <3>3 DEF SettlementIInv, RowsBelow, Sums
      <4> QED BY <2>1, <3>1, <3>3, <4>1 DEF SettlementIInv, WholeWrites, RowRight
    <3> QED BY <3>2, <3>3
  <2>2. ConfirmedNotLowered
    <3>1. AgreedHolds
      BY DEF SettlementIInv
    <3>2. \A d \in Payers, p \in Periods : settlement[d][p] # NoSettlement =>
            settlement[d][p].sum \in Sums /\ agreed[d][p] \in Sums
      BY SettlementRows
    <3> QED BY <3>1, <3>2 DEF AgreedHolds, ConfirmedNotLowered, Below, Sums
  <2> QED BY <2>1, <2>2 DEF SettledForGood, SettledAddsUp
<1> QED BY <1>1, SettlementInductive, PTL

-----------------------------------------------------------------------------
(* The champions' programme.                                               *)

(* Unless moves overlapped, the one under way leads one month on.          *)
MonthIInv ==
  /\ calendar \in Nat /\ shown \in Nat \cup {Null} /\ meant \in Nat \cup {Null}
  /\ mover \in [Admins -> Nat \cup {Null}] /\ abreast \in BOOLEAN
  /\ ~abreast => /\ shown = meant
                 /\ \A s, x \in Moving : s = x
                 /\ \A s \in Moving : mover[s] = BaseMonth + 1

BonusMaps == [Tiers -> Nat]
Bodies    == UNION {[names -> Nat] : names \in SUBSET Tiers}
Patched   == [next : BonusMaps, body : Bodies]
Clamped(body, base) ==
  [t \in Tiers |-> IF t \notin DOMAIN body THEN base[t]
                   ELSE IF body[t] > MaxBonus THEN MaxBonus ELSE body[t]]

(* Unless patches overlapped, the one under way is of the map as it is.    *)
BonusIInv ==
  /\ bonuses \in BonusMaps \cup {Null} /\ named \in BonusMaps /\ mixed \in BOOLEAN
  /\ bonusPatch \in [Admins -> Patched \cup {NoPatchOf}]
  /\ ~mixed => /\ BonusMap = named
               /\ \A s, x \in Admins : bonusPatch[s] # NoPatchOf /\ bonusPatch[x] # NoPatchOf => s = x
               /\ \A s \in Admins : bonusPatch[s] # NoPatchOf =>
                    bonusPatch[s].next = Clamped(bonusPatch[s].body, BonusMap)

Totals    == [Sources -> Nat]
EditRows  == [pc : {"idle", "count"}, count : [Sources -> Nat \cup {Null}], from : Nat]

(* What the queries of an edit have returned lies between what had been    *)
(* gained when it began and what is gained now.                            *)
Tallied(e) ==
  \E g \in Totals : /\ e.from = XpOf(g)
                    /\ \A f \in Sources : g[f] <= gained[f] /\ (e.count[f] # Null =>
                         e.count[f] \in Nat /\ g[f] <= e.count[f] /\ e.count[f] <= gained[f])

XpIInv ==
  /\ gained \in Totals /\ xpEdit \in [Admins -> EditRows]
  /\ \A s \in Admins : xpEdit[s].pc = "count" => Tallied(xpEdit[s])
  /\ xpOverride \in [xp : Nat, base : Nat] \cup {Null} /\ bounds \in [from : Nat, to : Nat]
  /\ xpOverride # Null => /\ bounds.from <= xpOverride.base /\ xpOverride.base <= bounds.to
                          /\ bounds.to <= Real

LEMMA NullIsNothing ==
  /\ Null \notin Int /\ Null \notin Nat /\ Null \notin BonusMaps /\ NoPatchOf \notin Patched
  /\ Null \notin [xp : Nat, base : Nat]
<1>1. Null \notin Int /\ Null \notin [Tiers -> Int] /\ Null \notin [xp : Int, base : Int]
  BY NullAssumption
<1>2. Null \notin BonusMaps
  BY <1>1 DEF BonusMaps
<1>3. NoPatchOf \notin Patched
  BY <1>2 DEF NoPatchOf, Patched
<1> QED BY <1>1, <1>2, <1>3

(* A move on from the month shown, or its write.                           *)
LEMMA MonthStep ==
  ASSUME MonthIInv, [MonthNext]_monthVars
  PROVE  MonthIInv'
<1>1. /\ calendar \in Nat /\ shown \in Nat \cup {Null} /\ meant \in Nat \cup {Null} /\ abreast \in BOOLEAN
      /\ mover \in [Admins -> Nat \cup {Null}] /\ BaseMonth \in Nat
  BY DEF MonthIInv, BaseMonth
<1>2. ASSUME NEW s \in Admins, AdvanceMonth(s)
      PROVE  MonthIInv'
  <2>1. /\ mover[s] = Null /\ mover' = [mover EXCEPT ![s] = BaseMonth + 1]
        /\ UNCHANGED <<calendar, shown, meant>>
    BY <1>2 DEF AdvanceMonth
  <2>2. abreast' = (abreast \/ Moving # {})
    BY <1>2 DEF AdvanceMonth
  <2>3. BaseMonth + 1 \in Nat /\ BaseMonth' = BaseMonth
    BY <1>1, <2>1 DEF BaseMonth
  <2>4. /\ mover' \in [Admins -> Nat \cup {Null}] /\ mover'[s] = BaseMonth + 1
        /\ \A x \in Admins \ {s} : mover'[x] = mover[x]
    BY <1>1, <2>1, <2>3
  <2>5. abreast' \in BOOLEAN /\ (~abreast' => ~abreast /\ Moving = {})
    BY <2>2
  <2>6. ~abreast' => Moving' = {s}
    BY <2>3, <2>4, <2>5, NullIsNothing DEF Moving
  <2>7. ~abreast' => shown' = meant'
    BY <2>1, <2>5 DEF MonthIInv
  <2> QED BY <1>1, <2>1, <2>3, <2>4, <2>5, <2>6, <2>7 DEF MonthIInv
<1>3. ASSUME NEW s \in Admins, AdvanceMonthWrite(s)
      PROVE  MonthIInv'
  <2>1. /\ mover[s] # Null /\ shown' = mover[s] /\ UNCHANGED <<calendar, abreast>>
        /\ meant' = (IF meant = Null THEN calendar ELSE meant) + 1
        /\ mover' = [mover EXCEPT ![s] = Null]
    BY <1>3 DEF AdvanceMonthWrite
  <2>2. /\ mover' \in [Admins -> Nat \cup {Null}] /\ mover'[s] = Null
        /\ \A x \in Admins \ {s} : mover'[x] = mover[x]
    BY <1>1, <2>1
  <2>3. shown' \in Nat \cup {Null} /\ meant' \in Nat \cup {Null}
    BY <1>1, <2>1
  <2>4. ~abreast => Moving' = {}
    BY <2>1, <2>2 DEF MonthIInv, Moving
  <2>5. ~abreast => shown' = meant'
    BY <2>1 DEF MonthIInv, Moving, BaseMonth
  <2> QED BY <1>1, <2>1, <2>2, <2>3, <2>4, <2>5 DEF MonthIInv
<1>4. CASE ClearMonth \/ MonthTurns
  <2>1. /\ mover' = mover /\ calendar' \in Nat /\ shown' \in Nat \cup {Null} /\ meant' \in Nat \cup {Null}
        /\ shown = meant => shown' = meant'
    BY <1>1, <1>4 DEF ClearMonth, MonthTurns
  <2>2. abreast' = (abreast \/ Moving # {})
    BY <1>4 DEF ClearMonth, MonthTurns
  <2>3. abreast' \in BOOLEAN /\ (~abreast' => ~abreast /\ Moving = {})
    BY <2>2
  <2>4. Moving' = Moving
    BY <2>1 DEF Moving
  <2> QED BY <1>1, <2>1, <2>3, <2>4 DEF MonthIInv
<1>5. CASE UNCHANGED monthVars
  <2>1. UNCHANGED <<calendar, shown, mover, meant, abreast>>
    BY <1>5 DEF monthVars
  <2>2. Moving' = Moving /\ BaseMonth' = BaseMonth
    BY <2>1 DEF Moving, BaseMonth
  <2> QED BY <2>1, <2>2 DEF MonthIInv
<1> QED BY <1>2, <1>3, <1>4, <1>5 DEF MonthNext

LEMMA ClampedIsMap ==
  ASSUME NEW body \in Bodies, NEW base \in BonusMaps
  PROVE  Clamped(body, base) \in BonusMaps
<1>1. PICK names \in SUBSET Tiers : body \in [names -> Nat]
  BY DEF Bodies
<1>2. MaxBonus \in Nat
  BY ChampionsAssumption
<1>3. ASSUME NEW t \in Tiers
      PROVE  (IF t \notin DOMAIN body THEN base[t]
              ELSE IF body[t] > MaxBonus THEN MaxBonus ELSE body[t]) \in Nat
  BY <1>1, <1>2 DEF BonusMaps
<1> QED BY <1>3 DEF Clamped, BonusMaps

LEMMA BonusMapIsMap ==
  ASSUME BonusIInv
  PROVE  /\ BonusMap \in BonusMaps
         /\ bonuses # Null => BonusMap = bonuses
<1>1. Uniform \in Nat
  BY ChampionsAssumption
<1> QED BY <1>1 DEF BonusIInv, BonusMap, BonusMaps

(* A patch of the bonuses, or its write.                                   *)
LEMMA BonusStep ==
  ASSUME BonusIInv, [BonusNext]_bonusVars
  PROVE  BonusIInv'
<1>1. /\ bonuses \in BonusMaps \cup {Null} /\ named \in BonusMaps /\ mixed \in BOOLEAN
      /\ bonusPatch \in [Admins -> Patched \cup {NoPatchOf}]
  BY DEF BonusIInv
<1>2. ASSUME NEW s \in Admins, PatchBonuses(s)
      PROVE  BonusIInv'
  <2>1. PICK names \in SUBSET Tiers : \E body \in [names -> 0..(MaxBonus + 1)] :
          bonusPatch' = [bonusPatch EXCEPT ![s] = [next |-> BonusMerged(body), body |-> body]]
    BY <1>2 DEF PatchBonuses
  <2>2. PICK body \in [names -> 0..(MaxBonus + 1)] :
          bonusPatch' = [bonusPatch EXCEPT ![s] = [next |-> BonusMerged(body), body |-> body]]
    BY <2>1
  <2>3. bonusPatch[s] = NoPatchOf /\ UNCHANGED <<bonuses, named>>
    BY <1>2 DEF PatchBonuses
  <2>4. mixed' = (mixed \/ \E x \in Admins : bonusPatch[x] # NoPatchOf)
    BY <1>2 DEF PatchBonuses
  <2>5. mixed' \in BOOLEAN /\ (~mixed' => ~mixed /\ \A x \in Admins : bonusPatch[x] = NoPatchOf)
    BY <2>4
  <2>6. body \in Bodies
    BY <2>2, ChampionsAssumption DEF Bodies
  <2>7. BonusMerged(body) = Clamped(body, BonusMap)
    BY DEF BonusMerged, Clamped
  <2>8. PICK new \in Patched : new = [next |-> Clamped(body, BonusMap), body |-> body]
    BY <2>6, BonusMapIsMap, ClampedIsMap DEF Patched
  <2>9. /\ bonusPatch' \in [Admins -> Patched \cup {NoPatchOf}] /\ bonusPatch'[s] = new
        /\ \A x \in Admins \ {s} : bonusPatch'[x] = bonusPatch[x]
    BY <1>1, <2>2, <2>7, <2>8
  <2>10. BonusMap' = BonusMap
    BY <2>3 DEF BonusMap
  <2>11. ~mixed' => BonusMap' = named'
    BY <2>3, <2>5, <2>10 DEF BonusIInv
  <2>12. new.next = Clamped(new.body, BonusMap)
    BY <2>8
  <2>13. Clamped(new.body, BonusMap)' = Clamped(new.body, BonusMap)
    BY <2>10 DEF Clamped
  <2> QED BY <1>1, <2>3, <2>5, <2>9, <2>10, <2>11, <2>12, <2>13 DEF BonusIInv
<1>3. ASSUME NEW s \in Admins, PatchBonusesWrite(s)
      PROVE  BonusIInv'
  <2>1. /\ bonusPatch[s] # NoPatchOf /\ bonuses' = bonusPatch[s].next /\ mixed' = mixed
        /\ named' = Clamped(bonusPatch[s].body, named)
        /\ bonusPatch' = [bonusPatch EXCEPT ![s] = NoPatchOf]
    BY <1>3 DEF PatchBonusesWrite, Clamped
  <2>2. PICK old \in Patched : old = bonusPatch[s] /\ old.next \in BonusMaps /\ old.body \in Bodies
    BY <1>1, <2>1 DEF Patched
  <2>3. /\ bonusPatch' \in [Admins -> Patched \cup {NoPatchOf}] /\ bonusPatch'[s] = NoPatchOf
        /\ \A x \in Admins \ {s} : bonusPatch'[x] = bonusPatch[x]
    BY <1>1, <2>1
  <2>4. bonuses' \in BonusMaps /\ named' \in BonusMaps
    BY <1>1, <2>1, <2>2, ClampedIsMap
  <2>5. BonusMap' = bonuses'
    BY <2>4, NullIsNothing DEF BonusMap, BonusMaps
  <2>6. ~mixed => BonusMap' = named'
    BY <2>1, <2>2, <2>5 DEF BonusIInv
  <2>7. ~mixed => \A x \in Admins : bonusPatch'[x] = NoPatchOf
    BY <2>1, <2>3 DEF BonusIInv
  <2> QED BY <1>1, <2>1, <2>3, <2>4, <2>6, <2>7 DEF BonusIInv
<1>4. CASE UNCHANGED bonusVars
  <2>1. UNCHANGED <<bonuses, bonusPatch, named, mixed>>
    BY <1>4 DEF bonusVars
  <2>2. BonusMap' = BonusMap
    BY <2>1 DEF BonusMap
  <2>3. \A s \in Admins : Clamped(bonusPatch[s].body, BonusMap)' = Clamped(bonusPatch[s].body, BonusMap)
    BY <2>1, <2>2 DEF Clamped
  <2> QED BY <2>1, <2>2, <2>3 DEF BonusIInv
<1> QED BY <1>2, <1>3, <1>4 DEF BonusNext

(* More gained is no less XP, rounding and all.                            *)
LEMMA XpGrows ==
  ASSUME NEW a \in Totals, NEW b \in Totals, \A f \in Sources : a[f] <= b[f]
  PROVE  XpOf(a) \in Nat /\ XpOf(a) <= XpOf(b)
<1>1. /\ a["trips"] \in Nat /\ a["minutes"] \in Nat /\ a["pings"] \in Nat
      /\ b["trips"] \in Nat /\ b["minutes"] \in Nat /\ b["pings"] \in Nat
      /\ a["trips"] <= b["trips"] /\ a["minutes"] <= b["minutes"] /\ a["pings"] <= b["pings"]
  BY DEF Totals, Sources
<1>2. TripXp \in Nat
  BY ChampionsAssumption
<1>3. TripXp * a["trips"] \in Nat /\ TripXp * b["trips"] \in Nat /\ TripXp * a["trips"] <= TripXp * b["trips"]
  <2>1. PICK more \in Nat : b["trips"] = a["trips"] + more
    <3>1. b["trips"] - a["trips"] \in Nat /\ b["trips"] = a["trips"] + (b["trips"] - a["trips"])
      BY <1>1
    <3> QED BY <3>1
  <2>2. TripXp * (a["trips"] + more) = TripXp * a["trips"] + TripXp * more
    BY <1>1, <1>2
  <2>3. TripXp * more \in Nat /\ TripXp * a["trips"] \in Nat
    BY <1>1, <1>2
  <2> QED BY <1>1, <2>1, <2>2, <2>3
<1>4. /\ (4 * a["pings"] + 5) \div 10 \in Nat /\ (4 * b["pings"] + 5) \div 10 \in Nat
      /\ (4 * a["pings"] + 5) \div 10 <= (4 * b["pings"] + 5) \div 10
  BY <1>1
<1> QED BY <1>1, <1>3, <1>4 DEF XpOf

LEMMA XpRows ==
  ASSUME XpIInv
  PROVE  /\ gained \in Totals /\ Real \in Nat
         /\ \A s \in Admins : xpEdit[s] \in EditRows
         /\ \A f \in Sources : gained[f] \in Nat
  BY XpGrows DEF XpIInv, Real, Totals

(* A trip or a ping: every edit under way has begun before.                *)
LEMMA GainsStep ==
  ASSUME XpIInv, gained' \in Totals, \A f \in Sources : gained[f] <= gained'[f],
         UNCHANGED <<xpOverride, xpEdit, bounds>>
  PROVE  XpIInv'
<1>1. Real' \in Nat /\ Real <= Real'
  <2>1. PICK g \in Totals : g = gained' /\ \A f \in Sources : gained[f] <= g[f]
    OBVIOUS
  <2>2. XpOf(gained) <= XpOf(g) /\ XpOf(g) \in Nat
    <3>1. gained \in Totals /\ \A f \in Sources : gained[f] <= g[f]
      BY <2>1, XpRows
    <3>2. \A f \in Sources : g[f] <= g[f]
      BY DEF Totals
    <3>3. XpOf(gained) <= XpOf(g)
      BY <3>1, XpGrows
    <3>4. XpOf(g) \in Nat
      BY <3>2, XpGrows
    <3> QED BY <3>3, <3>4
  <2> QED BY <2>1, <2>2 DEF Real, XpOf
<1>2. ASSUME NEW s \in Admins, xpEdit[s].pc = "count"
      PROVE  Tallied(xpEdit[s])'
  <2>1. PICK g \in Totals :
          /\ xpEdit[s].from = XpOf(g)
          /\ \A f \in Sources : g[f] <= gained[f] /\ (xpEdit[s].count[f] # Null =>
               xpEdit[s].count[f] \in Nat /\ g[f] <= xpEdit[s].count[f] /\ xpEdit[s].count[f] <= gained[f])
    BY <1>2 DEF XpIInv, Tallied
  <2>2. ASSUME NEW f \in Sources
        PROVE  g[f] <= gained'[f] /\ (xpEdit[s].count[f] # Null =>
                 xpEdit[s].count[f] \in Nat /\ g[f] <= xpEdit[s].count[f] /\ xpEdit[s].count[f] <= gained'[f])
    <3>1. g[f] \in Nat /\ gained[f] \in Nat /\ gained'[f] \in Nat
      BY XpRows DEF Totals
    <3>2. g[f] <= gained[f] /\ gained[f] <= gained'[f]
      BY <2>1
    <3>3. xpEdit[s].count[f] # Null =>
            xpEdit[s].count[f] \in Nat /\ g[f] <= xpEdit[s].count[f] /\ xpEdit[s].count[f] <= gained[f]
      BY <2>1
    <3> QED BY <3>1, <3>2, <3>3
  <2>3. xpEdit'[s] = xpEdit[s]
    OBVIOUS
  <2> QED BY <2>1, <2>2, <2>3 DEF Tallied, XpOf
<1>3. xpOverride # Null => bounds.to <= Real'
  BY <1>1, XpRows DEF XpIInv
<1> QED BY <1>2, <1>3 DEF XpIInv

(* One edit moves.                                                         *)
LEMMA EditMoves ==
  ASSUME XpIInv, NEW s \in Admins, NEW e \in EditRows, xpEdit' = [xpEdit EXCEPT ![s] = e],
         UNCHANGED gained, e.pc = "count" => Tallied(e),
         xpOverride' \in [xp : Nat, base : Nat] \cup {Null}, bounds' \in [from : Nat, to : Nat],
         xpOverride' # Null => /\ bounds'.from <= xpOverride'.base /\ xpOverride'.base <= bounds'.to
                               /\ bounds'.to <= Real
  PROVE  XpIInv'
<1>1. /\ xpEdit' \in [Admins -> EditRows] /\ xpEdit'[s] = e
      /\ \A x \in Admins \ {s} : xpEdit'[x] = xpEdit[x]
  BY DEF XpIInv
<1>2. Real' = Real
  BY DEF Real, XpOf
<1>3. ASSUME NEW x \in Admins, xpEdit'[x].pc = "count"
      PROVE  Tallied(xpEdit[x])'
  <2>1. PICK y \in EditRows : y = xpEdit'[x]
    BY <1>1
  <2>2. Tallied(y)
    BY <1>1, <1>3, <2>1 DEF XpIInv
  <2> QED BY <2>1, <2>2 DEF Tallied, XpOf
<1> QED BY <1>1, <1>2, <1>3 DEF XpIInv

LEMMA IdleRow == IdleEdit \in EditRows /\ IdleEdit.pc = "idle" /\ \A f \in Sources : IdleEdit.count[f] = Null
BY DEF IdleEdit, EditRows, NoCount

LEMMA EditXpStep ==
  ASSUME XpIInv, NEW s \in Admins, EditXp(s)
  PROVE  XpIInv'
<1>1. /\ xpEdit' = [xpEdit EXCEPT ![s] = [IdleEdit EXCEPT !.pc = "count", !.from = Real]]
      /\ UNCHANGED <<gained, xpOverride, bounds>>
  BY DEF EditXp
<1> DEFINE e == [IdleEdit EXCEPT !.pc = "count", !.from = Real]
<1>2. /\ e \in EditRows /\ e.from = Real
      /\ \A f \in Sources : e.count[f] = Null
  BY IdleRow, XpRows DEF EditRows
<1> HIDE DEF e
<1>3. Tallied(e)
  <2>1. \A f \in Sources : gained[f] \in Nat /\ gained[f] <= gained[f]
    BY XpRows
  <2> QED BY <1>2, <2>1, XpRows DEF Tallied, Real
<1>4. xpEdit' = [xpEdit EXCEPT ![s] = e]
  BY <1>1 DEF e
<1> QED BY <1>1, <1>2, <1>3, <1>4, EditMoves DEF XpIInv

(* One of the three queries returns.                                       *)
LEMMA CountXpStep ==
  ASSUME XpIInv, NEW s \in Admins, CountXp(s)
  PROVE  XpIInv'
<1>1. PICK f \in Sources : xpEdit' = [xpEdit EXCEPT ![s].count[f] = gained[f]]
  BY DEF CountXp
<1>2. xpEdit[s].pc = "count" /\ UNCHANGED <<gained, xpOverride, bounds>>
  BY DEF CountXp
<1>3. PICK old \in EditRows : old = xpEdit[s] /\ old.count \in [Sources -> Nat \cup {Null}]
  BY XpRows DEF EditRows
<1>4. PICK count \in [Sources -> Nat \cup {Null}] :
        count = [old.count EXCEPT ![f] = gained[f]]
  BY <1>3, XpRows
<1>5. PICK e \in EditRows : /\ e = [old EXCEPT !.count = count]
                            /\ e.count = count /\ e.from = old.from
  <2>1. [old EXCEPT !.count = count] \in EditRows
    BY DEF EditRows
  <2>2. [old EXCEPT !.count = count].count = count /\ [old EXCEPT !.count = count].from = old.from
    BY DEF EditRows
  <2> QED BY <2>1, <2>2
<1>6. xpEdit' = [xpEdit EXCEPT ![s] = e]
  BY <1>1, <1>3, <1>4, <1>5
<1>7. Tallied(e)
  <2>1. PICK g \in Totals :
          /\ old.from = XpOf(g)
          /\ \A h \in Sources : g[h] <= gained[h] /\ (old.count[h] # Null =>
               old.count[h] \in Nat /\ g[h] <= old.count[h] /\ old.count[h] <= gained[h])
    BY <1>2, <1>3 DEF XpIInv, Tallied
  <2>2. ASSUME NEW h \in Sources
        PROVE  g[h] <= gained[h] /\ (count[h] # Null =>
                 count[h] \in Nat /\ g[h] <= count[h] /\ count[h] <= gained[h])
    <3>1. CASE h = f
      <4>1. count[h] = gained[h] /\ gained[h] \in Nat
        BY <1>3, <1>4, <3>1, XpRows
      <4> QED BY <2>1, <4>1
    <3>2. CASE h # f
      <4>1. count[h] = old.count[h]
        BY <1>3, <1>4, <3>2
      <4> QED BY <2>1, <4>1
    <3> QED BY <3>1, <3>2
  <2> QED BY <1>5, <2>1, <2>2 DEF Tallied
<1> QED BY <1>2, <1>6, <1>7, EditMoves DEF XpIInv

(* The row is written from what the queries returned.                      *)
LEMMA WriteXpStep ==
  ASSUME XpIInv, NEW s \in Admins, WriteXp(s)
  PROVE  XpIInv'
<1>1. /\ xpEdit[s].pc = "count" /\ \A f \in Sources : xpEdit[s].count[f] # Null
      /\ bounds' = [from |-> xpEdit[s].from, to |-> Real]
      /\ xpEdit' = [xpEdit EXCEPT ![s] = IdleEdit] /\ UNCHANGED gained
  BY DEF WriteXp
<1>2. PICK xp \in 0..MaxTarget : xpOverride' = [xp |-> xp, base |-> XpOf(xpEdit[s].count)]
  BY DEF WriteXp
<1>3. PICK g \in Totals :
        /\ xpEdit[s].from = XpOf(g)
        /\ \A f \in Sources : g[f] <= gained[f] /\ (xpEdit[s].count[f] # Null =>
             xpEdit[s].count[f] \in Nat /\ g[f] <= xpEdit[s].count[f] /\ xpEdit[s].count[f] <= gained[f])
  BY <1>1 DEF XpIInv, Tallied
<1>4. PICK c \in Totals : c = xpEdit[s].count
  <2>1. xpEdit[s].count \in [Sources -> Nat \cup {Null}]
    BY XpRows DEF EditRows
  <2>2. \A f \in Sources : xpEdit[s].count[f] \in Nat
    BY <1>1, <1>3
  <2> QED BY <2>1, <2>2 DEF Totals
<1>5. /\ XpOf(g) \in Nat /\ XpOf(g) <= XpOf(c) /\ XpOf(c) \in Nat /\ XpOf(c) <= Real
  <2>1. (\A f \in Sources : g[f] <= c[f]) /\ \A f \in Sources : c[f] <= gained[f]
    BY <1>1, <1>3, <1>4
  <2> QED BY <2>1, XpRows, XpGrows DEF Real
<1>6. /\ xpOverride' = [xp |-> xp, base |-> XpOf(c)] /\ bounds' = [from |-> XpOf(g), to |-> Real]
      /\ xp \in Nat
  BY <1>1, <1>2, <1>3, <1>4, ChampionsAssumption
<1>7. /\ xpOverride' \in [xp : Nat, base : Nat] \cup {Null} /\ bounds' \in [from : Nat, to : Nat]
      /\ bounds'.from <= xpOverride'.base /\ xpOverride'.base <= bounds'.to /\ bounds'.to <= Real
  BY <1>5, <1>6, XpRows
<1> QED BY <1>1, <1>7, IdleRow, EditMoves

LEMMA XpStep ==
  ASSUME XpIInv, [XpNext]_xpVars
  PROVE  XpIInv'
<1>1. CASE XpTrip
  <2>1. PICK min \in 0..1 : gained' = [gained EXCEPT !["trips"] = @ + 1, !["minutes"] = @ + min]
    BY <1>1 DEF XpTrip
  <2>2. gained' \in Totals /\ \A f \in Sources : gained[f] <= gained'[f]
    BY <2>1, XpRows DEF Totals, Sources
  <2> QED BY <1>1, <2>2, GainsStep DEF XpTrip
<1>2. CASE XpPing
  <2>1. gained' \in Totals /\ \A f \in Sources : gained[f] <= gained'[f]
    BY <1>2, XpRows DEF XpPing, Totals, Sources
  <2> QED BY <1>2, <2>1, GainsStep DEF XpPing
<1>3. CASE DeleteXp
  <2>1. xpOverride' = Null /\ bounds' = [from |-> 0, to |-> 0] /\ UNCHANGED <<gained, xpEdit>>
    BY <1>3 DEF DeleteXp
  <2>2. ASSUME NEW s \in Admins, xpEdit[s].pc = "count"
        PROVE  Tallied(xpEdit[s])'
    BY <2>1, <2>2 DEF XpIInv, Tallied, XpOf
  <2> QED BY <2>1, <2>2 DEF XpIInv
<1>4. ASSUME NEW s \in Admins, EditXp(s) \/ CountXp(s) \/ WriteXp(s)
      PROVE  XpIInv'
  BY <1>4, EditXpStep, CountXpStep, WriteXpStep
<1>5. CASE UNCHANGED xpVars
  <2>1. UNCHANGED <<gained, xpOverride, xpEdit, bounds>>
    BY <1>5 DEF xpVars
  <2>2. gained' \in Totals /\ \A f \in Sources : gained[f] <= gained'[f]
    BY <2>1, XpRows
  <2> QED BY <2>1, <2>2, GainsStep
<1> QED BY <1>1, <1>2, <1>3, <1>4, <1>5 DEF XpNext

-----------------------------------------------------------------------------
(* The tier of an XP.                                                      *)

LEMMA LeastNatural ==
  ASSUME NEW T \in SUBSET Nat, T # {}
  PROVE  \E m \in T : \A k \in T : m <= k
<1>1. PICK R : R = OpToRel(<, Nat)
  OBVIOUS
<1>2. IsWellFoundedOn(R, Nat)
  BY <1>1, NatLessThanWellFounded
<1>3. PICK m \in T : \A k \in T : <<k, m>> \notin R
  BY <1>2, WFMin
<1>4. \A k \in Nat : k < m => <<k, m>> \in R
  BY <1>1 DEF OpToRel
<1>5. ASSUME NEW k \in T
      PROVE  m <= k
  <2>1. m \in Nat /\ k \in Nat /\ ~(k < m)
    BY <1>3, <1>4
  <2> QED BY <2>1
<1> QED BY <1>5

(* The tiers up to t that an XP reaches: the first always.                 *)
UpTo(xp, t) == {u \in 1..t : u = 1 \/ Reached(xp, u)}
Highest(S, t) == t \in S /\ \A u \in S : u <= t

LEMMA TierRows ==
  /\ Cardinality(Tiers) \in Nat \ {0} /\ Tiers = 1..Cardinality(Tiers) /\ Cardinality(Tiers) \in Tiers
  /\ \A t \in Tiers : XpTier[t] \in Nat
  /\ XpTier[1] = 0
<1>1. Cardinality(Tiers) \in Nat /\ Tiers = 1..Cardinality(Tiers) /\ Tiers # {}
  BY ChampionsAssumption
<1>2. PICK n \in Nat : n = Cardinality(Tiers) /\ Tiers = 1..n /\ n # 0
  BY <1>1
<1>3. \A t \in Tiers : XpTier[t] \in Nat
  BY ChampionsAssumption
<1>4. n \in 1..n /\ n \in Nat \ {0}
  BY <1>2
<1>5. XpTier[1] = 0
  BY ChampionsAssumption
<1> QED BY <1>1, <1>2, <1>3, <1>4, <1>5

LEMMA HighestExists ==
  ASSUME NEW xp \in Nat, NEW t \in Nat \ {0}
  PROVE  \E u \in UpTo(xp, t) : Highest(UpTo(xp, t), u)
<1> DEFINE Rest == {k \in Nat : k <= t /\ t - k \in UpTo(xp, t)}
<1>1. 1 \in UpTo(xp, t) /\ UpTo(xp, t) \subseteq 1..t
  BY DEF UpTo
<1>2. t - 1 \in Rest
  BY <1>1
<1>3. PICK k \in Rest : \A j \in Rest : k <= j
  BY <1>2, LeastNatural
<1>4. ASSUME NEW u \in UpTo(xp, t)
      PROVE  u <= t - k
  <2>1. u \in Nat /\ u <= t /\ t - u \in Nat /\ t - (t - u) = u
    BY <1>1
  <2>2. t - u \in Rest
    BY <2>1
  <2>3. k \in Nat /\ k <= t - u
    BY <1>3, <2>2
  <2> QED BY <2>1, <2>3
<1>5. t - k \in UpTo(xp, t)
  BY <1>3
<1> QED BY <1>4, <1>5 DEF Highest

(* computeLevel, read from the first tier up, is the recursive function of *)
(* the model; it exists, and it gives the highest tier reached.            *)
LEMMA LevelIsHighest ==
  ASSUME NEW xp \in Nat
  PROVE  Highest(UpTo(xp, Cardinality(Tiers)), Level(xp))
<1> DEFINE Step(f) == [t \in Tiers |-> IF t = 1 \/ Reached(xp, t) THEN t ELSE f[t - 1]]
           best == [t \in Tiers |-> CHOOSE u \in UpTo(xp, t) : Highest(UpTo(xp, t), u)]
           from == CHOOSE f : f = Step(f)
<1>1. \A t \in Tiers : t \in Nat \ {0} /\ (t # 1 => t - 1 \in Tiers)
  BY TierRows
<1>2. ASSUME NEW t \in Tiers, t = 1 \/ Reached(xp, t)
      PROVE  \A u : Highest(UpTo(xp, t), u) <=> u = t
  <2>1. t \in UpTo(xp, t) /\ UpTo(xp, t) \subseteq 1..t /\ t \in Nat
    BY <1>1, <1>2 DEF UpTo
  <2> QED BY <2>1 DEF Highest
<1>3. ASSUME NEW t \in Tiers, ~(t = 1 \/ Reached(xp, t))
      PROVE  UpTo(xp, t) = UpTo(xp, t - 1) /\ t - 1 \in Tiers
  <2>1. t \in Nat /\ t # 1 /\ t - 1 \in Tiers
    BY <1>1, <1>3
  <2>2. \A u \in 1..t : u = t \/ u \in 1..(t - 1)
    BY <2>1
  <2>3. 1..(t - 1) \subseteq 1..t
    BY <2>1
  <2> QED BY <1>3, <2>1, <2>2, <2>3 DEF UpTo
<1>4. ASSUME NEW t \in Tiers
      PROVE  Highest(UpTo(xp, t), best[t])
  BY <1>1, HighestExists
<1>5. best = Step(best)
  <2>1. ASSUME NEW t \in Tiers
        PROVE  best[t] = Step(best)[t]
    <3>1. CASE t = 1 \/ Reached(xp, t)
      <4>1. best[t] = t
        BY <1>2, <1>4, <3>1
      <4> QED BY <3>1, <4>1
    <3>2. CASE ~(t = 1 \/ Reached(xp, t))
      <4>1. best[t] = best[t - 1]
        BY <1>3, <3>2
      <4> QED BY <3>2, <4>1
    <3> QED BY <3>1, <3>2
  <2>2. best = [t \in Tiers |-> best[t]]
    OBVIOUS
  <2>3. Step(best) = [t \in Tiers |-> Step(best)[t]]
    OBVIOUS
  <2> HIDE DEF best, Step
  <2> QED BY <2>1, <2>2, <2>3
<1>6. from = Step(from)
  <2> HIDE DEF best, Step
  <2> QED BY <1>5
<1>7. Level(xp) = from[Cardinality(Tiers)]
  BY DEF Level
<1>8. ASSUME NEW t \in Tiers
      PROVE  from[t] = IF t = 1 \/ Reached(xp, t) THEN t ELSE from[t - 1]
  <2>1. from[t] = Step(from)[t]
    BY <1>6
  <2>2. \A f : Step(f)[t] = IF t = 1 \/ Reached(xp, t) THEN t ELSE f[t - 1]
    OBVIOUS
  <2> HIDE DEF from, Step
  <2> QED BY <2>1, <2>2
<1> HIDE DEF from
<1> DEFINE Wrong == {t \in Tiers : ~Highest(UpTo(xp, t), from[t])}
<1>9. Wrong = {}
  <2> SUFFICES ASSUME Wrong # {} PROVE FALSE
    OBVIOUS
  <2>1. Wrong \in SUBSET Nat
    BY <1>1
  <2>2. PICK m \in Wrong : \A k \in Wrong : m <= k
    BY <2>1, LeastNatural
  <2>3. CASE m = 1 \/ Reached(xp, m)
    <3>1. from[m] = m
      BY <1>8, <2>3
    <3> QED BY <1>2, <2>3, <3>1
  <2>4. CASE ~(m = 1 \/ Reached(xp, m))
    <3>1. from[m] = from[m - 1] /\ UpTo(xp, m) = UpTo(xp, m - 1) /\ m - 1 \in Tiers
      BY <1>3, <1>8, <2>4
    <3>2. m - 1 \notin Wrong
      BY <1>1, <2>2
    <3> QED BY <3>1, <3>2
  <2> QED BY <2>3, <2>4
<1> QED BY <1>7, <1>9, TierRows

LEMMA EffectiveIsXp ==
  ASSUME XpIInv
  PROVE  Effective \in Nat
<1>1. xpOverride # Null => xpOverride.xp \in Nat /\ xpOverride.base \in Nat
  BY DEF XpIInv
<1>2. Real \in Nat
  BY XpRows
<1> QED BY <1>1, <1>2 DEF Effective, NotBelow0

LEMMA ChampionsInductive == ChampionsSpec => [](MonthIInv /\ BonusIInv /\ XpIInv)
<1>1. MonthInit => MonthIInv
  <2> SUFFICES ASSUME MonthInit PROVE MonthIInv
    OBVIOUS
  <2>1. mover \in [Admins -> Nat \cup {Null}] /\ \A s \in Admins : mover[s] = Null
    BY DEF MonthInit
  <2>2. Moving = {}
    BY <2>1 DEF Moving
  <2>3. calendar \in Nat /\ shown = Null /\ meant = Null /\ abreast \in BOOLEAN
    BY DEF MonthInit
  <2> QED BY <2>1, <2>2, <2>3 DEF MonthIInv
<1>2. BonusInit => BonusIInv
  <2> SUFFICES ASSUME BonusInit PROVE BonusIInv
    OBVIOUS
  <2>1. Uniform \in Nat
    BY ChampionsAssumption
  <2>2. BonusMap = named /\ named \in BonusMaps
    BY <2>1 DEF BonusInit, BonusMap, BonusMaps
  <2> QED BY <2>2 DEF BonusInit, BonusIInv
<1>3. XpInit => XpIInv
  BY IdleRow DEF XpInit, XpIInv, Totals
<1>4. MonthIInv /\ [MonthNext]_monthVars => MonthIInv'
  BY MonthStep
<1>5. BonusIInv /\ [BonusNext]_bonusVars => BonusIInv'
  BY BonusStep
<1>6. XpIInv /\ [XpNext]_xpVars => XpIInv'
  BY XpStep
<1> QED BY <1>1, <1>2, <1>3, <1>4, <1>5, <1>6, PTL DEF ChampionsSpec

(* The edits of administrators add up: each move leads one month on, a     *)
(* patch of a tier's bonus leaves the others, an overridden XP grows with  *)
(* what is earned, and the tier shown is the highest that the XP reaches   *)
(* (advanceChampionsMonthOverride, patchXpTierBonusesForAdmin,             *)
(* upsertDriverLifetimeXpOverride, computeLevel).                          *)
THEOREM ChampionsAddUp == ChampionsSpec => []EditsAddUp
<1>1. MonthIInv /\ BonusIInv /\ XpIInv => EditsAddUp
  <2> SUFFICES ASSUME MonthIInv, BonusIInv, XpIInv PROVE EditsAddUp
    OBVIOUS
  <2>1. MovesAddUp /\ BonusesAddUp
    BY DEF MonthIInv, BonusIInv, MovesAddUp, BonusesAddUp
  <2>2. XpGrowsFromOverride
    <3> SUFFICES ASSUME xpOverride # Null
                 PROVE  Effective - xpOverride.xp \in (Real - bounds.to)..(Real - bounds.from)
      BY DEF XpGrowsFromOverride
    <3>1. /\ xpOverride.xp \in Nat /\ xpOverride.base \in Nat /\ bounds.from \in Nat /\ bounds.to \in Nat
          /\ bounds.from <= xpOverride.base /\ xpOverride.base <= bounds.to /\ bounds.to <= Real
      BY DEF XpIInv
    <3>2. Real \in Nat
      BY XpRows
    <3>3. Effective = xpOverride.xp + (Real - xpOverride.base)
      BY <3>1, <3>2 DEF Effective, NotBelow0
    <3> QED BY <3>1, <3>2, <3>3
  <2>3. LevelFits
    <3>1. PICK xp \in Nat : xp = Effective
      BY EffectiveIsXp
    <3>2. PICK t : t = Level(xp)
      OBVIOUS
    <3>3. Highest(UpTo(xp, Cardinality(Tiers)), t)
      BY <3>2, LevelIsHighest
    <3>4. t \in Tiers /\ (t = 1 \/ Reached(xp, t))
      BY <3>3, TierRows DEF Highest, UpTo
    <3>5. XpTier[t] <= xp
      BY <3>4, TierRows DEF Reached
    <3>6. ASSUME NEW u \in Tiers, u > t
          PROVE  xp < XpTier[u]
      <4>1. u \in 1..Cardinality(Tiers) /\ u \in Nat /\ t \in Nat /\ XpTier[u] \in Nat
        BY <3>4, TierRows
      <4>2. u \notin UpTo(xp, Cardinality(Tiers))
        BY <3>3, <3>6, <4>1 DEF Highest
      <4>3. ~Reached(xp, u)
        BY <4>1, <4>2 DEF UpTo
      <4> QED BY <4>1, <4>3 DEF Reached
    <3> QED BY <3>1, <3>2, <3>5, <3>6 DEF LevelFits
  <2> QED BY <2>1, <2>2, <2>3 DEF EditsAddUp
<1> QED BY <1>1, ChampionsInductive, PTL

-----------------------------------------------------------------------------
(* The leaderboard.                                                        *)

LineRows     == [driver : Racers, rating : Nat, trips : Int, score : Int]
Better(S, x) == {y \in S : Above(y, x)}
Rank(S, x)   == Cardinality(Better(S, x)) + 1
NoTies(S)    == \A x, y \in S : x # y => Key(x) # Key(y)

(* The first k lines have been shown, each with its rank.                  *)
Shown(S, got, k) ==
  /\ Len(got) = k
  /\ \A i \in 1..k : \E x \in S : Rank(S, x) = i /\ got[i] = [rank |-> i, driver |-> x.driver]

(* A reader whose board has not changed has the lines before its offset, or *)
(* all of them.                                                            *)
ReaderOK ==
  LET lines == Lines(reader.kind)
  IN  reader.calm /\ NoTies(lines) =>
        /\ reader.pc = "page" => /\ reader.offset <= Cardinality(lines)
                                 /\ Shown(lines, reader.got, reader.offset)
        /\ reader.pc = "read" => Shown(lines, reader.got, Cardinality(lines))

Overrides == [score : Nat, trips : Nat, baseTrips : Nat, baseCancels : Nat]
Edits     == [pc : {"write"}, driver : Racers, trips : Nat, cancels : Nat]
RankRows  == [rank : Int, driver : Racers]

BoardIInv ==
  /\ members \subseteq Racers
  /\ done \in [Racers -> Nat] /\ cancelled \in [Racers -> Nat]
  /\ override \in [Racers -> Overrides \cup {NoOverride}]
  /\ editor \in Edits \cup {NoEdit}
  /\ reader \in [pc : {"idle", "page", "read"}, kind : {"driver", "admin"}, offset : Nat,
                 got : Seq(RankRows), calm : BOOLEAN]
  /\ ReaderOK

LEMMA AboveOrder ==
  ASSUME NEW x \in LineRows, NEW y \in LineRows
  PROVE  /\ ~Above(x, x)
         /\ Above(x, y) => ~Above(y, x)
         /\ Key(x) # Key(y) => Above(x, y) \/ Above(y, x)
         /\ \A z \in LineRows : Above(x, y) /\ Above(y, z) => Above(x, z)
BY DEF Above, Key, LineRows

(* Lines that do not tie have different ranks, and the ranks go from 1 to   *)
(* the number of lines.                                                    *)
LEMMA RanksDiffer ==
  ASSUME NEW S, IsFiniteSet(S), S \subseteq LineRows, NoTies(S),
         NEW x \in S
  PROVE  /\ Rank(S, x) \in 1..Cardinality(S)
         /\ \A y \in S : Rank(S, x) = Rank(S, y) => x = y
<1>1. \A z \in S : IsFiniteSet(Better(S, z)) /\ Cardinality(Better(S, z)) \in Nat
  BY FS_Subset, FS_CardinalityType DEF Better
<1>2. Better(S, x) \subseteq S /\ x \notin Better(S, x)
  BY AboveOrder DEF Better
<1>3. Cardinality(S) \in Nat /\ Cardinality(Better(S, x)) < Cardinality(S)
  BY <1>2, FS_Subset, FS_CardinalityType
<1>4. ASSUME NEW y \in S, NEW z \in S, Above(y, z)
      PROVE  Cardinality(Better(S, y)) < Cardinality(Better(S, z))
  <2>1. Better(S, y) \subseteq Better(S, z)
    BY <1>4, AboveOrder DEF Better
  <2>2. y \in Better(S, z) /\ y \notin Better(S, y)
    BY <1>4, AboveOrder DEF Better
  <2> QED BY <1>1, <2>1, <2>2, FS_Subset
<1>5. ASSUME NEW y \in S, Rank(S, x) = Rank(S, y), x # y
      PROVE  FALSE
  <2>1. Above(x, y) \/ Above(y, x)
    BY <1>5, AboveOrder DEF NoTies
  <2> QED BY <1>1, <1>4, <1>5, <2>1 DEF Rank
<1> QED BY <1>1, <1>3, <1>5 DEF Rank

(* Counting what a list without repetitions names.                         *)
LEMMA DistinctCount ==
  ASSUME NEW k \in Nat, NEW l, \A i, j \in 1..k : i # j => l[i] # l[j]
  PROVE  /\ IsFiniteSet({l[i] : i \in 1..k})
         /\ Cardinality({l[i] : i \in 1..k}) = k
<1> DEFINE T == {l[i] : i \in 1..k}
           f == [i \in 1..k |-> l[i]]
<1>1. f \in Bijection(1..k, T)
  BY DEF Bijection, Injection, Surjection, IsInjective
<1>2. ExistsBijection(1..k, T)
  BY <1>1 DEF ExistsBijection
<1>3. IsFiniteSet(1..k) /\ Cardinality(1..k) = k
  BY FS_Interval
<1> QED BY <1>2, <1>3, FS_Bijection

(* The line at place i of an ordered board has rank i.                     *)
LEMMA PlaceIsRank ==
  ASSUME NEW S, IsFiniteSet(S), S \subseteq LineRows, NoTies(S),
         NEW full \in Ordered(S), NEW i \in 1..Cardinality(S)
  PROVE  full[i] \in S /\ Rank(S, full[i]) = i
<1> DEFINE n == Cardinality(S)
<1>1. n \in Nat
  BY FS_CardinalityType
<1>2. full \in [1..n -> S] /\ DOMAIN full = 1..n
  BY DEF Ordered
<1>3. \A j, m \in 1..n : (j # m => full[j] # full[m]) /\ (Above(full[j], full[m]) => j < m)
  BY <1>2 DEF Ordered
<1>4. {full[j] : j \in 1..n} = S
  <2>1. {full[j] : j \in 1..n} \in SUBSET S
    BY <1>2
  <2>2. Cardinality({full[j] : j \in 1..n}) = n
    BY <1>1, <1>3, DistinctCount
  <2> HIDE DEF n
  <2>3. Cardinality(S) = n
    BY DEF n
  <2> QED BY <2>1, <2>2, <2>3, FS_Subset
<1>5. Better(S, full[i]) = {full[j] : j \in 1..(i - 1)}
  <2>1. ASSUME NEW j \in 1..n
        PROVE  Above(full[j], full[i]) <=> j < i
    <3>1. CASE j = i
      BY <1>2, <3>1, AboveOrder
    <3>2. CASE j # i
      <4>1. Above(full[j], full[i]) \/ Above(full[i], full[j])
        BY <1>2, <1>3, <3>2, AboveOrder DEF NoTies
      <4> QED BY <1>1, <1>2, <1>3, <4>1
    <3> QED BY <3>1, <3>2
  <2>2. \A j \in 1..n : j < i <=> j \in 1..(i - 1)
    BY <1>1
  <2>3. 1..(i - 1) \subseteq 1..n
    BY <1>1
  <2> HIDE DEF n
  <2> QED BY <1>4, <2>1, <2>2, <2>3 DEF Better
<1>6. Cardinality({full[j] : j \in 1..(i - 1)}) = i - 1
  <2>1. i - 1 \in Nat /\ 1..(i - 1) \subseteq 1..n
    BY <1>1
  <2> QED BY <1>3, <2>1, DistinctCount
<1> QED BY <1>1, <1>2, <1>5, <1>6 DEF Rank

(* Ranks that have all been shown are all of them.                         *)
LEMMA AllShown ==
  ASSUME NEW S, IsFiniteSet(S), S \subseteq LineRows, NoTies(S),
         NEW got, DOMAIN got = 1..Len(got), Shown(S, got, Cardinality(S))
  PROVE  {got[i] : i \in DOMAIN got}
           = {[rank |-> Cardinality(Better(S, x)) + 1, driver |-> x.driver] : x \in S}
<1> DEFINE n == Cardinality(S)
           Entry(x) == [rank |-> Rank(S, x), driver |-> x.driver]
<1>1. DOMAIN got = 1..n
  BY DEF Shown
<1>2. ASSUME NEW i \in 1..n
      PROVE  \E x \in S : got[i] = Entry(x)
  BY <1>2 DEF Shown
<1>3. ASSUME NEW x \in S
      PROVE  \E i \in 1..n : got[i] = Entry(x)
  <2>1. Rank(S, x) \in 1..n
    BY RanksDiffer
  <2>2. PICK y \in S : Rank(S, y) = Rank(S, x) /\ got[Rank(S, x)] = [rank |-> Rank(S, x), driver |-> y.driver]
    BY <2>1 DEF Shown
  <2>3. x = y
    BY <2>2, RanksDiffer
  <2> QED BY <2>1, <2>2, <2>3
<1>4. {got[i] : i \in DOMAIN got} = {Entry(x) : x \in S}
  <2> HIDE DEF n, Entry
  <2> QED BY <1>1, <1>2, <1>3
<1> QED BY <1>4 DEF Rank

-----------------------------------------------------------------------------
(* What a line is made of.                                                 *)

LEMMA ScoresTyped ==
  ASSUME NEW t \in Nat, NEW c \in Nat
  PROVE  /\ ScoreFromStats(t, c) \in Nat
         /\ \A ov \in Overrides : /\ ApplyOverrideReactive(ov, t, c).trips \in Nat
                                  /\ ApplyOverrideReactive(ov, t, c).score \in Nat
<1>1. \A x \in Int : Pos(x) \in Nat
  BY DEF Pos
<1>2. TripPts \in Nat /\ CancelPts \in Nat
  BY BoardAssumption
<1>3. \A a, b, x, y \in Nat : a * x - b * y \in Int
  OBVIOUS
<1>4. \A n, a, b, x, y \in Nat : n + a * x - b * y \in Int
  OBVIOUS
<1>5. ScoreFromStats(t, c) \in Nat
  BY <1>1, <1>2, <1>3 DEF ScoreFromStats
<1>6. ASSUME NEW ov \in Overrides
      PROVE  /\ ApplyOverrideReactive(ov, t, c).trips \in Nat
             /\ ApplyOverrideReactive(ov, t, c).score \in Nat
  <2> DEFINE dt == Pos(t - ov.baseTrips)
             dc == Pos(c - ov.baseCancels)
  <2>1. ov.score \in Nat /\ ov.trips \in Nat /\ t - ov.baseTrips \in Int /\ c - ov.baseCancels \in Int
    BY DEF Overrides
  <2>2. dt \in Nat /\ dc \in Nat
    BY <1>1, <2>1
  <2>3. ov.trips + dt \in Nat /\ Pos(ov.score + TripPts * dt - CancelPts * dc) \in Nat
    <3> HIDE DEF dt, dc
    <3> QED BY <1>1, <1>2, <1>4, <2>1, <2>2
  <2> QED BY <2>3 DEF ApplyOverrideReactive
<1> QED BY <1>5, <1>6

LEMMA LinesTyped ==
  ASSUME BoardIInv
  PROVE  /\ BoardsAgree
         /\ \A kind : IsFiniteSet(Lines(kind)) /\ Lines(kind) \subseteq LineRows
<1>1. /\ Listed \subseteq Racers /\ IsFiniteSet(Listed)
      /\ \A d \in Racers : /\ done[d] \in Nat /\ cancelled[d] \in Nat /\ Rating[d] \in Nat
                           /\ override[d] \in Overrides \cup {NoOverride}
  <2>1. Listed \subseteq Racers
    BY DEF BoardIInv, Listed
  <2> QED BY <2>1, BoardAssumption, FS_Subset DEF BoardIInv
<1>2. ASSUME NEW d \in Listed
      PROVE  Line(d) \in LineRows /\ AdminLine(d) = Line(d)
             /\ OwnLine(d) = [trips |-> Line(d).trips, score |-> Line(d).score]
  <2> DEFINE ov == override[d]
             s == ScoreFromStats(done[d], cancelled[d])
             a == ApplyOverrideReactive(ov, done[d], cancelled[d])
  <2>1. AdminCancels(d) = cancelled[d]
    BY DEF AdminCancels
  <2>2. CASE ov = NoOverride
    <3>1. s \in Nat /\ done[d] \in Nat /\ Rating[d] \in Nat /\ d \in Racers
      BY <1>1, ScoresTyped
    <3>2. Line(d) = [driver |-> d, rating |-> Rating[d], trips |-> done[d], score |-> s]
      BY <2>2 DEF Line
    <3>3. AdminLine(d) = [driver |-> d, trips |-> done[d], score |-> s, rating |-> Rating[d]]
      BY <2>1, <2>2 DEF AdminLine
    <3>4. OwnLine(d) = [trips |-> done[d], score |-> s]
      BY <2>2 DEF OwnLine
    <3> QED BY <3>1, <3>2, <3>3, <3>4 DEF LineRows
  <2>3. CASE ov # NoOverride
    <3>1. ov \in Overrides
      BY <1>1, <2>3
    <3>2. a.trips \in Nat /\ a.score \in Nat /\ Rating[d] \in Nat /\ d \in Racers
      BY <1>1, <3>1, ScoresTyped
    <3>3. Line(d) = [driver |-> d, rating |-> Rating[d], trips |-> a.trips, score |-> a.score]
      BY <2>3 DEF Line
    <3>4. AdminLine(d) = [driver |-> d, trips |-> a.trips, score |-> a.score, rating |-> Rating[d]]
      BY <2>1, <2>3 DEF AdminLine
    <3>5. OwnLine(d) = [trips |-> a.trips, score |-> a.score]
      BY <2>3 DEF OwnLine, ApplyOverrideReactive
    <3> QED BY <3>2, <3>3, <3>4, <3>5 DEF LineRows
  <2> QED BY <2>2, <2>3
<1>3. ASSUME NEW kind
      PROVE  Lines(kind) = {Line(d) : d \in Listed}
  BY <1>2 DEF Lines
<1>4. IsFiniteSet({Line(d) : d \in Listed})
  <2> DEFINE T == {Line(d) : d \in Listed}
             f == [d \in Listed |-> Line(d)]
  <2>1. f \in Surjection(Listed, T)
    BY DEF Surjection
  <2> QED BY <1>1, <2>1, FS_Surjection
<1> QED BY <1>2, <1>3, <1>4 DEF BoardsAgree

LEMMA BoardWhole == BoardIInv => OneBoard
<1> SUFFICES ASSUME BoardIInv PROVE OneBoard
  OBVIOUS
<1>1. PICK S : S = Lines(reader.kind)
  OBVIOUS
<1>2. IsFiniteSet(S) /\ S \subseteq LineRows
  BY <1>1, LinesTyped
<1>3. ASSUME reader.pc = "read", reader.calm, NoTies(S)
      PROVE  /\ {reader.got[i] : i \in DOMAIN reader.got}
                  = {[rank |-> Cardinality(Better(S, x)) + 1, driver |-> x.driver] : x \in S}
             /\ Len(reader.got) = Cardinality(S)
  <2>1. Shown(S, reader.got, Cardinality(S))
    BY <1>1, <1>3 DEF BoardIInv, ReaderOK
  <2>2. DOMAIN reader.got = 1..Len(reader.got)
    BY DEF BoardIInv
  <2>3. Len(reader.got) = Cardinality(S)
    BY <2>1 DEF Shown
  <2>4. {reader.got[i] : i \in DOMAIN reader.got}
          = {[rank |-> Cardinality(Better(S, x)) + 1, driver |-> x.driver] : x \in S}
    BY <1>2, <1>3, <2>1, <2>2, AllShown
  <2> QED BY <2>3, <2>4
<1>4. PagesCoverBoard
  BY <1>1, <1>3 DEF PagesCoverBoard, NoTies, Better
<1> QED BY <1>4, LinesTyped DEF OneBoard

-----------------------------------------------------------------------------
(* The reader goes on while nothing changes.                               *)

(* Another page, of whichever order the query gives this time.             *)
Top(full, k) == IF k + Limit < Len(full) THEN k + Limit ELSE Len(full)
Page(full, k) ==
  LET slice == SubSeq(full, k + 1, Top(full, k))
  IN  [i \in DOMAIN slice |-> [rank |-> k + i, driver |-> slice[i].driver]]

(* A list that goes on with the lines of full, each with its rank.          *)
GoesOn(next, got, full, k) ==
  /\ Len(next) = Top(full, k)
  /\ \A i \in 1..Top(full, k) :
       next[i] = IF i <= k THEN got[i] ELSE [rank |-> i, driver |-> full[i].driver]

LEMMA PageRead ==
  ASSUME NEW S, IsFiniteSet(S), S \subseteq LineRows,
         NEW full \in Ordered(S), NEW got \in Seq(RankRows), NEW k \in Nat
  PROVE  /\ got \o Page(full, k) \in Seq(RankRows)
         /\ Len(full) = Cardinality(S) /\ Cardinality(S) \in Nat /\ Top(full, k) \in 0..Cardinality(S)
         /\ Len(got) = k /\ k <= Cardinality(S) => GoesOn(got \o Page(full, k), got, full, k)
<1> DEFINE top == Top(full, k)
           n == Cardinality(S)
           slice == SubSeq(full, k + 1, top)
           items == [i \in DOMAIN slice |-> [rank |-> k + i, driver |-> slice[i].driver]]
<1>1. n \in Nat /\ Limit \in Nat
  BY FS_CardinalityType, BoardAssumption
<1>2. full \in [1..n -> S]
  BY DEF Ordered
<1>3. full \in Seq(S) /\ Len(full) = n
  <2> HIDE DEF n
  <2> QED BY <1>1, <1>2
<1>4. top \in Nat /\ top <= n /\ (k <= n => k <= top)
  <2> HIDE DEF n
  <2> QED BY <1>1, <1>3 DEF Top
<1> HIDE DEF top
<1>5. PICK m \in Nat : m = IF k <= top THEN top - k ELSE 0
  <2>1. k <= top => top - k \in Nat
    BY <1>4
  <2> QED BY <2>1
<1>6. /\ DOMAIN slice = 1..m
      /\ \A i \in 1..m : slice[i] = full[k + i] /\ k + i \in 1..n
  <2> HIDE DEF n
  <2>1. CASE k <= top
    BY <1>1, <1>3, <1>4, <1>5, <2>1
  <2>2. CASE ~(k <= top)
    <3>1. m = 0 /\ 1..m = {}
      BY <1>5, <2>2
    <3>2. DOMAIN slice = {}
      BY <1>3, <1>4, <2>2
    <3> QED BY <3>1, <3>2
  <2> QED BY <2>1, <2>2
<1>7. \A i \in 1..n : full[i] \in LineRows
  BY <1>2
<1> HIDE DEF slice, n
<1>8. /\ items \in Seq(RankRows) /\ Len(items) = m
      /\ \A i \in 1..m : items[i] = [rank |-> k + i, driver |-> full[k + i].driver]
  <2>1. ASSUME NEW i \in 1..m
        PROVE  [rank |-> k + i, driver |-> slice[i].driver] \in RankRows
    <3>1. slice[i] \in LineRows
      BY <1>6, <1>7
    <3> QED BY <3>1 DEF LineRows, RankRows
  <2>2. items \in [1..m -> RankRows]
    BY <1>6, <2>1
  <2>3. \A i \in 1..m : items[i] = [rank |-> k + i, driver |-> full[k + i].driver]
    BY <1>6
  <2> HIDE DEF items
  <2>4. items \in Seq(RankRows) /\ Len(items) = m
    BY <2>2
  <2> QED BY <2>3, <2>4
<1> HIDE DEF items
<1>9. /\ got \o items \in Seq(RankRows) /\ Len(got \o items) = Len(got) + m
      /\ \A i \in 1..(Len(got) + m) :
            (got \o items)[i] = IF i <= Len(got) THEN got[i] ELSE items[i - Len(got)]
  BY <1>8, ConcatProperties
<1>10. ASSUME Len(got) = k, k <= n
       PROVE  /\ Len(got \o items) = top
              /\ \A i \in 1..top : (got \o items)[i] =
                   IF i <= k THEN got[i] ELSE [rank |-> i, driver |-> full[i].driver]
  <2>1. k + m = top
    BY <1>4, <1>5, <1>10
  <2>2. ASSUME NEW i \in 1..top, ~(i <= k)
        PROVE  items[i - k] = [rank |-> i, driver |-> full[i].driver]
    <3>1. i - k \in 1..m /\ k + (i - k) = i
      BY <1>4, <2>1, <2>2
    <3> QED BY <1>8, <3>1
  <2> QED BY <1>9, <1>10, <2>1, <2>2
<1>11. top \in 0..n
  BY <1>1, <1>4
<1>12. /\ got \o items \in Seq(RankRows) /\ Len(full) = n /\ n \in Nat /\ top \in 0..n
       /\ Len(got) = k /\ k <= n => GoesOn(got \o items, got, full, k)
  BY <1>1, <1>3, <1>9, <1>10, <1>11 DEF GoesOn, top
<1>13. items = Page(full, k)
  BY DEF Page, items, slice, top
<1> QED BY <1>12, <1>13 DEF n, top

(* It continues what was shown.                                            *)
LEMMA PageShown ==
  ASSUME NEW S, IsFiniteSet(S), S \subseteq LineRows, NoTies(S), NEW full \in Ordered(S),
         NEW k \in Nat, NEW got, Shown(S, got, k), NEW next, GoesOn(next, got, full, k),
         Top(full, k) \in 0..Cardinality(S)
  PROVE  Shown(S, next, Top(full, k))
<1> DEFINE top == Top(full, k)
<1>1. Cardinality(S) \in Nat
  BY FS_CardinalityType
<1>2. ASSUME NEW i \in 1..top
      PROVE  \E x \in S : Rank(S, x) = i /\ next[i] = [rank |-> i, driver |-> x.driver]
  <2>1. CASE i <= k
    <3>1. i \in 1..k
      BY <1>1, <2>1
    <3> QED BY <2>1, <3>1 DEF Shown, GoesOn
  <2>2. CASE ~(i <= k)
    <3>1. i \in 1..Cardinality(S)
      BY <1>1
    <3>2. full[i] \in S /\ Rank(S, full[i]) = i
      BY <3>1, PlaceIsRank
    <3> QED BY <2>2, <3>2 DEF GoesOn
  <2> QED BY <2>1, <2>2
<1> QED BY <1>2 DEF Shown, GoesOn

LEMMA BoardStart == BoardInit => BoardIInv
<1> SUFFICES ASSUME BoardInit PROVE BoardIInv
  OBVIOUS
<1>1. ReaderOK
  BY DEF BoardInit, ReaderOK, NotReading
<1> QED BY <1>1 DEF BoardInit, BoardIInv, NotReading, NoEdit

LEMMA BoardStep == BoardIInv /\ [BoardNext]_boardVars => BoardIInv'
<1> SUFFICES ASSUME BoardIInv, [BoardNext]_boardVars PROVE BoardIInv'
  OBVIOUS
<1> DEFINE ReaderRows == [pc : {"idle", "page", "read"}, kind : {"driver", "admin"}, offset : Nat,
                          got : Seq(RankRows), calm : BOOLEAN]
<1>1. PICK r \in ReaderRows : r = reader
  BY DEF BoardIInv
<1>2. ASSUME reader' = Disturbed
      PROVE  reader' \in ReaderRows /\ ReaderOK'
  <2>1. reader' \in ReaderRows /\ ~reader'.calm
    BY <1>1, <1>2 DEF Disturbed
  <2> QED BY <2>1 DEF ReaderOK
<1>3. ASSUME UNCHANGED <<members, done, cancelled, override>>
      PROVE  \A kind : Lines(kind)' = Lines(kind)
  BY <1>3 DEF Lines, Listed, Line, AdminLine, AdminCancels, ScoreFromStats, ApplyOverrideReactive
<1>4. ASSUME UNCHANGED <<members, done, cancelled, override, reader>>
      PROVE  ReaderOK'
  BY <1>3, <1>4 DEF ReaderOK, BoardIInv
<1>5. CASE UNCHANGED boardVars
  BY <1>4, <1>5 DEF boardVars, BoardIInv
<1>6. ASSUME NEW d \in Racers, TripCounts(d)
      PROVE  BoardIInv'
  BY <1>2, <1>6 DEF TripCounts, BoardIInv
<1>7. ASSUME NEW d \in Racers, CancelCounts(d)
      PROVE  BoardIInv'
  BY <1>2, <1>7 DEF CancelCounts, BoardIInv
<1>8. ASSUME NEW d \in Racers, ReadBase(d)
      PROVE  BoardIInv'
  <2>1. editor' \in Edits
    BY <1>8 DEF ReadBase, BoardIInv, Edits
  <2> QED BY <1>4, <1>8, <2>1 DEF ReadBase, BoardIInv
<1>9. CASE UpsertOverride
  <2>1. editor \in Edits
    BY <1>9 DEF UpsertOverride, BoardIInv, NoEdit
  <2>2. 0..MaxScore \subseteq Nat
    BY BoardAssumption
  <2>3. override' \in [Racers -> Overrides \cup {NoOverride}]
    BY <1>9, <2>1, <2>2 DEF UpsertOverride, BoardIInv, Overrides, Edits
  <2> QED BY <1>2, <1>9, <2>3 DEF UpsertOverride, BoardIInv
<1>10. CASE EditDies
  BY <1>4, <1>10 DEF EditDies, BoardIInv
<1>11. CASE OpenBoard
  <2>1. PICK kind \in {"driver", "admin"} :
          reader' = [pc |-> "page", kind |-> kind, offset |-> 0, got |-> <<>>, calm |-> TRUE]
    BY <1>11 DEF OpenBoard, NotReading
  <2>2. PICK S : S = Lines(kind)
    OBVIOUS
  <2>3. Lines(kind)' = S
    BY <1>3, <1>11, <2>2 DEF OpenBoard
  <2>4. 0 <= Cardinality(S) /\ Shown(S, <<>>, 0)
    BY <2>2, LinesTyped, FS_CardinalityType DEF Shown
  <2>5. ReaderOK'
    BY <2>1, <2>3, <2>4 DEF ReaderOK
  <2>6. reader' \in ReaderRows
    BY <2>1
  <2> QED BY <1>11, <2>5, <2>6 DEF OpenBoard, BoardIInv
<1>12. CASE NextPage
  <2>1. PICK kind, k, got : kind = reader.kind /\ k = reader.offset /\ got = reader.got
    OBVIOUS
  <2>2. /\ kind \in {"driver", "admin"} /\ k \in Nat /\ got \in Seq(RankRows)
        /\ reader.calm \in BOOLEAN
    BY <1>1, <2>1
  <2>3. PICK S : S = Lines(kind)
    OBVIOUS
  <2>4. IsFiniteSet(S) /\ S \subseteq LineRows /\ Lines(kind)' = S
    BY <1>3, <1>12, <2>3, LinesTyped DEF NextPage
  <2>5. PICK full \in Ordered(S) :
          LET slice == SubSeq(full, reader.offset + 1,
                              IF reader.offset + Limit < Len(full) THEN reader.offset + Limit
                              ELSE Len(full))
              items == [i \in DOMAIN slice |-> [rank |-> reader.offset + i, driver |-> slice[i].driver]]
          IN  reader' = [reader EXCEPT !.got = @ \o items, !.offset = @ + Limit,
                           !.pc = IF HasMore(reader.offset, Len(full)) THEN "page" ELSE "read"]
    BY <1>12, <2>1, <2>3 DEF NextPage
  <2>6. PICK n : n = Len(full)
    OBVIOUS
  <2>7. PICK top : top = Top(full, k)
    OBVIOUS
  <2>8. PICK next : next = got \o Page(full, k)
    OBVIOUS
  <2>9. reader' = [reader EXCEPT !.got = next, !.offset = k + Limit,
                                 !.pc = IF HasMore(k, n) THEN "page" ELSE "read"]
    BY <2>1, <2>5, <2>6, <2>8 DEF Page, Top
  <2>10. reader.pc = "page" /\ Limit \in Nat
    BY <1>12, BoardAssumption DEF NextPage
  <2>11. /\ next \in Seq(RankRows)
         /\ n = Cardinality(S) /\ n \in Nat /\ top \in 0..Cardinality(S)
         /\ Len(got) = k /\ k <= Cardinality(S) => GoesOn(next, got, full, k)
    <3>1. IsFiniteSet(S) /\ S \subseteq LineRows /\ got \in Seq(RankRows) /\ k \in Nat
      BY <2>2, <2>4
    <3> QED BY <2>6, <2>7, <2>8, <3>1, PageRead
  <2>12. ASSUME reader.calm, NoTies(S)
         PROVE  Shown(S, next, top)
    <3>1. k <= Cardinality(S) /\ Shown(S, got, k)
      BY <2>1, <2>3, <2>10, <2>12 DEF BoardIInv, ReaderOK
    <3>2. Len(got) = k
      BY <3>1 DEF Shown
    <3> QED BY <2>2, <2>4, <2>7, <2>11, <2>12, <3>1, <3>2, PageShown
  <2>13. /\ reader'.pc = (IF HasMore(k, n) THEN "page" ELSE "read") /\ reader'.kind = kind
         /\ reader'.offset = k + Limit /\ reader'.got = next /\ reader'.calm = reader.calm
         /\ reader' \in ReaderRows
    <3>1. reader' = [pc |-> IF HasMore(k, n) THEN "page" ELSE "read", kind |-> kind,
                     offset |-> k + Limit, got |-> next, calm |-> reader.calm]
      BY <1>1, <2>1, <2>9
    <3>2. k + Limit \in Nat
      BY <2>2, <2>10
    <3> QED BY <2>2, <2>11, <3>1, <3>2
  <2>14. ASSUME reader.calm, NoTies(S)
         PROVE  /\ HasMore(k, n) => k + Limit <= Cardinality(S) /\ Shown(S, next, k + Limit)
                /\ ~HasMore(k, n) => Shown(S, next, Cardinality(S))
    BY <2>2, <2>6, <2>7, <2>10, <2>11, <2>12, <2>14 DEF HasMore, Top
  <2>15. ReaderOK'
    BY <2>4, <2>13, <2>14 DEF ReaderOK
  <2> QED BY <1>12, <2>13, <2>15 DEF NextPage, BoardIInv
<1>13. CASE CloseBoard
  <2>1. reader' \in ReaderRows /\ reader'.pc = "idle"
    BY <1>13 DEF CloseBoard, NotReading
  <2>2. ReaderOK'
    BY <2>1 DEF ReaderOK
  <2> QED BY <1>13, <2>1, <2>2 DEF CloseBoard, BoardIInv
<1> QED BY <1>5, <1>6, <1>7, <1>8, <1>9, <1>10, <1>11, <1>12, <1>13 DEF BoardNext

(* All boards compute the same line of a driver, and whoever reads the     *)
(* pages of a board that does not change meanwhile sees every line once and *)
(* in its place (buildLeaderboardOrdered, getMonthlyLeaderboardPage,        *)
(* getAdminZoneLeaderboardPage, getChampionsSnapshot).                     *)
THEOREM BoardsAreOne == BoardSpec => []OneBoard
<1>1. BoardIInv => OneBoard
  BY BoardWhole
<1> QED BY BoardStart, BoardStep, <1>1, PTL DEF BoardSpec

=============================================================================
