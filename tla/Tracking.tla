------------------------------ MODULE Tracking ------------------------------
(***************************************************************************)
(* The positions of one driver on a trip: batches of pings, filtered and   *)
(* stored; the last known position in the memory of the process, by driver *)
(* and by zone; the roster operators read; and the meter, which bills the  *)
(* stored pings.  Time goes in ticks of a minute and the road in units of  *)
(* 100 m.  The phone's readings are right, so a ping is the moment it was  *)
(* recorded at; the network delays, repeats, reorders and loses batches.   *)
(***************************************************************************)
EXTENDS Naturals, Sequences, FiniteSets

CONSTANTS
  Batches,      (* requests that may be in flight at once                   *)
  TrackedZones, (* zones                                                    *)
  Paths,        (* where the driver may be at each tick: functions of time  *)
  EndOfTime,    (* bound: the last tick                                     *)
  MaxAge,       (* TRACKING_MAX_PING_AGE_MINUTES                            *)
  MaxRows,      (* bound: stored pings                                      *)
  Nowhere       (* no ping, or no zone                                      *)

ASSUME TrackingAssumption ==
  /\ {EndOfTime, MaxAge, MaxRows} \subseteq Nat
  /\ Paths \subseteq [0..EndOfTime -> Nat]
  (* nobody drives 400 m/s, which is 240 units a tick                       *)
  /\ \A p \in Paths : \A t \in 1..EndOfTime : p[t] < p[t - 1] + 240 /\ p[t - 1] < p[t] + 240
ASSUME NowhereAssumption == Nowhere \notin Nat \cup TrackedZones

VARIABLES
  path, clock,  (* where the driver is at each tick, and the tick           *)
  driverZone,   (* Driver.serviceZoneId                                     *)
  stored,       (* LocationPing rows of the trip, in the order of arrival   *)
  byDriver,     (* LastKnownStore.byDriver                                  *)
  byZone,       (* LastKnownStore.byZone, for the driver                    *)
  lastZone,     (* LastKnownStore.lastZoneByDriver                          *)
  ingest,       (* requests                                                 *)
  inOrder       (* history: no two batches overlapped, and none came whose  *)
                (* last ping is older than one stored                       *)

trackingVars == <<path, clock, driverZone, stored, byDriver, byZone, lastZone, ingest, inOrder>>

NoBatch  == [pc |-> "idle", zone |-> Nowhere, pings |-> {}, last |-> Nowhere]
Latest(S) == CHOOSE t \in S : \A u \in S : u <= t
Pings    == {stored[i] : i \in DOMAIN stored}
Distance(t, u) == IF path[t] <= path[u] THEN path[u] - path[t] ELSE path[t] - path[u]

(* isPingQualityOk: here only the age can be wrong.                         *)
QualityOk(t) == clock - t <= MaxAge
(* isPlausibleStep: 400 m/s.  A later ping always passes; one that is not   *)
(* later passes within 40 m only.                                           *)
PlausibleStep(prev, t) == prev = Nowhere \/ t > prev \/ Distance(prev, t) = 0

(* The accepted pings of a batch, by recordedAt, each held against the one  *)
(* before it: taken[t] are those recorded up to t.                         *)
Accepted(pings) ==
  LET taken[t \in 0..clock] ==
        LET out  == IF t = 0 THEN <<>> ELSE taken[t - 1]
            prev == IF out = <<>> THEN byDriver ELSE out[Len(out)]
        IN  IF t \in pings /\ QualityOk(t) /\ PlausibleStep(prev, t) THEN Append(out, t) ELSE out
  IN  taken[clock]

IngestPings(s) ==
  /\ ingest[s].pc = "idle"
  /\ \E pings \in (SUBSET (0..clock)) \ {{}} :
       /\ ingest' = [ingest EXCEPT ![s] = [NoBatch EXCEPT !.pc = "filter", !.zone = driverZone,
                                                          !.pings = pings]]
       /\ inOrder' = (inOrder /\ (\A x \in Batches : ingest[x].pc = "idle")
                              /\ \A t \in Pings : t <= Latest(pings))
  /\ UNCHANGED <<path, clock, driverZone, stored, byDriver, byZone, lastZone>>

(* createMany, or nothing when no ping is accepted.                         *)
StorePings(s) ==
  /\ ingest[s].pc = "filter"
  /\ LET out == Accepted(ingest[s].pings)
     IN  IF out = <<>>
         THEN ingest' = [ingest EXCEPT ![s] = NoBatch] /\ UNCHANGED stored
         ELSE /\ Len(stored) + Len(out) <= MaxRows
              /\ stored' = stored \o out
              /\ ingest' = [ingest EXCEPT ![s] = [@ EXCEPT !.pc = "set", !.pings = {},
                                                           !.last = out[Len(out)]]]
  /\ UNCHANGED <<path, clock, driverZone, byDriver, byZone, lastZone, inOrder>>

Zones(z, t) ==
  [x \in TrackedZones |-> IF x = z THEN t ELSE IF x = lastZone THEN Nowhere ELSE byZone[x]]

(* LastKnownStore.set; the gateway's message to the operators follows it.   *)
SetLastKnown(s) ==
  /\ ingest[s].pc = "set"
  /\ byZone' = Zones(ingest[s].zone, ingest[s].last)
  /\ lastZone' = ingest[s].zone
  /\ byDriver' = ingest[s].last
  /\ ingest' = [ingest EXCEPT ![s] = NoBatch]
  /\ UNCHANGED <<path, clock, driverZone, stored, inOrder>>

(* createMany fails.                                                        *)
StoreFails(s) ==
  /\ ingest[s].pc = "filter"
  /\ ingest' = [ingest EXCEPT ![s] = NoBatch]
  /\ UNCHANGED <<path, clock, driverZone, stored, byDriver, byZone, lastZone, inOrder>>

(* The process restarts: the rows stay.                                     *)
TrackingRestart ==
  /\ byDriver' = Nowhere /\ lastZone' = Nowhere
  /\ byZone' = [z \in TrackedZones |-> Nowhere]
  /\ ingest' = [s \in Batches |-> NoBatch]
  /\ UNCHANGED <<path, clock, driverZone, stored, inOrder>>

Tick ==
  /\ clock < EndOfTime
  /\ clock' = clock + 1
  /\ UNCHANGED <<path, driverZone, stored, byDriver, byZone, lastZone, ingest, inOrder>>

(* OnboardingService.patchProfile, whose check came before the approval:    *)
(* no other handler writes the zone of a driver that exists.                *)
MoveZone ==
  /\ \E z \in (TrackedZones \cup {Nowhere}) \ {driverZone} : driverZone' = z
  /\ UNCHANGED <<path, clock, stored, byDriver, byZone, lastZone, ingest, inOrder>>

(* listDriversRosterForZone, for the zone the driver is in: the memory of   *)
(* the zone, or the newest row.                                             *)
Roster ==
  IF byZone[driverZone] # Nowhere THEN byZone[driverZone]
  ELSE IF Pings # {} THEN Latest(Pings) ELSE Nowhere

(* billableMetersFromPings: segments between neighbours in time that are    *)
(* long enough and not slower than 4 km/h.                                  *)
Billable(t, u) ==
  LET d == Distance(t, u)
  IN  IF d = 0 \/ 3 * d < 2 * (u - t) THEN 0 ELSE d
(* Mutant: the rows as they come from the table.                            *)
RowsAsStored(rows)  == rows
RowsByTime(rows) ==
  LET sorted == CHOOSE p \in [DOMAIN rows -> DOMAIN rows] :
                  \A i, j \in DOMAIN rows : i < j => p[i] # p[j] /\ rows[p[i]] <= rows[p[j]]
  IN  [i \in DOMAIN rows |-> rows[sorted[i]]]
SumTo(f, n) ==
  LET sum[i \in 0..n] == IF i = 0 THEN 0 ELSE sum[i - 1] + f[i]
  IN  sum[n]
BillableMeters ==
  LET rows == RowsByTime(stored)
      n    == Len(rows) - 1
  IN  IF Len(rows) < 2 THEN 0 ELSE SumTo([i \in 1..n |-> Billable(rows[i], rows[i + 1])], n)

TrackingInit ==
  /\ path \in Paths /\ clock = 0
  /\ driverZone \in TrackedZones
  /\ stored = <<>> /\ byDriver = Nowhere /\ lastZone = Nowhere
  /\ byZone = [z \in TrackedZones |-> Nowhere]
  /\ ingest = [s \in Batches |-> NoBatch]
  /\ inOrder = TRUE

TrackingNext ==
  \/ \E s \in Batches : IngestPings(s) \/ StorePings(s) \/ SetLastKnown(s) \/ StoreFails(s)
  \/ TrackingRestart \/ Tick \/ MoveZone

TrackingSpec == TrackingInit /\ [][TrackingNext]_trackingVars

-----------------------------------------------------------------------------
(* Properties.                                                             *)

(* The roster of the driver's zone shows the newest position stored, at    *)
(* rest and as long as batches come one by one and in order, through moves *)
(* from zone to zone and back, and through restarts.                       *)
RosterNewest ==
  (/\ inOrder /\ driverZone # Nowhere /\ Pings # {}
   /\ \A s \in Batches : ingest[s].pc # "set")
    => Roster = Latest(Pings)

(* The meter never bills more road than the driver has travelled, however  *)
(* often, however late and in whatever order the pings arrived.            *)
MeterNeverOvercounts ==
  BillableMeters <= SumTo([t \in 1..clock |-> Distance(t - 1, t)], clock)

(* What is made of the stored pings is right: where the driver is, and how *)
(* far the driver has been.                                                *)
RoadIsTrue == RosterNewest /\ MeterNeverOvercounts
=============================================================================
