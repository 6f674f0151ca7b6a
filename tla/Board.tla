------------------------------- MODULE Board -------------------------------
(***************************************************************************)
(* The monthly leaderboard of a zone, for the period it shows: trips and   *)
(* cancellations of the drivers, overrides by administrators, the driver's *)
(* paged list, the administrator's paged table and the driver's own line,  *)
(* which the code computes in three places.                                *)
(***************************************************************************)
EXTENDS Integers, Sequences, FiniteSets
LOCAL INSTANCE FiniteSetsExt

CONSTANTS
  Racers,       (* drivers                                                  *)
  Rating,       (* their average ratings                                    *)
  Limit,        (* rows per page                                            *)
  TripPts, CancelPts,   (* 100 and 40                                       *)
  MaxScore,     (* bound: scores and trips an override may name             *)
  MaxEvents,    (* bound: trips and cancellations                           *)
  MaxOverrides, (* bound: overrides written                                 *)
  NoOverride    (* no row                                                   *)

ASSUME BoardAssumption ==
  /\ IsFiniteSet(Racers) /\ Rating \in [Racers -> Nat] /\ Limit \in Nat \ {0}
  /\ {TripPts, CancelPts, MaxScore, MaxEvents, MaxOverrides} \subseteq Nat

VARIABLES
  members,      (* drivers of the zone                                      *)
  done,         (* completed trips of the period                            *)
  cancelled,    (* orders cancelled by the driver in the period             *)
  override,     (* DriverLeaderboardOverride rows                           *)
  editor,       (* an administrator's request: counts read, row not written *)
  reader,       (* somebody going through the pages                         *)
  written       (* overrides so far                                         *)

boardVars == <<members, done, cancelled, override, editor, reader, written>>

NoEdit   == [pc |-> "idle"]
NotReading == [pc |-> "idle", kind |-> "driver", offset |-> 0, got |-> <<>>, calm |-> TRUE]
Pos(x)   == IF x < 0 THEN 0 ELSE x
Events   == FoldSet(LAMBDA d, n : n + done[d] + cancelled[d], 0, Racers)

(* scoreFromStats and applyOverrideReactive.                                *)
ScoreFromStats(t, c) == Pos(TripPts * t - CancelPts * c)
ApplyOverrideReactive(ov, t, c) ==
  LET dt == Pos(t - ov.baseTrips)
      dc == Pos(c - ov.baseCancels)
  IN  [trips |-> ov.trips + dt, score |-> Pos(ov.score + TripPts * dt - CancelPts * dc)]

(* buildLeaderboardOrdered: the drivers of the zone with a completed trip.  *)
Listed == {d \in members : done[d] > 0}
Line(d) ==
  LET live  == [trips |-> done[d], score |-> ScoreFromStats(done[d], cancelled[d])]
      shown == IF override[d] = NoOverride THEN live
               ELSE ApplyOverrideReactive(override[d], done[d], cancelled[d])
  IN  [driver |-> d, rating |-> Rating[d], trips |-> shown.trips, score |-> shown.score]
(* getAdminZoneLeaderboardPage, by month; mutant: cancellations forgotten.  *)
AdminCancelsLost(d) == 0
AdminCancels(d)     == IF d \in Listed THEN cancelled[d] ELSE 0
AdminLine(d) ==
  LET computed == IF override[d] # NoOverride
                  THEN ApplyOverrideReactive(override[d], done[d], AdminCancels(d))
                  ELSE [trips |-> done[d], score |-> ScoreFromStats(done[d], AdminCancels(d))]
  IN  [driver |-> d, trips |-> computed.trips, score |-> computed.score, rating |-> Rating[d]]
(* getChampionsSnapshot: the driver's own line, on the board or not.        *)
OwnLine(d) ==
  IF override[d] # NoOverride THEN ApplyOverrideReactive(override[d], done[d], cancelled[d])
  ELSE [trips |-> done[d], score |-> ScoreFromStats(done[d], cancelled[d])]

Key(x) == <<x.score, x.trips, x.rating>>
Above(x, y) ==
  \/ x.score > y.score
  \/ x.score = y.score /\ x.trips > y.trips
  \/ x.score = y.score /\ x.trips = y.trips /\ x.rating > y.rating
Lines(kind) == {IF kind = "admin" THEN AdminLine(d) ELSE Line(d) : d \in Listed}
(* Lines that tie come as the database grouped them, anew in each request.  *)
Ordered(S) ==
  {l \in [1..Cardinality(S) -> S] :
     \A i, j \in DOMAIN l : (i # j => l[i] # l[j]) /\ (Above(l[i], l[j]) => i < j)}

Disturbed == [reader EXCEPT !.calm = FALSE]

TripCounts(d) ==
  /\ Events < MaxEvents
  /\ done' = [done EXCEPT ![d] = @ + 1]
  /\ reader' = Disturbed
  /\ UNCHANGED <<members, cancelled, override, editor, written>>

CancelCounts(d) ==
  /\ Events < MaxEvents
  /\ cancelled' = [cancelled EXCEPT ![d] = @ + 1]
  /\ reader' = Disturbed
  /\ UNCHANGED <<members, done, override, editor, written>>

(* upsertMonthlyLeaderboardOverride: the counts, then the row.              *)
ReadBase(d) ==
  /\ editor.pc = "idle" /\ written < MaxOverrides
  /\ editor' = [pc |-> "write", driver |-> d, trips |-> done[d], cancels |-> cancelled[d]]
  /\ UNCHANGED <<members, done, cancelled, override, reader, written>>

UpsertOverride ==
  /\ editor.pc = "write"
  /\ \E score, trips \in 0..MaxScore :
       override' = [override EXCEPT ![editor.driver] =
         [score |-> score, trips |-> trips, baseTrips |-> editor.trips,
          baseCancels |-> editor.cancels]]
  /\ written' = written + 1
  /\ editor' = NoEdit
  /\ reader' = Disturbed
  /\ UNCHANGED <<members, done, cancelled>>

EditDies ==
  /\ editor.pc = "write"
  /\ editor' = NoEdit
  /\ UNCHANGED <<members, done, cancelled, override, reader, written>>

HasMore(offset, total)      == offset + Limit < total

OpenBoard ==
  /\ reader.pc = "idle"
  /\ \E kind \in {"driver", "admin"} :
       reader' = [NotReading EXCEPT !.pc = "page", !.kind = kind]
  /\ UNCHANGED <<members, done, cancelled, override, editor, written>>

(* getMonthlyLeaderboardPage, or the administrator's page.                  *)
NextPage ==
  /\ reader.pc = "page"
  /\ \E full \in Ordered(Lines(reader.kind)) :
       LET slice == SubSeq(full, reader.offset + 1,
                           IF reader.offset + Limit < Len(full) THEN reader.offset + Limit ELSE Len(full))
           items == [i \in DOMAIN slice |-> [rank |-> reader.offset + i, driver |-> slice[i].driver]]
       IN  reader' = [reader EXCEPT !.got = @ \o items, !.offset = @ + Limit,
                                    !.pc = IF HasMore(reader.offset, Len(full)) THEN "page" ELSE "read"]
  /\ UNCHANGED <<members, done, cancelled, override, editor, written>>

CloseBoard ==
  /\ reader.pc = "read"
  /\ reader' = NotReading
  /\ UNCHANGED <<members, done, cancelled, override, editor, written>>

BoardInit ==
  /\ members \in SUBSET Racers
  /\ done = [d \in Racers |-> 0] /\ cancelled = [d \in Racers |-> 0]
  /\ override = [d \in Racers |-> NoOverride]
  /\ editor = NoEdit /\ reader = NotReading /\ written = 0

BoardNext ==
  \/ \E d \in Racers : TripCounts(d) \/ CancelCounts(d) \/ ReadBase(d)
  \/ UpsertOverride \/ EditDies \/ OpenBoard \/ NextPage \/ CloseBoard

BoardSpec == BoardInit /\ [][BoardNext]_boardVars

-----------------------------------------------------------------------------
(* Properties.                                                             *)

(* Whoever goes through the pages while nothing changes, and no two lines  *)
(* tie, has seen every line of the board once and in order.  The code      *)
(* promises nothing for ties: it sorts by no last key.                     *)
PagesCoverBoard ==
  LET lines == Lines(reader.kind)
      Better(x) == {y \in lines : Above(y, x)}
  IN  (/\ reader.pc = "read" /\ reader.calm
       /\ \A x, y \in lines : x # y => Key(x) # Key(y))
        => {reader.got[i] : i \in DOMAIN reader.got}
             = {[rank |-> Cardinality(Better(x)) + 1, driver |-> x.driver] : x \in lines}
           /\ Len(reader.got) = Cardinality(lines)

(* The three computations of a line agree, whatever overrides, trips and   *)
(* cancellations came in whichever order.                                  *)
BoardsAgree ==
  \A d \in Listed :
    /\ Line(d) = AdminLine(d)
    /\ OwnLine(d) = [trips |-> AdminLine(d).trips, score |-> AdminLine(d).score]

(* Everybody is shown the same board, and all of it.                       *)
OneBoard == PagesCoverBoard /\ BoardsAgree
=============================================================================
