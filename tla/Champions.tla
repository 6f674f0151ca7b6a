----------------------------- MODULE Champions -----------------------------
(***************************************************************************)
(* Three small pieces of the champions' programme: the month its boards    *)
(* show, which administrators move on; the bonus of each tier; and the     *)
(* lifetime XP of a driver, counted by three queries and overridden by an  *)
(* administrator.                                                          *)
(***************************************************************************)
EXTENDS Integers, FiniteSets

CONSTANTS
  Admins,       (* requests that may be in flight at once                   *)
  MaxMonth,     (* bound: months are 1..MaxMonth                            *)
  Tiers,        (* 1..6, with XpTier the least XP of each                   *)
  XpTier,
  MaxBonus,     (* 100000000                                                *)
  Uniform,      (* driverXpBonusUzs, for rows without bonuses by tier       *)
  TripXp,       (* 10                                                       *)
  MaxGains,     (* bound: trips and pings                                   *)
  MaxTarget,    (* bound: XP an override may name                           *)
  Null      (* null                                                     *)

ASSUME ChampionsAssumption ==
  /\ {MaxMonth, MaxBonus, TripXp, MaxGains, MaxTarget} \subseteq Nat
  /\ Uniform \in 0..MaxBonus
  /\ Cardinality(Tiers) \in Nat /\ Tiers = 1..Cardinality(Tiers) /\ Tiers # {}
  /\ XpTier \in [Tiers -> Nat] /\ XpTier[1] = 0
  /\ \A t, u \in Tiers : t < u => XpTier[t] < XpTier[u]

(* Null is neither a number nor a map by tier nor a row.                    *)
ASSUME NullAssumption ==
  Null \notin Int /\ Null \notin [Tiers -> Int] /\ Null \notin [xp : Int, base : Int]

-----------------------------------------------------------------------------
(* The month shown.                                                        *)

VARIABLES
  calendar,     (* the month it is                                          *)
  shown,        (* championsPeriodYmOverride, or null                       *)
  mover,        (* requests to move on: the month they will write           *)
  meant,        (* history: where the moves so far should have led          *)
  abreast       (* history: a move overlapped another, a reset or the turn  *)
                (* of the month                                             *)

monthVars == <<calendar, shown, mover, meant, abreast>>

Moving == {s \in Admins : mover[s] # Null}

(* Mutant: on from the month it is.                                         *)
BaseMonthNow == calendar
BaseMonth == IF shown = Null THEN calendar ELSE shown

(* advanceChampionsMonthOverride reads, then writes.                        *)
AdvanceMonth(s) ==
  /\ mover[s] = Null /\ BaseMonth < MaxMonth
  /\ mover' = [mover EXCEPT ![s] = BaseMonth + 1]
  /\ abreast' = (abreast \/ Moving # {})
  /\ UNCHANGED <<calendar, shown, meant>>

AdvanceMonthWrite(s) ==
  /\ mover[s] # Null
  /\ shown' = mover[s]
  /\ meant' = (IF meant = Null THEN calendar ELSE meant) + 1
  /\ mover' = [mover EXCEPT ![s] = Null]
  /\ UNCHANGED <<calendar, abreast>>

ClearMonth ==
  /\ shown' = Null /\ meant' = Null
  /\ abreast' = (abreast \/ Moving # {})
  /\ UNCHANGED <<calendar, mover>>

MonthTurns ==
  /\ calendar < MaxMonth
  /\ calendar' = calendar + 1
  /\ abreast' = (abreast \/ Moving # {})
  /\ UNCHANGED <<shown, mover, meant>>

MonthInit ==
  /\ calendar = 1 /\ shown = Null /\ meant = Null /\ abreast = FALSE
  /\ mover = [s \in Admins |-> Null]

MonthNext ==
  \/ \E s \in Admins : AdvanceMonth(s) \/ AdvanceMonthWrite(s)
  \/ ClearMonth \/ MonthTurns

-----------------------------------------------------------------------------
(* The bonuses.                                                            *)

VARIABLES
  bonuses,      (* driverXpTierBonusesUzsJson, or null                      *)
  bonusPatch,   (* requests: the map they will write and what they named    *)
  named,        (* history: the last value written for each tier a request  *)
                (* named                                                    *)
  mixed         (* history: two patches overlapped                          *)

bonusVars == <<bonuses, bonusPatch, named, mixed>>

NoPatchOf == [next |-> Null, body |-> Null]
BonusMap  == [t \in Tiers |-> IF bonuses = Null THEN Uniform ELSE bonuses[t]]

(* patchXpTierBonusesForAdmin: the map, with what the body names clamped.   *)
BonusMerged(body) ==
  [t \in Tiers |-> IF t \notin DOMAIN body THEN BonusMap[t]
                   ELSE IF body[t] > MaxBonus THEN MaxBonus ELSE body[t]]

PatchBonuses(s) ==
  /\ bonusPatch[s] = NoPatchOf
  /\ \E names \in SUBSET Tiers : \E body \in [names -> 0..(MaxBonus + 1)] :
       bonusPatch' = [bonusPatch EXCEPT ![s] = [next |-> BonusMerged(body), body |-> body]]
  /\ mixed' = (mixed \/ \E x \in Admins : bonusPatch[x] # NoPatchOf)
  /\ UNCHANGED <<bonuses, named>>

PatchBonusesWrite(s) ==
  /\ bonusPatch[s] # NoPatchOf
  /\ LET body == bonusPatch[s].body
     IN  named' = [t \in Tiers |-> IF t \notin DOMAIN body THEN named[t]
                                   ELSE IF body[t] > MaxBonus THEN MaxBonus ELSE body[t]]
  /\ bonuses' = bonusPatch[s].next
  /\ bonusPatch' = [bonusPatch EXCEPT ![s] = NoPatchOf]
  /\ UNCHANGED mixed

BonusInit ==
  /\ bonuses = Null /\ mixed = FALSE
  /\ bonusPatch = [s \in Admins |-> NoPatchOf]
  /\ named = [t \in Tiers |-> Uniform]

BonusNext == \E s \in Admins : PatchBonuses(s) \/ PatchBonusesWrite(s)

-----------------------------------------------------------------------------
(* Lifetime XP.                                                            *)

VARIABLES
  gained,       (* completed trips, their minutes, and pings                *)
  xpOverride,   (* the DriverLifetimeXpOverride row, or null                *)
  xpEdit,       (* requests: what their queries have returned               *)
  bounds        (* history: the XP when the last override began to count    *)
                (* and when it was written                                  *)

xpVars == <<gained, xpOverride, xpEdit, bounds>>

Sources  == {"trips", "minutes", "pings"}
NoCount  == [f \in Sources |-> Null]
IdleEdit == [pc |-> "idle", count |-> NoCount, from |-> 0]
NotBelow0(x) == IF x < 0 THEN 0 ELSE x

(* computeLifetimeXp: a ping stands for two minutes, and a minute online    *)
(* for 0.2 XP, rounded.                                                     *)
XpOf(c) == TripXp * c["trips"] + c["minutes"] + (4 * c["pings"] + 5) \div 10
Real    == XpOf(gained)

(* resolveEffectiveLifetimeXp, applyLifetimeXpOverrideReactive.             *)
Effective == IF xpOverride = Null THEN Real
             ELSE xpOverride.xp + NotBelow0(Real - xpOverride.base)

(* computeLevel: the highest tier reached, from the top down.               *)
Reached(xp, t) == xp >= XpTier[t]
Level(xp) ==
  LET from[t \in Tiers] == IF t = 1 \/ Reached(xp, t) THEN t ELSE from[t - 1]
  IN  from[Cardinality(Tiers)]

XpTrip ==
  /\ gained["trips"] + gained["pings"] < MaxGains
  /\ \E min \in 0..1 : gained' = [gained EXCEPT !["trips"] = @ + 1, !["minutes"] = @ + min]
  /\ UNCHANGED <<xpOverride, xpEdit, bounds>>

XpPing ==
  /\ gained["trips"] + gained["pings"] < MaxGains
  /\ gained' = [gained EXCEPT !["pings"] = @ + 1]
  /\ UNCHANGED <<xpOverride, xpEdit, bounds>>

(* upsertDriverLifetimeXpOverride: three queries at once, in any order,     *)
(* then the row.                                                            *)
EditXp(s) ==
  /\ xpEdit[s].pc = "idle"
  /\ xpEdit' = [xpEdit EXCEPT ![s] = [IdleEdit EXCEPT !.pc = "count", !.from = Real]]
  /\ UNCHANGED <<gained, xpOverride, bounds>>

CountXp(s) ==
  /\ xpEdit[s].pc = "count"
  /\ \E f \in Sources :
       /\ xpEdit[s].count[f] = Null
       /\ xpEdit' = [xpEdit EXCEPT ![s].count[f] = gained[f]]
  /\ UNCHANGED <<gained, xpOverride, bounds>>

WriteXp(s) ==
  /\ xpEdit[s].pc = "count" /\ \A f \in Sources : xpEdit[s].count[f] # Null
  /\ \E xp \in 0..MaxTarget : xpOverride' = [xp |-> xp, base |-> XpOf(xpEdit[s].count)]
  /\ bounds' = [from |-> xpEdit[s].from, to |-> Real]
  /\ xpEdit' = [xpEdit EXCEPT ![s] = IdleEdit]
  /\ UNCHANGED gained

DeleteXp ==
  /\ xpOverride # Null
  /\ xpOverride' = Null /\ bounds' = [from |-> 0, to |-> 0]
  /\ UNCHANGED <<gained, xpEdit>>

XpInit ==
  /\ gained = [f \in Sources |-> 0]
  /\ xpOverride = Null /\ bounds = [from |-> 0, to |-> 0]
  /\ xpEdit = [s \in Admins |-> IdleEdit]

XpNext ==
  \/ XpTrip \/ XpPing \/ DeleteXp
  \/ \E s \in Admins : EditXp(s) \/ CountXp(s) \/ WriteXp(s)

(* The three pieces share no state, and requests to them overlap freely.   *)
ChampionsSpec ==
  /\ MonthInit /\ [][MonthNext]_monthVars
  /\ BonusInit /\ [][BonusNext]_bonusVars
  /\ XpInit /\ [][XpNext]_xpVars

-----------------------------------------------------------------------------
(* Properties.                                                             *)

(* Each request to move on moves the month shown by one, from the month    *)
(* shown or, after a reset, from the calendar's, unless two overlapped.    *)
MovesAddUp == ~abreast => shown = meant

(* A patch of one tier's bonus undoes no earlier patch of another, and     *)
(* keeps the uniform bonus of the tiers nobody has named, unless two       *)
(* patches overlapped.                                                     *)
BonusesAddUp == ~mixed => BonusMap = named

(* Once overridden, a driver's XP grows with what is earned: all that came *)
(* after the row was written counts, and nothing that came before its      *)
(* queries began, though trips end while they run.                         *)
XpGrowsFromOverride ==
  xpOverride # Null =>
    Effective - xpOverride.xp \in (Real - bounds.to)..(Real - bounds.from)

(* The tier shown is the one the XP belongs to, on its borders too.        *)
LevelFits ==
  LET t == Level(Effective)
  IN  /\ XpTier[t] <= Effective
      /\ \A u \in Tiers : u > t => Effective < XpTier[u]

(* The edits of administrators add up with one another and with what the   *)
(* drivers earn, and the tier shown follows.                               *)
EditsAddUp == MovesAddUp /\ BonusesAddUp /\ XpGrowsFromOverride /\ LevelFits
=============================================================================
