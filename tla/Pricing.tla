------------------------------ MODULE Pricing ------------------------------
(***************************************************************************)
(* The pick-up pricing of one service zone: the default profile, which the *)
(* first request to need it creates; its rings, which administrators edit; *)
(* and one order, quoted from them when it is created and charged later.   *)
(* Distances and sums are small numbers; a quote is a starter fee, a rate  *)
(* per kilometre and the terms of waiting (free minutes and fee a minute,  *)
(* which go together everywhere).                                          *)
(***************************************************************************)
EXTENDS Naturals, Sequences, FiniteSets

CONSTANTS
  Callers,      (* requests that may be in flight at once                   *)
  MaxKm,        (* pick-up distances are 0..MaxKm                           *)
  MaxFee,       (* fees and rates are 0..MaxFee                             *)
  Starting,     (* the rings a new profile gets, in sort order; there are   *)
                (* five of them in the code                                 *)
  MaxRings,     (* bound: ring rows ever created                            *)
  MaxProfiles,  (* bound: profiles ever created                             *)
  MaxEdits,     (* bound: writes by administrators, deletions apart         *)
  Nobody        (* a field that is null or not named                        *)

ASSUME PricingAssumption == {MaxKm, MaxFee, MaxRings, MaxProfiles, MaxEdits} \subseteq Nat
ASSUME NobodyAssumption == Nobody \notin Nat

(* The codes a new profile has, and one an administrator adds.              *)
Codes    == {"city", "edge", "outer_1", "outer_2", "special", "extra"}
RingRows == [id : Nat, profile : Nat, code : Codes, from : Nat, to : Nat, fee : Nat,
             rate : Nat \cup {Nobody}, sort : Nat]

ASSUME StartingAssumption == Starting \in Seq(RingRows) /\ Starting # <<>>

VARIABLES
  zone,         (* the zone's own starter fee, and whether it has a centre  *)
  profiles,     (* its default profiles, the one updated last in front      *)
  rings,        (* ring rows                                                *)
  call,         (* requests                                                 *)
  order,        (* the order, or NoOrder                                    *)
  trip,         (* what acceptOrder copied, or NoQuote                      *)
  bill,         (* the quote the trip was charged by; NoQuote before and    *)
                (* when the operator named the sum                          *)
  promise,      (* history: the quote the order was created with            *)
  made,         (* ring rows, profiles and edits so far                     *)
  apart         (* history: no two requests overlapped in creating the      *)
                (* profile ("profile") or in deleting rings ("rings")       *)

pricingVars == <<zone, profiles, rings, call, order, trip, bill, promise, made, apart>>

Fees      == 0..MaxFee
Unbounded == MaxKm + 1          (* radiusToKm null: beyond every distance   *)
NoQuote   == [fee |-> Nobody, rate |-> Nobody, wait |-> Nobody]
NoOrder   == [state |-> "none", ring |-> Nobody, quote |-> NoQuote]
Waiting   == [pc |-> "idle", goal |-> Nobody, profile |-> Nobody, ring |-> Nobody,
              km |-> Nobody, named |-> Nobody, quote |-> NoQuote, seen |-> {}]
Goals     == {"read", "patch", "ring", "order"}

RingsOf(p)  == {r \in rings : r.profile = p}
FirstOf(S)  == {r \in S : \A q \in S : r.sort <= q.sort}
LastOf(S)   == {r \in S : \A q \in S : r.sort >= q.sort}

(* Mutant: the outer radius belongs to the ring.                            *)
BandIncl(r, km) == r.from <= km /\ km <= r.to
Band(r, km)     == r.from <= km /\ km < r.to

(* The ring of a quote: by distance when the zone has a centre and the      *)
(* order a position, the last ring when none covers it; otherwise the ring  *)
(* the operator named, or the first.                                        *)
Chosen(S, c) ==
  LET byDistance == zone.centre /\ c.km # Nobody
      covering   == {r \in S : Band(r, c.km)}
      named      == {r \in S : r.id = c.named}
  IN  IF byDistance THEN (IF covering # {} THEN FirstOf(covering) ELSE LastOf(S))
      ELSE IF named # {} THEN named ELSE FirstOf(S)

Quoted(p, r) ==
  [fee  |-> r.fee,
   rate |-> IF r.rate # Nobody THEN r.rate
            ELSE IF r.code \in {"city", "edge"} THEN p.city ELSE p.outside,
   wait |-> p.wait]

(* Where a request stands once it has its profile p with the rings S.       *)
Goes(c, p, S) ==
  CASE c.goal = "read"  -> {Waiting}
    [] c.goal = "patch" -> {[c EXCEPT !.pc = "patch", !.profile = p.id]}
    [] c.goal = "ring"  -> {[c EXCEPT !.pc = "ring", !.profile = p.id]}
    [] c.goal = "order" ->
         IF S = {} THEN {Waiting}
         ELSE {[c EXCEPT !.pc = "order", !.profile = p.id, !.ring = r.id,
                         !.quote = Quoted(p, r), !.seen = S] : r \in Chosen(S, c)}

Found       == 1..Len(profiles)

(* defaultProfileForZone: the default profile updated last, or none.        *)
FindProfile(s) ==
  /\ call[s].pc = "idle"
  /\ \E goal \in Goals, km \in {Nobody} \cup 0..MaxKm, named \in {Nobody} \cup {r.id : r \in rings} :
       LET c == [Waiting EXCEPT !.goal = goal, !.km = km, !.named = named]
       IN  /\ IF goal = "order"      (* bound: one order, asked for once at a time *)
              THEN /\ order = NoOrder /\ \A x \in Callers : call[x].goal # "order"
                   /\ Nobody \in {km, named}
              ELSE km = Nobody /\ named = Nobody
           /\ IF Found = {} THEN call' = [call EXCEPT ![s] = [c EXCEPT !.pc = "create"]]
              ELSE LET p == profiles[CHOOSE i \in Found : \A j \in Found : i <= j]
                   IN  \E d \in Goes(c, p, RingsOf(p.id)) : call' = [call EXCEPT ![s] = d]
  /\ apart' = apart \ (IF Found = {} /\ \E x \in Callers : call[x].pc = "create"
                       THEN {"profile"} ELSE {})
  /\ UNCHANGED <<zone, profiles, rings, order, trip, bill, promise, made>>

CreateProfile(s) ==
  /\ call[s].pc = "create"
  /\ made.profiles < MaxProfiles /\ made.rings + Len(Starting) <= MaxRings
  /\ LET p  == [id |-> made.profiles + 1, wait |-> 0, city |-> 0, outside |-> MaxFee]
         rs == {[Starting[i] EXCEPT !.id = made.rings + i, !.profile = p.id,
                                    !.fee = IF i = 1 THEN zone.fee ELSE @] : i \in DOMAIN Starting}
     IN  /\ profiles' = <<p>> \o profiles
         /\ rings' = rings \cup rs
         /\ \E d \in Goes(call[s], p, rs) : call' = [call EXCEPT ![s] = d]
  /\ made' = [made EXCEPT !.profiles = @ + 1, !.rings = @ + Len(Starting)]
  /\ UNCHANGED <<zone, order, trip, bill, promise, apart>>

Edited == made.edits < MaxEdits /\ made' = [made EXCEPT !.edits = @ + 1]

(* patchZonePickupPricing: the update makes the profile the latest.         *)
PatchProfile(s) ==
  /\ call[s].pc = "patch" /\ Edited
  /\ \E i \in DOMAIN profiles, f \in {"wait", "city", "outside"}, v \in Fees :
       /\ profiles[i].id = call[s].profile
       /\ profiles' = <<[profiles[i] EXCEPT ![f] = v]>> \o SubSeq(profiles, 1, i - 1)
                        \o SubSeq(profiles, i + 1, Len(profiles))
  /\ call' = [call EXCEPT ![s] = Waiting]
  /\ UNCHANGED <<zone, rings, order, trip, bill, promise, apart>>

(* createPickupPricingRing: a code the profile has already is refused, by   *)
(* the look-up or by the unique index.                                      *)
CreateRing(s) ==
  /\ call[s].pc = "ring"
  /\ made.edits < MaxEdits /\ made.rings < MaxRings
  /\ made' = [made EXCEPT !.edits = @ + 1, !.rings = @ + 1]
  /\ \E from \in 0..MaxKm, to \in 1..Unbounded, fee \in Fees, sort \in {0, 9} :
       rings' = IF \E r \in RingsOf(call[s].profile) : r.code = "extra" THEN rings
                ELSE rings \cup {[id |-> made.rings + 1, profile |-> call[s].profile,
                                  code |-> "extra", from |-> from, to |-> to, fee |-> fee,
                                  rate |-> Nobody, sort |-> sort]}
  /\ call' = [call EXCEPT ![s] = Waiting]
  /\ UNCHANGED <<zone, profiles, order, trip, bill, promise, apart>>

(* patchPickupPricingRing, one field at a time.                             *)
PatchRing ==
  /\ Edited
  /\ \E r \in rings, f \in {"from", "to", "fee", "rate", "sort"}, v \in {Nobody} \cup 0..Unbounded :
       /\ f = "to" => v \in 1..Unbounded
       /\ f = "from" => v \in 0..MaxKm
       /\ f = "fee" => v \in Fees
       /\ f = "rate" => v \in Fees \cup {Nobody}
       /\ f = "sort" => v \in {0, 1}
       /\ rings' = (rings \ {r}) \cup {[r EXCEPT ![f] = v]}
  /\ UNCHANGED <<zone, profiles, call, order, trip, bill, promise, apart>>

Spare(r)     == Cardinality(RingsOf(r.profile)) > 1

(* deletePickupPricingRing counts the rings, then deletes.                  *)
DeleteRing(s) ==
  /\ call[s].pc = "idle"
  /\ \E r \in rings :
       /\ Spare(r)
       /\ call' = [call EXCEPT ![s] = [Waiting EXCEPT !.pc = "delete", !.ring = r.id]]
  /\ apart' = apart \ (IF \E x \in Callers : call[x].pc = "delete" THEN {"rings"} ELSE {})
  /\ UNCHANGED <<zone, profiles, rings, order, trip, bill, promise, made>>

DeleteRingWrite(s) ==
  /\ call[s].pc = "delete"
  /\ rings' = {r \in rings : r.id # call[s].ring}
  /\ order' = IF order.ring = call[s].ring THEN [order EXCEPT !.ring = Nobody] ELSE order
  /\ call' = [call EXCEPT ![s] = Waiting]
  /\ UNCHANGED <<zone, profiles, trip, bill, promise, made, apart>>

(* updateZoneMeter.                                                         *)
UpdateZoneMeter ==
  /\ Edited
  /\ \E fee \in Fees : zone' = [zone EXCEPT !.fee = fee]
  /\ UNCHANGED <<profiles, rings, call, order, trip, bill, promise, apart>>

(* createOrder connects the ring it was quoted by: an order whose ring has  *)
(* been deleted since is not created.                                       *)
CreateOrder(s) ==
  /\ call[s].pc = "order" /\ order = NoOrder
  /\ IF \E r \in rings : r.id = call[s].ring
     THEN /\ order' = [state |-> "created", ring |-> call[s].ring, quote |-> call[s].quote]
          /\ promise' = call[s].quote
     ELSE UNCHANGED <<order, promise>>
  /\ call' = [call EXCEPT ![s] = Waiting]
  /\ UNCHANGED <<zone, profiles, rings, trip, bill, made, apart>>

OrElse(x, y) == IF x # Nobody THEN x ELSE y

(* Mutant: the trip takes the fee its ring has now.                         *)
CopiedNow ==
  [order.quote EXCEPT !.fee = IF order.ring # Nobody
                              THEN (CHOOSE r \in rings : r.id = order.ring).fee ELSE @]
Copied == [order.quote EXCEPT !.fee = OrElse(@, zone.fee)]

AcceptQuoted ==
  /\ order.state = "created"
  /\ order' = [order EXCEPT !.state = "accepted"]
  /\ trip' = Copied
  /\ UNCHANGED <<zone, profiles, rings, call, bill, promise, made, apart>>

CompleteQuoted ==
  /\ order.state = "accepted"
  /\ order' = [order EXCEPT !.state = "completed"]
  /\ bill' = [fee  |-> OrElse(trip.fee, zone.fee),
              rate |-> OrElse(trip.rate, order.quote.rate), wait |-> trip.wait]
  /\ UNCHANGED <<zone, profiles, rings, call, trip, promise, made, apart>>

(* resolveDispute: the operator's sum stands for all parts of the fare.     *)
CompleteAbsolute ==
  /\ order.state = "accepted"
  /\ order' = [order EXCEPT !.state = "completed"]
  /\ UNCHANGED <<zone, profiles, rings, call, trip, bill, promise, made, apart>>

CallDies(s) ==
  /\ call[s].pc # "idle"
  /\ call' = [call EXCEPT ![s] = Waiting]
  /\ UNCHANGED <<zone, profiles, rings, order, trip, bill, promise, made, apart>>

(* createServiceZone: a zone has a starter fee from the start, and may have *)
(* no centre.                                                               *)
PricingInit ==
  /\ zone \in [fee : {0}, centre : BOOLEAN]
  /\ profiles = <<>> /\ rings = {}
  /\ call = [s \in Callers |-> Waiting]
  /\ order = NoOrder /\ trip = NoQuote /\ bill = NoQuote /\ promise = NoQuote
  /\ made = [rings |-> 0, profiles |-> 0, edits |-> 0]
  /\ apart = {"profile", "rings"}

PricingNext ==
  \/ \E s \in Callers :
       \/ FindProfile(s) \/ CreateProfile(s) \/ PatchProfile(s) \/ CreateRing(s)
       \/ DeleteRing(s) \/ DeleteRingWrite(s) \/ CreateOrder(s) \/ CallDies(s)
  \/ PatchRing \/ UpdateZoneMeter \/ AcceptQuoted \/ CompleteQuoted
  \/ CompleteAbsolute

PricingSpec == PricingInit /\ [][PricingNext]_pricingVars

-----------------------------------------------------------------------------
(* Properties.                                                             *)

(* A zone has one default profile, unless the first two requests for one   *)
(* overlapped: no index forbids the second.                                *)
OneDefaultProfile == "profile" \in apart => Len(profiles) <= 1

(* A profile keeps at least one ring, so that orders can be created in its *)
(* zone, unless two deletions overlapped.                                  *)
RingsRemain ==
  "rings" \in apart => \A i \in DOMAIN profiles : RingsOf(profiles[i].id) # {}

(* However the rings have been moved, an order in a zone with a centre is  *)
(* quoted by a ring that contains its pick-up, when there is one: a        *)
(* distance on a border belongs to the outer ring only.                    *)
QuotedRingCovers ==
  \A s \in Callers :
    LET c == call[s]
        covering == {r \in c.seen : c.km \in r.from..(r.to - 1)}
    IN  (c.pc = "order" /\ zone.centre /\ c.km # Nobody /\ covering # {})
          => \E r \in covering : r.id = c.ring

(* An order in the zone can be quoted, from one tariff and by the ring its *)
(* pick-up is in, whatever administrators have done one after another.     *)
QuotedFromOneTariff == OneDefaultProfile /\ RingsRemain /\ QuotedRingCovers

(* The bill of a trip, but for one whose sum the operator named to end a   *)
(* dispute, follows the quote its order was created with, whatever has     *)
(* been done to rings, profile and zone in between.                        *)
ChargedAsPromised == bill # NoQuote => bill = promise
=============================================================================
