------------------------------ MODULE Settings ------------------------------
(***************************************************************************)
(* The pricing fields of the one PlatformSettings row.  Requests of        *)
(* administrators read the row, validate, and write all three fields; the  *)
(* champions endpoints may be the ones that create it.                     *)
(***************************************************************************)
EXTENDS Naturals, FiniteSets

CONSTANTS
  Patches,                  (* requests that may be in flight at once       *)
  BpsCap, AmountCap,        (* 10000 and 50000000                           *)
  EnvBps, EnvMin, EnvLow,   (* the environment's defaults                   *)
  Absent                    (* a field the body does not name               *)

ASSUME SettingsAssumption ==
  /\ {BpsCap, AmountCap} \subseteq Nat
  /\ EnvBps \in 0..BpsCap /\ EnvMin \in 0..AmountCap /\ EnvLow \in EnvMin..AmountCap
ASSUME AbsentAssumption == Absent \notin Nat

VARIABLES
  settings,     (* the row, or NoRow                                        *)
  patch,        (* requests between their read and their write              *)
  asked,        (* history: the last value written for each field a request *)
                (* named                                                    *)
  collided      (* history: two patches overlapped                          *)

settingsVars == <<settings, patch, asked, collided>>

Defaults == [bps |-> EnvBps, min |-> EnvMin, low |-> EnvLow]
NoRow    == [bps |-> Absent, min |-> Absent, low |-> Absent]
Fields   == {"bps", "min", "low"}
Bodies   == [bps : {Absent} \cup 0..(BpsCap + 1), min : {Absent} \cup 0..(AmountCap + 1),
             low : {Absent} \cup 0..(AmountCap + 1)]
NoPatch  == [pc |-> "idle", body |-> NoRow, next |-> NoRow]

Existing == [f \in Fields |-> IF settings[f] = Absent THEN Defaults[f] ELSE settings[f]]
Clamp(f, x) == IF f = "bps" THEN (IF x > BpsCap THEN BpsCap ELSE x)
               ELSE (IF x > AmountCap THEN AmountCap ELSE x)

(* Mutant: zero counts as absent.                                           *)
MergedOrZero(body) ==
  [f \in Fields |-> IF body[f] \in {Absent, 0} THEN Existing[f] ELSE Clamp(f, body[f])]
Merged(body) == [f \in Fields |-> IF body[f] = Absent THEN Existing[f] ELSE Clamp(f, body[f])]

PatchPlatformPricing(s) ==
  /\ patch[s].pc = "idle"
  /\ \E body \in Bodies \ {NoRow} :
       LET next == Merged(body)
       IN  /\ next.low >= next.min
           /\ patch' = [patch EXCEPT ![s] = [pc |-> "write", body |-> body, next |-> next]]
  /\ collided' = (collided \/ \E x \in Patches : patch[x].pc = "write")
  /\ UNCHANGED <<settings, asked>>

PatchPricingWrite(s) ==
  /\ patch[s].pc = "write"
  /\ settings' = patch[s].next
  /\ asked' = [f \in Fields |-> IF patch[s].body[f] = Absent THEN asked[f]
                                ELSE Clamp(f, patch[s].body[f])]
  /\ patch' = [patch EXCEPT ![s] = NoPatch]
  /\ UNCHANGED collided

PatchDies(s) ==
  /\ patch[s].pc = "write"
  /\ patch' = [patch EXCEPT ![s] = NoPatch]
  /\ UNCHANGED <<settings, asked, collided>>

(* The upserts of the champions endpoints write these fields only into a    *)
(* new row.                                                                 *)
ChampionsUpsert ==
  /\ settings = NoRow
  /\ settings' = Defaults
  /\ UNCHANGED <<patch, asked, collided>>

(* resolveCommissionWalletThresholds: what dispatch and the driver see.     *)
Thresholds == [min |-> Existing.min,
               low |-> IF Existing.low < Existing.min THEN Existing.min ELSE Existing.low]

SettingsInit ==
  /\ settings = NoRow
  /\ patch = [s \in Patches |-> NoPatch]
  /\ asked = NoRow
  /\ collided = FALSE

SettingsNext ==
  \/ \E s \in Patches : PatchPlatformPricing(s) \/ PatchPricingWrite(s) \/ PatchDies(s)
  \/ ChampionsUpsert

SettingsSpec == SettingsInit /\ [][SettingsNext]_settingsVars

-----------------------------------------------------------------------------
(* Properties.                                                             *)

(* The rates stay within their caps, and the "low balance" mark stays at   *)
(* or above the minimum to be offered orders, however patches of one field *)
(* or the other interleave: each writes a whole row it has validated.  So  *)
(* what readers are given is what the row says.                            *)
LowNotUnderMin ==
  /\ Existing.bps <= BpsCap /\ Existing.low <= AmountCap
  /\ Existing.low >= Existing.min
  /\ Thresholds = [min |-> Existing.min, low |-> Existing.low]

(* A patch of one field undoes no earlier patch of another, unless the two *)
(* overlapped: then the later writer puts back what it had read.           *)
PatchesAddUp ==
  ~collided => \A f \in Fields : asked[f] # Absent => settings[f] = asked[f]
=============================================================================
