---------------------------- MODULE FaresProofs ----------------------------
(***************************************************************************)
(* Proofs about Settings, Banners, Pricing and Tracking, for any requests, *)
(* caps, files, rings, distances and roads: what a trip is charged by.     *)
(***************************************************************************)
EXTENDS PlatformSettings, Pricing, Tracking, WellFoundedInduction, FiniteSetTheorems,
        SequenceTheorems, TLAPS

-----------------------------------------------------------------------------
(* The inductive invariants.                                               *)

(* A row that somebody validated.                                          *)
Validated(x) ==
  /\ x \in [Fields -> Nat]
  /\ x["bps"] <= BpsCap /\ x["low"] <= AmountCap /\ x["min"] <= x["low"]

Writing(s) == patch[s].pc = "write"

(* What a request is about to write is validated; while no two overlapped   *)
(* it is the row as it stands with the fields its body names.              *)
PatchOK(s) ==
  Writing(s) =>
    /\ Validated(patch[s].next) /\ patch[s].body \in [Fields -> {Absent} \cup Nat]
    /\ ~collided => \A f \in Fields :
         patch[s].next[f] = IF patch[s].body[f] = Absent THEN Existing[f]
                            ELSE Clamp(f, patch[s].body[f])

SettingsIInv ==
  /\ settings = NoRow \/ Validated(settings)
  /\ patch \in [Patches -> [pc : {"idle", "write"}, body : [Fields -> {Absent} \cup Nat],
                            next : [Fields -> {Absent} \cup Nat]]]
  /\ \A s \in Patches : PatchOK(s)
  /\ ~collided => \A s, x \in Patches : Writing(s) /\ Writing(x) => s = x
  /\ PatchesAddUp

Quotes   == [fee : Nat, rate : Nat, wait : Nat]
ProfileRows == [id : Nat, wait : Nat, city : Nat, outside : Nat]
CallRows == [pc : {"idle", "create", "patch", "ring", "order", "delete"}, goal : Goals \cup {Nobody},
             profile : Nat \cup {Nobody}, ring : Nat \cup {Nobody}, km : (0..MaxKm) \cup {Nobody},
             named : Nat \cup {Nobody}, quote : Quotes \cup {NoQuote}, seen : SUBSET RingRows]

(* The ring of a quote contains the pick-up, if any ring does.              *)
Covers(c) ==
  LET covering == {r \in c.seen : c.km \in r.from..(r.to - 1)}
  IN  zone.centre /\ c.km # Nobody /\ covering # {} => \E r \in covering : r.id = c.ring

(* A request to create an order has a whole quote; one that creates the     *)
(* profile or deletes a ring does so for good, if nobody else does the same *)
(* at once: there is no profile yet, and every profile has another ring.    *)
PricingCallOK(s) ==
  /\ call[s].pc \in {"patch", "ring"} => call[s].profile \in Nat
  /\ call[s].pc = "order" => call[s].quote \in Quotes /\ Covers(call[s])
  /\ call[s].pc = "create" => /\ call[s].goal \in Goals
                              /\ "profile" \in apart => profiles = <<>>
  /\ call[s].pc = "delete" => /\ call[s].ring \in 0..made.rings
                              /\ "rings" \in apart => \A i \in DOMAIN profiles :
                                   \E r \in RingsOf(profiles[i].id) : r.id # call[s].ring

OneAtATime(label, what) ==
  what \in apart => \A s, x \in Callers : call[s].pc = label /\ call[x].pc = label => s = x

(* The quote goes from the order to the trip to the bill.                   *)
PromiseKept ==
  /\ order \in [state : {"none", "created", "accepted", "completed"}, ring : Nat \cup {Nobody},
                 quote : Quotes \cup {NoQuote}]
  /\ order.state # "none" => promise \in Quotes
  /\ order.state \in {"created", "accepted"} => order.quote = promise
  /\ order.state = "accepted" => trip = promise
  /\ IF order.state = "completed" THEN bill \in {promise, NoQuote} ELSE bill = NoQuote

PricingTyped ==
  /\ zone \in [fee : Nat, centre : BOOLEAN]
  /\ profiles \in Seq(ProfileRows)
  /\ made \in [rings : Nat, profiles : Nat, edits : Nat]
  /\ rings \subseteq RingRows
  /\ \A r \in rings : r.id \in 0..made.rings
  /\ \A r, q \in rings : r.id = q.id => r = q
  /\ call \in [Callers -> CallRows]

PricingIInv ==
  /\ PricingTyped /\ PromiseKept /\ OneDefaultProfile /\ RingsRemain
  /\ \A s \in Callers : PricingCallOK(s)
  /\ OneAtATime("create", "profile") /\ OneAtATime("delete", "rings")

-----------------------------------------------------------------------------
(* The settings row.                                                       *)

LEMMA DefaultsValidated == Validated(Defaults)
BY SettingsAssumption DEF Validated, Defaults, Fields

LEMMA NoRowAbsent == NoRow \in [Fields -> {Absent}] /\ \A f \in Fields : NoRow[f] = Absent
BY DEF NoRow, Fields

LEMMA ExistingValidated ==
  ASSUME settings = NoRow \/ Validated(settings)
  PROVE  /\ Validated(Existing)
         /\ \A f \in Fields : settings[f] # Absent => Existing[f] = settings[f]
<1>1. CASE settings = NoRow
  <2>1. Existing \in [Fields -> Nat] /\ \A f \in Fields : Existing[f] = Defaults[f]
    BY <1>1, NoRowAbsent, DefaultsValidated DEF Existing, Validated
  <2> QED BY <1>1, <2>1, NoRowAbsent, DefaultsValidated DEF Validated, Fields
<1>2. CASE Validated(settings)
  <2>1. Existing \in [Fields -> Nat] /\ \A f \in Fields : Existing[f] = settings[f]
    BY <1>2, AbsentAssumption DEF Existing, Validated
  <2> QED BY <1>2, <2>1 DEF Validated, Fields
<1> QED BY <1>1, <1>2

LEMMA MergedValidated ==
  ASSUME settings = NoRow \/ Validated(settings), NEW body \in [Fields -> {Absent} \cup Nat],
         Merged(body)["low"] >= Merged(body)["min"]
  PROVE  /\ Validated(Merged(body))
         /\ \A f \in Fields : Merged(body)[f] = IF body[f] = Absent THEN Existing[f] ELSE Clamp(f, body[f])
<1>1. BpsCap \in Nat /\ AmountCap \in Nat
  BY SettingsAssumption
<1>2. ASSUME NEW f \in Fields, body[f] # Absent
      PROVE  /\ Clamp(f, body[f]) \in Nat
             /\ f = "bps" => Clamp(f, body[f]) <= BpsCap
             /\ f # "bps" => Clamp(f, body[f]) <= AmountCap
  BY <1>1, <1>2 DEF Clamp
<1>3. \A f \in Fields : Merged(body)[f] = IF body[f] = Absent THEN Existing[f] ELSE Clamp(f, body[f])
  BY DEF Merged
<1>4. Merged(body) \in [Fields -> Nat]
  BY <1>2, <1>3, ExistingValidated DEF Merged, Validated
<1>5. Merged(body)["bps"] <= BpsCap /\ Merged(body)["low"] <= AmountCap
  BY <1>1, <1>2, <1>3, ExistingValidated DEF Validated, Fields
<1>6. Merged(body)["min"] <= Merged(body)["low"]
  BY <1>4 DEF Fields
<1> QED BY <1>3, <1>4, <1>5, <1>6 DEF Validated

PatchRows == [pc : {"idle", "write"}, body : [Fields -> {Absent} \cup Nat],
              next : [Fields -> {Absent} \cup Nat]]

LEMMA NoPatchRow == NoPatch \in PatchRows /\ NoPatch.pc = "idle"
BY NoRowAbsent DEF NoPatch, PatchRows

LEMMA PatchReadStep ==
  ASSUME SettingsIInv, NEW s \in Patches, PatchPlatformPricing(s)
  PROVE  SettingsIInv'
<1>1. PICK body \in Bodies \ {NoRow} :
        /\ Merged(body).low >= Merged(body).min
        /\ patch' = [patch EXCEPT ![s] = [pc |-> "write", body |-> body, next |-> Merged(body)]]
  BY DEF PatchPlatformPricing
<1>2. /\ patch[s].pc = "idle" /\ UNCHANGED <<settings, asked>>
      /\ collided' = (collided \/ \E x \in Patches : Writing(x))
  BY DEF PatchPlatformPricing, Writing
<1>3. body \in [Fields -> {Absent} \cup Nat]
  BY SettingsAssumption DEF Bodies, Fields
<1>4. /\ Validated(Merged(body))
      /\ \A f \in Fields : Merged(body)[f] = IF body[f] = Absent THEN Existing[f] ELSE Clamp(f, body[f])
  BY <1>1, <1>3, MergedValidated DEF SettingsIInv
<1>5. PICK r \in PatchRows : /\ patch' = [patch EXCEPT ![s] = r] /\ r.pc = "write" /\ r.body = body
                             /\ r.next = Merged(body)
  <2> DEFINE r == [pc |-> "write", body |-> body, next |-> Merged(body)]
  <2>1. r \in PatchRows /\ r.pc = "write" /\ r.body = body /\ r.next = Merged(body)
        /\ patch' = [patch EXCEPT ![s] = r]
    BY <1>1, <1>3, <1>4 DEF PatchRows, Validated
  <2> HIDE DEF r
  <2> QED BY <2>1
<1>6. /\ patch' \in [Patches -> PatchRows] /\ patch'[s] = r
      /\ \A x \in Patches \ {s} : patch'[x] = patch[x]
  BY <1>5 DEF SettingsIInv, PatchRows
<1>7. \A f \in Fields : Existing'[f] = Existing[f]
  BY <1>2 DEF Existing
<1>8. ASSUME NEW x \in Patches
      PROVE  PatchOK(x)'
  <2>1. CASE x = s
    BY <1>3, <1>4, <1>5, <1>6, <1>7, <2>1 DEF PatchOK
  <2>2. CASE x # s
    BY <1>2, <1>6, <1>7, <2>2 DEF PatchOK, SettingsIInv, Writing
  <2> QED BY <2>1, <2>2
<1>9. ~collided' => \A x, y \in Patches : Writing(x)' /\ Writing(y)' => x = y
  BY <1>2, <1>6 DEF Writing
<1>10. PatchesAddUp'
  BY <1>2 DEF SettingsIInv, PatchesAddUp
<1> QED BY <1>2, <1>6, <1>8, <1>9, <1>10 DEF SettingsIInv, PatchRows, Validated

LEMMA PatchWriteStep ==
  ASSUME SettingsIInv, NEW s \in Patches, PatchPricingWrite(s)
  PROVE  SettingsIInv'
<1>1. /\ Writing(s) /\ settings' = patch[s].next /\ patch' = [patch EXCEPT ![s] = NoPatch]
      /\ asked' = [f \in Fields |-> IF patch[s].body[f] = Absent THEN asked[f]
                                    ELSE Clamp(f, patch[s].body[f])]
      /\ UNCHANGED collided /\ PatchOK(s)
  BY DEF PatchPricingWrite, SettingsIInv, Writing
<1>2. /\ patch' \in [Patches -> PatchRows] /\ patch'[s].pc = "idle"
      /\ \A x \in Patches \ {s} : patch'[x] = patch[x]
  BY <1>1, NoPatchRow DEF SettingsIInv, PatchRows
<1>3. Validated(settings')
  BY <1>1 DEF PatchOK
<1>4. ASSUME ~collided, NEW f \in Fields, asked'[f] # Absent
      PROVE  settings'[f] = asked'[f]
  <2>1. settings'[f] = IF patch[s].body[f] = Absent THEN Existing[f] ELSE Clamp(f, patch[s].body[f])
    BY <1>1, <1>4 DEF PatchOK
  <2>2. CASE patch[s].body[f] = Absent
    <3>1. asked[f] # Absent /\ settings[f] = asked[f]
      BY <1>1, <1>4, <2>2 DEF SettingsIInv, PatchesAddUp
    <3> QED BY <1>1, <2>1, <2>2, <3>1, ExistingValidated DEF SettingsIInv
  <2>3. CASE patch[s].body[f] # Absent
    BY <1>1, <2>1, <2>3
  <2> QED BY <2>2, <2>3
<1>5. \A x \in Patches : Writing(x)' => Writing(x) /\ x # s /\ patch'[x] = patch[x]
  BY <1>2 DEF Writing
<1>6. ASSUME NEW x \in Patches
      PROVE  PatchOK(x)'
  <2>1. Writing(x)' => collided
    BY <1>1, <1>5 DEF SettingsIInv
  <2> QED BY <1>1, <1>5, <2>1 DEF PatchOK, SettingsIInv, Validated
<1>7. ~collided' => \A x, y \in Patches : Writing(x)' /\ Writing(y)' => x = y
  BY <1>1, <1>5 DEF SettingsIInv
<1>8. PatchesAddUp'
  BY <1>1, <1>4 DEF PatchesAddUp
<1> QED BY <1>2, <1>3, <1>6, <1>7, <1>8 DEF SettingsIInv, PatchRows, Validated

LEMMA PatchDiesStep ==
  ASSUME SettingsIInv, NEW s \in Patches, PatchDies(s)
  PROVE  SettingsIInv'
<1>1. patch' = [patch EXCEPT ![s] = NoPatch] /\ UNCHANGED <<settings, asked, collided>>
  BY DEF PatchDies
<1>2. /\ patch' \in [Patches -> PatchRows] /\ patch'[s].pc = "idle"
      /\ \A x \in Patches \ {s} : patch'[x] = patch[x]
  BY <1>1, NoPatchRow DEF SettingsIInv, PatchRows
<1>3. \A x \in Patches : Writing(x)' => Writing(x) /\ patch'[x] = patch[x]
  BY <1>2 DEF Writing
<1>4. \A f \in Fields : Existing'[f] = Existing[f]
  BY <1>1 DEF Existing
<1>5. ASSUME NEW x \in Patches
      PROVE  PatchOK(x)'
  BY <1>1, <1>3, <1>4 DEF PatchOK, SettingsIInv, Validated
<1> QED BY <1>1, <1>2, <1>3, <1>5 DEF SettingsIInv, PatchRows, Validated, PatchesAddUp

LEMMA ChampionsUpsertStep ==
  ASSUME SettingsIInv, ChampionsUpsert
  PROVE  SettingsIInv'
<1>1. settings = NoRow /\ settings' = Defaults /\ UNCHANGED <<patch, asked, collided>>
  BY DEF ChampionsUpsert
<1>2. \A f \in Fields : Existing[f] = Defaults[f] /\ Existing'[f] = Defaults[f]
  BY <1>1, NoRowAbsent, DefaultsValidated, AbsentAssumption DEF Existing, Validated
<1>3. ASSUME NEW x \in Patches
      PROVE  PatchOK(x)'
  BY <1>1, <1>2 DEF PatchOK, SettingsIInv, Validated, Writing
<1>4. PatchesAddUp'
  BY <1>1, NoRowAbsent DEF SettingsIInv, PatchesAddUp
<1>5. Validated(settings')
  BY <1>1, DefaultsValidated
<1> QED BY <1>1, <1>3, <1>4, <1>5 DEF SettingsIInv, Validated, Writing

LEMMA SettingsInductive == SettingsInit /\ [][SettingsNext]_settingsVars => []SettingsIInv
<1>1. SettingsInit => SettingsIInv
  BY NoPatchRow, NoRowAbsent
     DEF SettingsInit, SettingsIInv, PatchRows, PatchOK, Writing, PatchesAddUp
<1>2. SettingsIInv /\ [SettingsNext]_settingsVars => SettingsIInv'
  <2>1. SettingsIInv /\ UNCHANGED settingsVars => SettingsIInv'
    BY DEF settingsVars, SettingsIInv, PatchOK, Writing, PatchesAddUp, Validated, Existing
  <2> QED BY <2>1, PatchReadStep, PatchWriteStep, PatchDiesStep, ChampionsUpsertStep DEF SettingsNext
<1> QED BY <1>1, <1>2, PTL

LEMMA SettingsSound == SettingsIInv => LowNotUnderMin /\ PatchesAddUp
<1> SUFFICES ASSUME SettingsIInv PROVE LowNotUnderMin
  BY DEF SettingsIInv
<1>1. Validated(Existing)
  BY ExistingValidated DEF SettingsIInv
<1>2. Existing["low"] \in Nat /\ Existing["min"] \in Nat /\ Existing["min"] <= Existing["low"]
      /\ Existing["bps"] <= BpsCap /\ Existing["low"] <= AmountCap
  BY <1>1 DEF Validated, Fields
<1> QED BY <1>2 DEF LowNotUnderMin, Thresholds

-----------------------------------------------------------------------------
(* The banners.                                                            *)

(* Names that have been uploaded or came with a patch, files that stay, and *)
(* names that are foreign or have a file that stays.                       *)
Known == used \cup foreign
Kept == disk \ doomed
Sound(names) == names \ foreign \subseteq Kept

(* What a request will do to the list and the files.  A list it will write  *)
(* is not too long, and while no two requests overlapped and none died, its *)
(* names are foreign or have a file that stays.                            *)
UploadOK(s) ==
  LET r == banReq[s]
  IN  /\ r.pc \in {"append", "remove", "patch"} => r.list.size <= MaxBanners
      /\ r.file \subseteq Known /\ r.list.names \subseteq Known
      /\ ~tangled =>
           /\ r.pc = "read" => Sound(r.file)
           /\ r.pc \in {"append", "remove", "change", "patch"} => Sound(r.list.names)
           /\ r.pc = "remove" => r.file \cap r.list.names = {}
           /\ r.pc = "unlink" => r.file \cap banners.names = {}

Lists == [names : SUBSET Files, size : Nat]
UploadRows == [pc : {"idle", "read", "append", "remove", "unlink", "change", "patch"},
               file : SUBSET Files, list : Lists]

BannersIInv ==
  /\ banners \in Lists /\ BannersBounded
  /\ banReq \in [Uploads -> UploadRows]
  /\ banners.names \subseteq Known /\ doomed \subseteq Known
  /\ \A s \in Uploads : UploadOK(s)
  /\ ~tangled => \A s, x \in Uploads : ~BanAt(s, "idle") /\ ~BanAt(x, "idle") => s = x
  /\ tangled \/ (\E s \in Uploads : BanAt(s, "patch")) \/ Sound(banners.names)

(* A step of one request, which changes the list and the files; the others  *)
(* are idle, or requests have overlapped.                                  *)
LEMMA OneUpload ==
  ASSUME BannersIInv, NEW s \in Uploads, NEW r \in UploadRows, banReq' = [banReq EXCEPT ![s] = r],
         banners' \in Lists, banners'.size <= MaxBanners,
         used \subseteq used', foreign \subseteq foreign',
         banners'.names \subseteq Known', doomed' \subseteq Known',
         UploadOK(s)', tangled => tangled',
         ~tangled' => \A x \in Uploads \ {s} : BanAt(x, "idle"),
         tangled' \/ r.pc = "patch" \/ Sound(banners.names)'
  PROVE  BannersIInv'
<1>1. /\ banReq' \in [Uploads -> UploadRows] /\ banReq'[s] = r
      /\ \A x \in Uploads \ {s} : banReq'[x] = banReq[x]
  BY DEF BannersIInv
<1>2. ASSUME NEW x \in Uploads
      PROVE  UploadOK(x)'
  <2>1. CASE x = s
    BY <2>1
  <2>2. CASE x # s
    <3>1. banReq'[x] = banReq[x] /\ UploadOK(x)
      BY <1>1, <2>2 DEF BannersIInv
    <3>2. Known \subseteq Known'
      BY DEF Known
    <3>3. ~tangled' => banReq[x].pc = "idle"
      BY <2>2 DEF BanAt
    <3> QED BY <3>1, <3>2, <3>3 DEF UploadOK
  <2> QED BY <2>1, <2>2
<1>3. ~tangled' => \A x, y \in Uploads : ~BanAt(x, "idle")' /\ ~BanAt(y, "idle")' => x = y
  BY <1>1 DEF BanAt
<1>4. tangled' \/ (\E x \in Uploads : BanAt(x, "patch")') \/ Sound(banners.names)'
  BY <1>1 DEF BanAt
<1> QED BY <1>1, <1>2, <1>3, <1>4 DEF BannersIInv, BannersBounded

LEMMA UploadRow ==
  ASSUME BannersIInv, NEW s \in Uploads
  PROVE  /\ banReq \in [Uploads -> UploadRows] /\ banReq[s] \in UploadRows /\ UploadOK(s)
         /\ banners \in Lists /\ banners.size \in Nat /\ MaxBanners \in Nat
         /\ banners.size <= MaxBanners
         /\ banners.names \subseteq Known /\ doomed \subseteq Known
         /\ ~tangled /\ ~BanAt(s, "idle") => \A x \in Uploads \ {s} : BanAt(x, "idle")
         /\ tangled \/ banReq[s].pc = "patch" \/ (BanAt(s, "idle") /\ Busy) \/ Sound(banners.names)
BY BannersAssumption DEF BannersIInv, BannersBounded, Lists, BanAt, Busy

LEMMA NoUploadRow ==
  /\ NoUpload \in UploadRows /\ NoUpload.pc = "idle"
  /\ NoUpload.file = {} /\ NoUpload.list.names = {} /\ NoList \in Lists
BY DEF NoUpload, NoList, UploadRows, Lists

LEMMA ListingsRow ==
  ASSUME NEW names \in SUBSET Files, NEW most \in Int, NEW list \in Listings(names, most)
  PROVE  /\ list \in Lists /\ list.names = names /\ list.size <= most
BY DEF Listings, Lists

(* A request starts: were another at work, they would be tangled.           *)
LEMMA UploadBannerStep ==
  ASSUME BannersIInv, NEW s \in Uploads, UploadBanner(s)
  PROVE  BannersIInv'
<1>1. PICK f \in Files \ used :
        /\ disk' = disk \cup {f} /\ used' = used \cup {f}
        /\ banReq' = [banReq EXCEPT ![s] = [pc |-> "read", file |-> {f}, list |-> NoList]]
  BY DEF UploadBanner
<1>2. UNCHANGED <<banners, doomed, foreign>> /\ tangled' = (tangled \/ Busy) /\ BanAt(s, "idle")
  BY DEF UploadBanner
<1>3. PICK r \in UploadRows : /\ banReq' = [banReq EXCEPT ![s] = r] /\ r.pc = "read" /\ r.file = {f}
                              /\ r.list.names = {}
  <2> DEFINE r == [pc |-> "read", file |-> {f}, list |-> NoList]
  <2>1. r \in UploadRows /\ r.pc = "read" /\ r.file = {f} /\ r.list = NoList
        /\ banReq' = [banReq EXCEPT ![s] = r]
    BY <1>1, NoUploadRow DEF UploadRows
  <2> HIDE DEF r
  <2>2. r.list.names = {}
    BY <2>1 DEF NoList
  <2> QED BY <2>1, <2>2
<1>4. UploadOK(s)'
  <2>1. banReq'[s] = r
    BY <1>3, UploadRow
  <2>2. f \in Known' /\ (f \in foreign \/ f \in Kept')
    BY <1>1, <1>2, UploadRow DEF Known, Kept
  <2> QED BY <1>2, <1>3, <2>1, <2>2 DEF UploadOK, Sound
<1>5. ~tangled' => /\ ~tangled /\ ~Busy
                   /\ \A x \in Uploads \ {s} : BanAt(x, "idle")
  BY <1>2 DEF Busy
<1>6. tangled' \/ Sound(banners.names)'
  BY <1>1, <1>2, <1>5, UploadRow DEF BanAt, Sound, Kept
<1>7. used \subseteq used' /\ foreign \subseteq foreign' /\ Known \subseteq Known'
  BY <1>1, <1>2 DEF Known
<1> QED BY <1>2, <1>3, <1>4, <1>5, <1>6, <1>7, UploadRow, OneUpload

LEMMA DeleteBannerStep ==
  ASSUME BannersIInv, NEW s \in Uploads, DeleteBanner(s)
  PROVE  BannersIInv'
<1>1. PICK f \in banners.names : \E list \in Listings(banners.names \ {f}, banners.size - 1) :
        banReq' = [banReq EXCEPT ![s] = [pc |-> "remove", file |-> {f}, list |-> list]]
  BY DEF DeleteBanner
<1>2. PICK list \in Listings(banners.names \ {f}, banners.size - 1) :
        banReq' = [banReq EXCEPT ![s] = [pc |-> "remove", file |-> {f}, list |-> list]]
  BY <1>1
<1>3. /\ UNCHANGED <<banners, disk, doomed, used, foreign>>
      /\ tangled' = (tangled \/ Busy) /\ BanAt(s, "idle")
  BY DEF DeleteBanner
<1>4. /\ list \in Lists /\ list.names = banners.names \ {f} /\ list.size <= MaxBanners
  <2>1. banners.names \ {f} \in SUBSET Files /\ banners.size - 1 \in Int
    BY UploadRow DEF Lists
  <2>2. list \in Lists /\ list.names = banners.names \ {f} /\ list.size <= banners.size - 1
    BY <2>1, ListingsRow
  <2> QED BY <2>2, UploadRow DEF Lists
<1>5. PICK r \in UploadRows : /\ banReq' = [banReq EXCEPT ![s] = r] /\ r.pc = "remove" /\ r.file = {f}
                              /\ r.list = list
  <2> DEFINE r == [pc |-> "remove", file |-> {f}, list |-> list]
  <2>1. /\ r \in UploadRows /\ r.pc = "remove" /\ r.file = {f} /\ r.list = list
        /\ banReq' = [banReq EXCEPT ![s] = r]
    BY <1>2, <1>4, UploadRow DEF UploadRows, Lists
  <2> HIDE DEF r
  <2> QED BY <2>1
<1>6. ~tangled' => /\ ~tangled /\ ~Busy
                   /\ \A x \in Uploads \ {s} : BanAt(x, "idle")
  BY <1>3 DEF Busy
<1>7. tangled' \/ Sound(banners.names)
  BY <1>3, <1>6, UploadRow DEF BanAt
<1>8. UploadOK(s)'
  <2>1. banReq'[s] = r
    BY <1>5, UploadRow
  <2> QED BY <1>3, <1>4, <1>5, <1>7, <2>1, UploadRow DEF UploadOK, Sound, Kept, Known
<1> QED BY <1>3, <1>5, <1>6, <1>7, <1>8, UploadRow, OneUpload DEF Sound, Kept, Known

LEMMA PatchBannersStep ==
  ASSUME BannersIInv, NEW s \in Uploads, PatchBanners(s)
  PROVE  BannersIInv'
<1>1. /\ UNCHANGED <<banners, disk, doomed, used, foreign>>
      /\ tangled' = (tangled \/ Busy) /\ BanAt(s, "idle")
  BY DEF PatchBanners
<1>2. PICK r \in UploadRows : /\ banReq' = [banReq EXCEPT ![s] = r] /\ r.pc = "change" /\ r.file = {}
                              /\ r.list = banners
  <2> DEFINE r == [pc |-> "change", file |-> {}, list |-> banners]
  <2>1. r \in UploadRows /\ r.pc = "change" /\ r.file = {} /\ r.list = banners
        /\ banReq' = [banReq EXCEPT ![s] = r]
    BY UploadRow DEF PatchBanners, UploadRows
  <2> HIDE DEF r
  <2> QED BY <2>1
<1>3. ~tangled' => /\ ~tangled /\ ~Busy
                   /\ \A x \in Uploads \ {s} : BanAt(x, "idle")
  BY <1>1 DEF Busy
<1>4. tangled' \/ Sound(banners.names)
  BY <1>1, <1>3, UploadRow DEF BanAt
<1>5. UploadOK(s)'
  <2>1. banReq'[s] = r
    BY <1>2, UploadRow
  <2> QED BY <1>1, <1>2, <1>4, <2>1, UploadRow DEF UploadOK, Sound, Kept, Known
<1> QED BY <1>1, <1>2, <1>3, <1>4, <1>5, UploadRow, OneUpload DEF Sound, Kept, Known

(* A request at work goes on: the others are idle, or it is tangled.        *)
LEMMA Alone ==
  ASSUME BannersIInv, NEW s \in Uploads, banReq[s].pc # "idle"
  PROVE  /\ ~tangled => \A x \in Uploads \ {s} : BanAt(x, "idle")
         /\ tangled \/ banReq[s].pc = "patch" \/ Sound(banners.names)
BY UploadRow DEF BanAt

LEMMA PatchDropsStep ==
  ASSUME BannersIInv, NEW s \in Uploads, PatchDrops(s)
  PROVE  BannersIInv'
<1>1. PICK names \in SUBSET Files : \E list \in Listings(names, MaxBanners) :
        /\ doomed' = doomed \cup (banReq[s].list.names \ names)
        /\ foreign' = foreign \cup (names \ banReq[s].list.names)
        /\ banReq' = [banReq EXCEPT ![s] = [pc |-> "patch", file |-> {}, list |-> list]]
  BY DEF PatchDrops
<1>2. PICK list \in Listings(names, MaxBanners) :
        banReq' = [banReq EXCEPT ![s] = [pc |-> "patch", file |-> {}, list |-> list]]
  BY <1>1
<1>3. banReq[s].pc = "change" /\ UNCHANGED <<banners, disk, used, tangled>>
  BY DEF PatchDrops, BanAt
<1>4. list \in Lists /\ list.names = names /\ list.size <= MaxBanners
  BY ListingsRow, UploadRow
<1>5. PICK r \in UploadRows : /\ banReq' = [banReq EXCEPT ![s] = r] /\ r.pc = "patch" /\ r.file = {}
                              /\ r.list = list
  <2> DEFINE r == [pc |-> "patch", file |-> {}, list |-> list]
  <2>1. r \in UploadRows /\ r.pc = "patch" /\ r.file = {} /\ r.list = list
        /\ banReq' = [banReq EXCEPT ![s] = r]
    BY <1>2, <1>4, UploadRow DEF UploadRows
  <2> HIDE DEF r
  <2> QED BY <2>1
<1>6. Known \subseteq Known' /\ foreign \subseteq foreign'
  BY <1>1, <1>3 DEF Known
<1>7. banReq[s].list.names \subseteq Known /\ (tangled \/ Sound(banReq[s].list.names))
  BY <1>3, UploadRow DEF UploadOK
<1>8. names \subseteq Known' /\ doomed' \subseteq Known'
  BY <1>1, <1>3, <1>7, UploadRow DEF Known
<1>9. tangled \/ Sound(names)'
  BY <1>1, <1>3, <1>7 DEF Sound, Kept
<1>10. UploadOK(s)'
  <2>1. banReq'[s] = r
    BY <1>5, UploadRow
  <2>2. Sound(list.names)' <=> Sound(names)'
    BY <1>4 DEF Sound
  <2> QED BY <1>3, <1>4, <1>5, <1>8, <1>9, <2>1 DEF UploadOK, Sound
<1>11. banners' \in Lists /\ banners'.size <= MaxBanners /\ banners'.names \subseteq Known'
  BY <1>3, <1>6, UploadRow
<1>12. ~tangled' => \A x \in Uploads \ {s} : BanAt(x, "idle")
  BY <1>3, Alone
<1> QED BY <1>3, <1>5, <1>6, <1>8, <1>10, <1>11, <1>12, OneUpload

LEMMA UploadReadStep ==
  ASSUME BannersIInv, NEW s \in Uploads, UploadRead(s)
  PROVE  BannersIInv'
<1>1. /\ banReq[s].pc = "read" /\ UNCHANGED <<banners, disk, doomed, used, foreign, tangled>>
      /\ tangled \/ Sound(banners.names)
  BY Alone DEF UploadRead, BanAt
<1> DEFINE longer == [names |-> banners.names \cup banReq[s].file, size |-> banners.size + 1]
<1>2. banReq' = [banReq EXCEPT ![s] =
         IF banners.size >= MaxBanners THEN NoUpload
         ELSE [[banReq[s] EXCEPT !.pc = "append"] EXCEPT !.list = longer]]
  BY UploadRow DEF UploadRead
<1>3. PICK r \in UploadRows :
        /\ banReq' = [banReq EXCEPT ![s] = r] /\ r.pc \in {"idle", "append"}
        /\ r.file \subseteq banReq[s].file
        /\ r.list.names \subseteq banners.names \cup banReq[s].file
        /\ r.pc = "append" => r.list.size <= MaxBanners
  <2>1. CASE banners.size >= MaxBanners
    BY <1>2, <2>1, NoUploadRow
  <2>2. CASE ~(banners.size >= MaxBanners)
    <3> DEFINE p == [banReq[s] EXCEPT !.pc = "append"]
               r == [p EXCEPT !.list = longer]
    <3>1. longer \in Lists /\ longer.size <= MaxBanners
          /\ longer.names = banners.names \cup banReq[s].file
      BY <2>2, UploadRow DEF UploadRows, Lists
    <3>2. p \in UploadRows /\ p.pc = "append" /\ p.file = banReq[s].file
      BY UploadRow DEF UploadRows
    <3>3. banReq' = [banReq EXCEPT ![s] = r]
      BY <1>2, <2>2
    <3> HIDE DEF p, longer
    <3>4. r \in UploadRows /\ r.pc = "append" /\ r.list = longer /\ r.file = banReq[s].file
      BY <3>1, <3>2 DEF UploadRows
    <3> HIDE DEF r
    <3> QED BY <3>1, <3>3, <3>4
  <2> QED BY <2>1, <2>2
<1>4. banReq'[s] = r
  BY <1>3, UploadRow
<1>5. /\ banReq[s].file \subseteq Known /\ banners.names \subseteq Known
      /\ tangled \/ Sound(banReq[s].file)
  BY <1>1, UploadRow DEF UploadOK
<1>6. r.file \subseteq Known /\ r.list.names \subseteq Known /\ (tangled \/ Sound(r.list.names))
  BY <1>1, <1>3, <1>5 DEF Sound
<1>7. UploadOK(s)'
  BY <1>1, <1>3, <1>4, <1>6 DEF UploadOK, Sound, Kept, Known
<1> QED BY <1>1, <1>3, <1>7, Alone, UploadRow, OneUpload DEF Sound, Kept, Known

LEMMA ListWrittenStep ==
  ASSUME BannersIInv, NEW s \in Uploads, UploadWrite(s) \/ PatchBannersWrite(s) \/ DeleteWrite(s)
  PROVE  BannersIInv'
<1>1. /\ banReq[s].pc \in {"append", "patch", "remove"} /\ banners' = banReq[s].list
      /\ UNCHANGED <<disk, doomed, used, foreign, tangled>>
  BY DEF UploadWrite, PatchBannersWrite, DeleteWrite, BanAt
<1>2. PICK r \in UploadRows : /\ banReq' = [banReq EXCEPT ![s] = r]
                              /\ r.file \subseteq Known /\ r.list.names \subseteq Known
                              /\ r.pc = "idle" \/ (r.pc = "unlink" /\ r.file = banReq[s].file /\ banReq[s].pc = "remove")
  <2>1. CASE UploadWrite(s) \/ PatchBannersWrite(s)
    BY <2>1, NoUploadRow DEF UploadWrite, PatchBannersWrite
  <2>2. CASE DeleteWrite(s)
    <3> DEFINE r == [banReq[s] EXCEPT !.pc = "unlink"]
    <3>1. /\ r \in UploadRows /\ r.pc = "unlink" /\ r.file = banReq[s].file /\ r.list = banReq[s].list
          /\ banReq' = [banReq EXCEPT ![s] = r] /\ banReq[s].pc = "remove"
      BY <2>2, UploadRow DEF DeleteWrite, UploadRows, BanAt
    <3> HIDE DEF r
    <3> QED BY <3>1, UploadRow DEF UploadOK
  <2> QED BY <2>1, <2>2
<1>3. /\ banReq'[s] = r /\ banners' \in Lists /\ banners'.size <= MaxBanners
      /\ banners'.names \subseteq Known /\ (tangled \/ Sound(banReq[s].list.names))
  BY <1>1, <1>2, UploadRow DEF UploadRows, UploadOK
<1>4. tangled' \/ Sound(banners.names)'
  BY <1>1, <1>3 DEF Sound, Kept
<1>5. UploadOK(s)'
  BY <1>1, <1>2, <1>3, UploadRow DEF UploadOK, Known
<1> QED BY <1>1, <1>2, <1>3, <1>4, <1>5, Alone, UploadRow, OneUpload DEF Known

LEMMA UploadEndsStep ==
  ASSUME BannersIInv, NEW s \in Uploads, DeleteUnlink(s) \/ BannerRequestDies(s)
  PROVE  BannersIInv'
<1>1. /\ banReq' = [banReq EXCEPT ![s] = NoUpload] /\ UNCHANGED <<banners, doomed, used, foreign>>
      /\ banReq[s].pc # "idle" /\ (tangled => tangled')
      /\ ~tangled' => banReq[s].pc = "unlink" /\ disk' \in {disk, disk \ banReq[s].file} /\ ~tangled
  BY DEF DeleteUnlink, BannerRequestDies, BanAt
<1>2. PICK r \in UploadRows : /\ banReq' = [banReq EXCEPT ![s] = r] /\ r.pc = "idle"
                              /\ r.file = {} /\ r.list.names = {}
  BY <1>1, NoUploadRow
<1>3. banReq'[s] = r
  BY <1>2, UploadRow
<1>4. UploadOK(s)'
  BY <1>2, <1>3 DEF UploadOK
<1>5. tangled' \/ Sound(banners.names)'
  BY <1>1, Alone, UploadRow DEF UploadOK, Sound, Kept
<1> QED BY <1>1, <1>2, <1>4, <1>5, Alone, UploadRow, OneUpload DEF Known

(* What a patch dropped goes; nothing that stays does.                      *)
LEMMA PatchUnlinkStep ==
  ASSUME BannersIInv, NEW f \in Files, PatchUnlink(f)
  PROVE  BannersIInv'
<1>1. /\ f \in doomed /\ doomed' = doomed \ {f} /\ disk' \in {disk, disk \ {f}}
      /\ UNCHANGED <<banners, banReq, used, foreign, tangled>>
  BY DEF PatchUnlink
<1>2. Kept \subseteq Kept' /\ Known' = Known
  BY <1>1 DEF Kept, Known
<1>3. ASSUME NEW s \in Uploads
      PROVE  UploadOK(s)'
  <2>1. UploadOK(s) /\ banReq'[s] = banReq[s]
    BY <1>1 DEF BannersIInv
  <2> QED BY <1>1, <1>2, <2>1 DEF UploadOK, Sound
<1>4. Sound(banners.names) => Sound(banners.names)'
  BY <1>1, <1>2 DEF Sound
<1>5. /\ banners' \in Lists /\ BannersBounded' /\ banReq' \in [Uploads -> UploadRows]
      /\ banners'.names \subseteq Known' /\ doomed' \subseteq Known'
  BY <1>1, <1>2 DEF BannersIInv, BannersBounded
<1>6. ~tangled' => \A s, x \in Uploads : ~BanAt(s, "idle")' /\ ~BanAt(x, "idle")' => s = x
  BY <1>1 DEF BannersIInv, BanAt
<1>7. tangled' \/ (\E s \in Uploads : BanAt(s, "patch")') \/ Sound(banners.names)'
  BY <1>1, <1>4 DEF BannersIInv, BanAt
<1> QED BY <1>3, <1>5, <1>6, <1>7 DEF BannersIInv

LEMMA BannersInductive == BannersInit /\ [][BannersNext]_bannerVars => []BannersIInv
<1>1. BannersInit => BannersIInv
  BY NoUploadRow, BannersAssumption
     DEF BannersInit, BannersIInv, BannersBounded, NoList, UploadOK, BanAt, Sound, Known
<1>2. BannersIInv /\ [BannersNext]_bannerVars => BannersIInv'
  <2>1. BannersIInv /\ UNCHANGED bannerVars => BannersIInv'
    BY DEF bannerVars, BannersIInv, BannersBounded, UploadOK, BanAt, Sound, Kept, Known
  <2> QED BY <2>1, UploadBannerStep, UploadReadStep, ListWrittenStep, DeleteBannerStep, PatchBannersStep,
             PatchDropsStep, PatchUnlinkStep, UploadEndsStep DEF BannersNext
<1> QED BY <1>1, <1>2, PTL

(* With any number of requests, files and caps: readers of the settings row *)
(* are given validated numbers, edits one after another add up, the list of *)
(* banners never outgrows the app, and every banner that has been on it      *)
(* since its upload has its file.                                           *)
THEOREM SettingsRowServes == PlatformSpec => []SettingsServe
<1>1. SettingsIInv /\ BannersIInv => SettingsServe
  <2>1. BannersIInv => BannersBounded /\ BannersOnDisk
    BY DEF BannersIInv, BannersOnDisk, Sound, Kept
  <2> QED BY <2>1, SettingsSound DEF SettingsServe
<1> QED BY <1>1, SettingsInductive, BannersInductive, PTL DEF PlatformSpec, SettingsSpec, BannersSpec

-----------------------------------------------------------------------------
(* Pricing.                                                                *)

LEMMA WaitingRow ==
  /\ Waiting \in CallRows /\ Waiting.pc = "idle"
  /\ NoQuote \notin Quotes /\ NoOrder.state = "none" /\ NoOrder.ring = Nobody
BY NobodyAssumption DEF Waiting, CallRows, NoQuote, Quotes, NoOrder

LEMMA PricingRows ==
  ASSUME PricingIInv
  PROVE  /\ call \in [Callers -> CallRows] /\ profiles \in Seq(ProfileRows) /\ rings \subseteq RingRows
         /\ zone.centre \in BOOLEAN /\ zone.fee \in Nat
         /\ made.rings \in Nat /\ made.profiles \in Nat /\ made.edits \in Nat
         /\ \A s \in Callers : call[s] \in CallRows /\ PricingCallOK(s)
         /\ \A r \in rings : r \in RingRows /\ r.id \in 0..made.rings /\ r.profile \in Nat
         /\ \A r, q \in rings : r.id = q.id => r = q
BY DEF PricingIInv, PricingTyped, RingRows

(* The steps of one request.  The rest of the invariant is about what all   *)
(* requests read.                                                          *)
LEMMA OneCaller ==
  ASSUME PricingIInv, NEW s \in Callers, NEW c \in CallRows, call' = [call EXCEPT ![s] = c],
         UNCHANGED zone, apart' \subseteq apart,
         profiles' \in Seq(ProfileRows), made' \in [rings : Nat, profiles : Nat, edits : Nat],
         made'.rings >= made.rings, rings' \subseteq RingRows,
         \A r \in rings' : r.id \in 0..made'.rings, \A r, q \in rings' : r.id = q.id => r = q,
         PromiseKept', OneDefaultProfile', RingsRemain', PricingCallOK(s)',
         \A x \in Callers \ {s} : PricingCallOK(x)',
         "profile" \in apart' /\ c.pc = "create" => \A x \in Callers \ {s} : call[x].pc # "create",
         "rings" \in apart' /\ c.pc = "delete" => \A x \in Callers \ {s} : call[x].pc # "delete"
  PROVE  PricingIInv'
<1>1. /\ call' \in [Callers -> CallRows] /\ call'[s] = c
      /\ \A x \in Callers \ {s} : call'[x] = call[x]
  BY PricingRows
<1>2. PricingTyped'
  BY <1>1 DEF PricingIInv, PricingTyped
<1>3. OneAtATime("create", "profile")'
  BY <1>1 DEF PricingIInv, OneAtATime
<1>4. OneAtATime("delete", "rings")'
  BY <1>1 DEF PricingIInv, OneAtATime
<1> QED BY <1>1, <1>2, <1>3, <1>4 DEF PricingIInv

(* A request that changes neither rings nor profiles.                      *)
LEMMA CallerMoves ==
  ASSUME PricingIInv, NEW s \in Callers, NEW c \in CallRows, call' = [call EXCEPT ![s] = c],
         UNCHANGED <<zone, profiles, rings, made>>, apart' \subseteq apart,
         PromiseKept', PricingCallOK(s)',
         "profile" \in apart' /\ c.pc = "create" => \A x \in Callers \ {s} : call[x].pc # "create",
         "rings" \in apart' /\ c.pc = "delete" => \A x \in Callers \ {s} : call[x].pc # "delete"
  PROVE  PricingIInv'
<1>1. /\ call' \in [Callers -> CallRows] /\ call'[s] = c
      /\ \A x \in Callers \ {s} : call'[x] = call[x]
  BY PricingRows
<1>2. ASSUME NEW x \in Callers \ {s}
      PROVE  PricingCallOK(x)'
  <2>1. Covers(call[x]) => Covers(call[x])'
    <3>1. call'[x] = call[x] /\ zone' = zone
      BY <1>1
    <3> QED BY <3>1 DEF Covers
  <2> QED BY <1>1, <2>1, PricingRows DEF PricingCallOK, RingsOf, Covers
<1>3. OneDefaultProfile' /\ RingsRemain'
  BY DEF PricingIInv, OneDefaultProfile, RingsRemain, RingsOf
<1>4. /\ profiles' \in Seq(ProfileRows) /\ made' \in [rings : Nat, profiles : Nat, edits : Nat]
      /\ made'.rings >= made.rings /\ rings' \subseteq RingRows
      /\ \A r \in rings' : r.id \in 0..made'.rings
      /\ \A r, q \in rings' : r.id = q.id => r = q
  BY PricingRows DEF PricingIInv, PricingTyped
<1> QED BY <1>2, <1>3, <1>4, OneCaller

(* What a request may do once it has its profile.                          *)
LEMMA GoesOn ==
  ASSUME PricingIInv, NEW c \in CallRows, NEW p \in ProfileRows, NEW S \in SUBSET RingRows,
         c.goal \in Goals, NEW d \in Goes(c, p, S)
  PROVE  /\ d \in CallRows /\ d.pc \in {"idle", "patch", "ring", "order"}
         /\ d.pc \in {"patch", "ring"} => d.profile \in Nat
         /\ d.pc = "order" => d.quote \in Quotes /\ Covers(d)
<1>1. CASE c.goal = "read"
  BY <1>1, WaitingRow DEF Goes
<1>2. CASE c.goal \in {"patch", "ring"}
  <2>1. PICK label \in {"patch", "ring"} : d = [c EXCEPT !.pc = label, !.profile = p.id]
    BY <1>2 DEF Goes
  <2> QED BY <2>1 DEF CallRows, ProfileRows
<1>3. CASE c.goal = "order" /\ S = {}
  BY <1>3, WaitingRow DEF Goes
<1>4. CASE c.goal = "order" /\ S # {}
  <2>1. PICK r \in Chosen(S, c) :
          d = [c EXCEPT !.pc = "order", !.profile = p.id, !.ring = r.id, !.quote = Quoted(p, r), !.seen = S]
    BY <1>4 DEF Goes
  <2>2. r \in S /\ r \in RingRows
    BY DEF Chosen, FirstOf, LastOf
  <2>3. Quoted(p, r) \in Quotes
    <3>1. r.fee \in Nat /\ r.rate \in Nat \cup {Nobody} /\ p.city \in Nat /\ p.outside \in Nat /\ p.wait \in Nat
      BY <2>2 DEF RingRows, ProfileRows
    <3> QED BY <3>1 DEF Quoted, Quotes
  <2>4. /\ d \in CallRows /\ d.pc = "order" /\ d.quote = Quoted(p, r) /\ d.seen = S /\ d.ring = r.id
        /\ d.km = c.km
    <3>1. r.id \in Nat /\ p.id \in Nat
      BY <2>2 DEF RingRows, ProfileRows
    <3> HIDE DEF Quoted
    <3> QED BY <2>1, <2>3, <3>1 DEF CallRows
  <2>5. ASSUME zone.centre, c.km # Nobody, NEW q \in S, c.km \in q.from..(q.to - 1)
        PROVE  r \in {x \in S : c.km \in x.from..(x.to - 1)}
    <3>1. c.km \in Nat /\ q.from \in Nat /\ q.to \in Nat
      BY <2>5 DEF CallRows, RingRows
    <3>2. q \in {x \in S : Band(x, c.km)}
      BY <2>5, <3>1 DEF Band
    <3>3. r \in FirstOf({x \in S : Band(x, c.km)})
      BY <2>5, <3>2 DEF Chosen
    <3>4. Band(r, c.km) /\ r.from \in Nat /\ r.to \in Nat
      BY <2>2, <3>3 DEF FirstOf, RingRows
    <3> QED BY <2>2, <3>1, <3>4 DEF Band
  <2>6. Covers(d)
    BY <2>4, <2>5 DEF Covers
  <2> QED BY <2>3, <2>4, <2>6
<1> QED BY <1>1, <1>2, <1>3, <1>4 DEF Goals

LEMMA FindProfileStep ==
  ASSUME PricingIInv, NEW s \in Callers, FindProfile(s)
  PROVE  PricingIInv'
<1>1. PICK goal \in Goals, km \in {Nobody} \cup 0..MaxKm, named \in {Nobody} \cup {r.id : r \in rings} :
        LET c == [Waiting EXCEPT !.goal = goal, !.km = km, !.named = named]
        IN  /\ IF goal = "order"
               THEN /\ order = NoOrder /\ \A x \in Callers : call[x].goal # "order"
                    /\ Nobody \in {km, named}
               ELSE km = Nobody /\ named = Nobody
            /\ IF Found = {} THEN call' = [call EXCEPT ![s] = [c EXCEPT !.pc = "create"]]
               ELSE LET p == profiles[CHOOSE i \in Found : \A j \in Found : i <= j]
                    IN  \E d \in Goes(c, p, RingsOf(p.id)) : call' = [call EXCEPT ![s] = d]
  BY DEF FindProfile
<1>2. /\ call[s].pc = "idle" /\ UNCHANGED <<zone, profiles, rings, order, trip, bill, promise, made>>
      /\ apart' = apart \ (IF Found = {} /\ \E x \in Callers : call[x].pc = "create"
                           THEN {"profile"} ELSE {})
  BY DEF FindProfile
<1>3. PICK c \in CallRows : c = [Waiting EXCEPT !.goal = goal, !.km = km, !.named = named] /\ c.goal = goal
  <2>1. named \in Nat \cup {Nobody}
    BY PricingRows DEF RingRows
  <2>2. [Waiting EXCEPT !.goal = goal] \in CallRows
    BY WaitingRow DEF CallRows
  <2>3. [Waiting EXCEPT !.goal = goal, !.km = km] \in CallRows
    BY WaitingRow DEF CallRows
  <2>4. [Waiting EXCEPT !.goal = goal, !.km = km, !.named = named] \in CallRows
    BY <2>1, WaitingRow DEF CallRows
  <2>5. [Waiting EXCEPT !.goal = goal, !.km = km, !.named = named].goal = goal
    BY WaitingRow DEF CallRows
  <2> QED BY <2>4, <2>5
<1>4. PromiseKept' /\ apart' \subseteq apart
  BY <1>2 DEF PricingIInv, PromiseKept
<1>5. CASE Found = {}
  <2>1. PICK d \in CallRows : call' = [call EXCEPT ![s] = d] /\ d.pc = "create" /\ d.goal = goal
    <3>1. call' = [call EXCEPT ![s] = [c EXCEPT !.pc = "create"]]
      BY <1>1, <1>3, <1>5
    <3>2. /\ [c EXCEPT !.pc = "create"] \in CallRows /\ [c EXCEPT !.pc = "create"].pc = "create"
          /\ [c EXCEPT !.pc = "create"].goal = goal
      BY <1>3 DEF CallRows
    <3> QED BY <3>1, <3>2
  <2>2. call'[s] = d /\ profiles = <<>>
    <3>1. profiles \in Seq(ProfileRows) /\ call \in [Callers -> CallRows]
      BY PricingRows
    <3>2. Len(profiles) = 0
      <4>1. Len(profiles) \in Nat
        BY <3>1, LenProperties
      <4>2. 1 \notin 1..Len(profiles)
        BY <1>5 DEF Found
      <4> QED BY <4>1, <4>2
    <3> QED BY <2>1, <3>1, <3>2, EmptySeq
  <2>3. PricingCallOK(s)'
    BY <1>2, <2>1, <2>2 DEF PricingCallOK
  <2>4. "profile" \in apart' => \A x \in Callers \ {s} : call[x].pc # "create"
    BY <1>2, <1>5
  <2> QED BY <1>2, <1>4, <2>1, <2>3, <2>4, CallerMoves
<1>6. CASE Found # {}
  <2>1. PICK p \in ProfileRows : \E d \in Goes(c, p, RingsOf(p.id)) : call' = [call EXCEPT ![s] = d]
    <3>1. 1 \in Found /\ Found \subseteq Nat /\ \A j \in Found : 1 <= j
      BY <1>6, PricingRows DEF Found
    <3>2. (CHOOSE i \in Found : \A j \in Found : i <= j) \in Found
      BY <3>1
    <3>3. \A i \in Found : profiles[i] \in ProfileRows
      BY PricingRows DEF Found
    <3> QED BY <1>1, <1>3, <1>6, <3>2, <3>3
  <2>2. PICK d \in Goes(c, p, RingsOf(p.id)) : call' = [call EXCEPT ![s] = d]
    BY <2>1
  <2>3. RingsOf(p.id) \in SUBSET RingRows
    BY PricingRows DEF RingsOf
  <2>4. /\ d \in CallRows /\ d.pc \in {"idle", "patch", "ring", "order"}
        /\ d.pc \in {"patch", "ring"} => d.profile \in Nat
        /\ d.pc = "order" => d.quote \in Quotes /\ Covers(d)
    BY <1>3, <2>3, GoesOn
  <2>5. call'[s] = d
    BY <2>2, PricingRows
  <2>6. PricingCallOK(s)'
    BY <1>2, <2>4, <2>5 DEF PricingCallOK, Covers
  <2> QED BY <1>2, <1>4, <2>2, <2>4, <2>6, CallerMoves
<1> QED BY <1>5, <1>6

LEMMA CallDiesStep ==
  ASSUME PricingIInv, NEW s \in Callers, CallDies(s)
  PROVE  PricingIInv'
<1>1. /\ call' = [call EXCEPT ![s] = Waiting]
      /\ UNCHANGED <<zone, profiles, rings, order, trip, bill, promise, made, apart>>
  BY DEF CallDies
<1>2. PICK c \in CallRows : call' = [call EXCEPT ![s] = c] /\ c.pc = "idle"
  BY <1>1, WaitingRow
<1>3. PricingCallOK(s)'
  BY <1>2, PricingRows DEF PricingCallOK
<1>4. PromiseKept'
  BY <1>1 DEF PricingIInv, PromiseKept
<1> QED BY <1>1, <1>2, <1>3, <1>4, CallerMoves

LEMMA CreateOrderStep ==
  ASSUME PricingIInv, NEW s \in Callers, CreateOrder(s)
  PROVE  PricingIInv'
<1>1. /\ call' = [call EXCEPT ![s] = Waiting] /\ call[s].pc = "order" /\ order = NoOrder
      /\ UNCHANGED <<zone, profiles, rings, trip, bill, made, apart>>
  BY DEF CreateOrder
<1>2. PICK c \in CallRows : call' = [call EXCEPT ![s] = c] /\ c.pc = "idle"
  BY <1>1, WaitingRow
<1>3. PricingCallOK(s)'
  BY <1>2, PricingRows DEF PricingCallOK
<1>4. call[s].quote \in Quotes /\ call[s].ring \in Nat \cup {Nobody} /\ bill = NoQuote
  BY <1>1, PricingRows, WaitingRow DEF PricingCallOK, CallRows, PricingIInv, PromiseKept
<1>5. PromiseKept'
  BY <1>1, <1>4 DEF CreateOrder, PricingIInv, PromiseKept
<1> QED BY <1>1, <1>2, <1>3, <1>5, CallerMoves

LEMMA DeleteRingStep ==
  ASSUME PricingIInv, NEW s \in Callers, DeleteRing(s)
  PROVE  PricingIInv'
<1>1. PICK r \in rings : /\ Spare(r)
                         /\ call' = [call EXCEPT ![s] = [Waiting EXCEPT !.pc = "delete", !.ring = r.id]]
  BY DEF DeleteRing
<1>2. /\ apart' = apart \ (IF \E x \in Callers : call[x].pc = "delete" THEN {"rings"} ELSE {})
      /\ UNCHANGED <<zone, profiles, rings, order, trip, bill, promise, made>>
  BY DEF DeleteRing
<1>3. r.id \in Nat /\ r.id \in 0..made.rings
  BY PricingRows DEF RingRows
<1>4. PICK c \in CallRows : call' = [call EXCEPT ![s] = c] /\ c.pc = "delete" /\ c.ring = r.id
  <2> DEFINE d == [Waiting EXCEPT !.pc = "delete", !.ring = r.id]
  <2>1. d \in CallRows /\ d.pc = "delete" /\ d.ring = r.id
    BY <1>3, WaitingRow DEF CallRows
  <2>2. call' = [call EXCEPT ![s] = d]
    BY <1>1
  <2> QED BY <2>1, <2>2
<1>5. PICK other \in RingsOf(r.profile) : other # r
  <2>1. r \in RingsOf(r.profile)
    BY DEF RingsOf
  <2>2. RingsOf(r.profile) # {r}
    <3>1. Cardinality({r}) = 1
      BY FS_Singleton
    <3> QED BY <1>1, <3>1 DEF Spare
  <2> QED BY <2>1, <2>2
<1>6. ASSUME "rings" \in apart, NEW i \in DOMAIN profiles
      PROVE  \E q \in RingsOf(profiles[i].id) : q.id # r.id
  <2>1. CASE profiles[i].id = r.profile
    BY <1>5, <2>1, PricingRows DEF RingsOf
  <2>2. CASE profiles[i].id # r.profile
    <3>1. PICK q \in RingsOf(profiles[i].id) : TRUE
      BY <1>6 DEF PricingIInv, RingsRemain
    <3>2. q.id # r.id
      BY <2>2, <3>1, PricingRows DEF RingsOf
    <3> QED BY <3>2
  <2> QED BY <2>1, <2>2
<1>7. call'[s] = c
  BY <1>4, PricingRows
<1>8. PricingCallOK(s)'
  BY <1>2, <1>3, <1>4, <1>6, <1>7 DEF PricingCallOK, RingsOf
<1>9. PromiseKept' /\ apart' \subseteq apart
  BY <1>2 DEF PricingIInv, PromiseKept
<1>10. "rings" \in apart' => \A x \in Callers \ {s} : call[x].pc # "delete"
  BY <1>2
<1> QED BY <1>2, <1>4, <1>8, <1>9, <1>10, CallerMoves

(* An edit leaves every ring a successor in the same profile.              *)
LEMMA KeepsRings ==
  ASSUME PricingIInv, UNCHANGED apart, zone'.centre = zone.centre,
         made'.rings \in Nat, made'.rings >= made.rings,
         \A i \in DOMAIN profiles' : \E j \in DOMAIN profiles : profiles'[i].id = profiles[j].id,
         \A q \in rings : \E t \in rings' : t.id = q.id /\ t.profile = q.profile,
         profiles = <<>> => profiles' = <<>>
  PROVE  RingsRemain' /\ \A x \in Callers : call'[x] = call[x] => PricingCallOK(x)'
<1>1. ASSUME NEW i \in DOMAIN profiles', NEW n, \E q \in rings : q.profile = profiles'[i].id /\ q.id # n
      PROVE  \E t \in RingsOf(profiles[i].id)' : t.id # n
  BY <1>1 DEF RingsOf
<1>2. ASSUME "rings" \in apart, NEW i \in DOMAIN profiles'
      PROVE  RingsOf(profiles[i].id)' # {}
  <2>1. PICK j \in DOMAIN profiles : profiles'[i].id = profiles[j].id
    OBVIOUS
  <2>2. PICK q \in rings : q.profile = profiles[j].id
    BY <1>2 DEF PricingIInv, RingsRemain, RingsOf
  <2> QED BY <2>1, <2>2 DEF RingsOf
<1>3. ASSUME NEW x \in Callers, call'[x] = call[x]
      PROVE  PricingCallOK(x)'
  <2>1. PricingCallOK(x)
    BY PricingRows
  <2>2. Covers(call[x]) => Covers(call[x])'
    BY <1>3 DEF Covers
  <2>3. call[x].pc = "order" => call[x].quote \in Quotes /\ Covers(call[x])'
    BY <2>1, <2>2 DEF PricingCallOK
  <2>4. call[x].pc = "create" /\ "profile" \in apart => profiles' = <<>>
    BY <2>1 DEF PricingCallOK
  <2>5. ASSUME call[x].pc = "delete"
        PROVE  call[x].ring \in 0..made'.rings
    BY <2>1, <2>5, PricingRows DEF PricingCallOK
  <2>6. ASSUME call[x].pc = "delete", "rings" \in apart, NEW i \in DOMAIN profiles'
        PROVE  \E t \in RingsOf(profiles[i].id)' : t.id # call[x].ring
    <3>1. PICK j \in DOMAIN profiles : profiles'[i].id = profiles[j].id
      OBVIOUS
    <3>2. PICK q \in RingsOf(profiles[j].id) : q.id # call[x].ring
      BY <2>1, <2>6 DEF PricingCallOK
    <3>3. q \in rings /\ q.profile = profiles[j].id
      BY DEF RingsOf
    <3>4. \E t \in rings : t.profile = profiles'[i].id /\ t.id # call[x].ring
      BY <3>1, <3>2, <3>3
    <3> QED BY <1>1, <3>4
  <2>7. /\ call[x].pc \in {"patch", "ring"} => call[x].profile \in Nat
        /\ call[x].pc = "create" => call[x].goal \in Goals
    BY <2>1 DEF PricingCallOK
  <2> QED BY <1>3, <2>3, <2>4, <2>5, <2>6, <2>7 DEF PricingCallOK
<1> QED BY <1>2, <1>3 DEF RingsRemain

(* An administrator's edit that is not a request of its own.               *)
LEMMA SharedMoves ==
  ASSUME PricingIInv, UNCHANGED <<apart, call, profiles, order, trip, bill, promise>>, PricingTyped',
         made'.rings >= made.rings, zone'.centre = zone.centre,
         \A q \in rings : \E t \in rings' : t.id = q.id /\ t.profile = q.profile
  PROVE  PricingIInv'
<1>1. made'.rings \in Nat
  BY DEF PricingTyped
<1>2. RingsRemain' /\ \A x \in Callers : PricingCallOK(x)'
  BY <1>1, KeepsRings
<1>3. PromiseKept' /\ OneDefaultProfile' /\ OneAtATime("create", "profile")' /\ OneAtATime("delete", "rings")'
  BY DEF PricingIInv, PromiseKept, OneDefaultProfile, OneAtATime
<1> QED BY <1>2, <1>3 DEF PricingIInv

LEMMA UpdateZoneMeterStep ==
  ASSUME PricingIInv, UpdateZoneMeter
  PROVE  PricingIInv'
<1>1. PICK fee \in Fees : zone' = [zone EXCEPT !.fee = fee]
  BY DEF UpdateZoneMeter
<1>2. /\ UNCHANGED <<profiles, rings, call, order, trip, bill, promise, apart>>
      /\ made' = [made EXCEPT !.edits = @ + 1]
  BY DEF UpdateZoneMeter, Edited
<1>3. zone' \in [fee : Nat, centre : BOOLEAN] /\ zone'.centre = zone.centre
  BY <1>1, PricingAssumption DEF PricingIInv, PricingTyped, Fees
<1>4. made' \in [rings : Nat, profiles : Nat, edits : Nat] /\ made'.rings = made.rings
  BY <1>2 DEF PricingIInv, PricingTyped
<1>5. PricingTyped'
  BY <1>2, <1>3, <1>4 DEF PricingIInv, PricingTyped
<1>6. made'.rings >= made.rings
  BY <1>4, PricingRows
<1>7. \A q \in rings : \E t \in rings' : t.id = q.id /\ t.profile = q.profile
  BY <1>2
<1> QED BY <1>2, <1>3, <1>5, <1>6, <1>7, SharedMoves

LEMMA PatchRingStep ==
  ASSUME PricingIInv, PatchRing
  PROVE  PricingIInv'
<1>1. PICK r \in rings, f \in {"from", "to", "fee", "rate", "sort"}, v \in {Nobody} \cup 0..Unbounded :
        /\ f = "to" => v \in 1..Unbounded
        /\ f = "from" => v \in 0..MaxKm
        /\ f = "fee" => v \in Fees
        /\ f = "rate" => v \in Fees \cup {Nobody}
        /\ f = "sort" => v \in {0, 1}
        /\ rings' = (rings \ {r}) \cup {[r EXCEPT ![f] = v]}
  BY DEF PatchRing
<1>2. /\ UNCHANGED <<zone, profiles, call, order, trip, bill, promise, apart>>
      /\ made' = [made EXCEPT !.edits = @ + 1]
  BY DEF PatchRing, Edited
<1>3. made' \in [rings : Nat, profiles : Nat, edits : Nat] /\ made'.rings = made.rings
  BY <1>2 DEF PricingIInv, PricingTyped
<1>4. PICK t : t = [r EXCEPT ![f] = v]
  OBVIOUS
<1>5. t \in RingRows /\ t.id = r.id /\ t.profile = r.profile
  <2>1. f \in {"from", "to", "fee", "sort"} => v \in Nat
    BY <1>1, PricingAssumption DEF Fees, Unbounded
  <2>2. f = "rate" => v \in Nat \cup {Nobody}
    BY <1>1, PricingAssumption DEF Fees
  <2>3. r \in RingRows
    BY PricingRows
  <2>4. CASE f = "from"
    BY <1>4, <2>1, <2>3, <2>4 DEF RingRows
  <2>5. CASE f = "to"
    BY <1>4, <2>1, <2>3, <2>5 DEF RingRows
  <2>6. CASE f = "fee"
    BY <1>4, <2>1, <2>3, <2>6 DEF RingRows
  <2>7. CASE f = "rate"
    BY <1>4, <2>2, <2>3, <2>7 DEF RingRows
  <2>8. CASE f = "sort"
    BY <1>4, <2>1, <2>3, <2>8 DEF RingRows
  <2> QED BY <2>4, <2>5, <2>6, <2>7, <2>8
<1>6. rings' = (rings \ {r}) \cup {t}
  BY <1>1, <1>4
<1>7. /\ rings' \subseteq RingRows /\ \A q \in rings' : q.id \in 0..made'.rings
      /\ \A q, x \in rings' : q.id = x.id => q = x
  BY <1>3, <1>5, <1>6, PricingRows
<1>8. PricingTyped'
  BY <1>2, <1>3, <1>7 DEF PricingIInv, PricingTyped
<1>9. \A q \in rings : \E x \in rings' : x.id = q.id /\ x.profile = q.profile
  BY <1>5, <1>6
<1>10. made'.rings >= made.rings /\ zone'.centre = zone.centre
  BY <1>2, <1>3, PricingRows
<1> QED BY <1>2, <1>8, <1>9, <1>10, SharedMoves

LEMMA CreateRingStep ==
  ASSUME PricingIInv, NEW s \in Callers, CreateRing(s)
  PROVE  PricingIInv'
<1>1. PICK from \in 0..MaxKm, to \in 1..Unbounded, fee \in Fees, sort \in {0, 9} :
        rings' = IF \E r \in RingsOf(call[s].profile) : r.code = "extra" THEN rings
                 ELSE rings \cup {[id |-> made.rings + 1, profile |-> call[s].profile,
                                   code |-> "extra", from |-> from, to |-> to, fee |-> fee,
                                   rate |-> Nobody, sort |-> sort]}
  BY DEF CreateRing
<1>2. /\ UNCHANGED <<zone, profiles, order, trip, bill, promise, apart>> /\ call[s].pc = "ring"
      /\ made' = [made EXCEPT !.edits = @ + 1, !.rings = @ + 1] /\ call' = [call EXCEPT ![s] = Waiting]
  BY DEF CreateRing
<1>3. /\ made' \in [rings : Nat, profiles : Nat, edits : Nat] /\ made'.rings = made.rings + 1
      /\ made'.rings >= made.rings
  <2>1. made \in [rings : Nat, profiles : Nat, edits : Nat]
    BY DEF PricingIInv, PricingTyped
  <2>2. made' = [rings |-> made.rings + 1, profiles |-> made.profiles, edits |-> made.edits + 1]
    BY <1>2, <2>1
  <2> QED BY <2>1, <2>2
<1>4. PICK c \in CallRows : call' = [call EXCEPT ![s] = c] /\ c.pc = "idle"
  BY <1>2, WaitingRow
<1>5. call[s].profile \in Nat
  BY <1>2, PricingRows DEF PricingCallOK
<1>6. PICK t \in RingRows : /\ t.id = made.rings + 1
                            /\ rings' = rings \/ rings' = rings \cup {t}
  <2> DEFINE t == [id |-> made.rings + 1, profile |-> call[s].profile, code |-> "extra",
                   from |-> from, to |-> to, fee |-> fee, rate |-> Nobody, sort |-> sort]
  <2>1. t \in RingRows /\ t.id = made.rings + 1
    <3>1. from \in Nat /\ to \in Nat /\ fee \in Nat /\ sort \in Nat
      BY PricingAssumption DEF Fees, Unbounded
    <3>2. made.rings + 1 \in Nat
      BY PricingRows
    <3> QED BY <1>5, <3>1, <3>2 DEF RingRows, Codes
  <2>2. rings' = rings \/ rings' = rings \cup {t}
    BY <1>1
  <2> QED BY <2>1, <2>2
<1>7. /\ rings' \subseteq RingRows /\ \A q \in rings' : q.id \in 0..made'.rings
      /\ \A q, x \in rings' : q.id = x.id => q = x
      /\ \A q \in rings : \E x \in rings' : x.id = q.id /\ x.profile = q.profile
  BY <1>3, <1>6, PricingRows
<1>8. RingsRemain' /\ \A x \in Callers : call'[x] = call[x] => PricingCallOK(x)'
  BY <1>2, <1>3, <1>7, KeepsRings
<1>9. \A x \in Callers \ {s} : PricingCallOK(x)'
  BY <1>2, <1>8, PricingRows
<1>10. PricingCallOK(s)'
  BY <1>4, PricingRows DEF PricingCallOK
<1>11. PromiseKept' /\ OneDefaultProfile'
  BY <1>2 DEF PricingIInv, PromiseKept, OneDefaultProfile
<1>12. profiles' \in Seq(ProfileRows) /\ UNCHANGED zone /\ apart' \subseteq apart
  BY <1>2, PricingRows
<1> QED BY <1>3, <1>4, <1>7, <1>8, <1>9, <1>10, <1>11, <1>12, OneCaller

LEMMA PatchProfileStep ==
  ASSUME PricingIInv, NEW s \in Callers, PatchProfile(s)
  PROVE  PricingIInv'
<1>1. PICK i \in DOMAIN profiles, f \in {"wait", "city", "outside"}, v \in Fees :
        profiles' = <<[profiles[i] EXCEPT ![f] = v]>> \o SubSeq(profiles, 1, i - 1)
                      \o SubSeq(profiles, i + 1, Len(profiles))
  BY DEF PatchProfile
<1>2. /\ UNCHANGED <<zone, rings, order, trip, bill, promise, apart>>
      /\ made' = [made EXCEPT !.edits = @ + 1] /\ call' = [call EXCEPT ![s] = Waiting]
  BY DEF PatchProfile, Edited
<1>3. /\ made' \in [rings : Nat, profiles : Nat, edits : Nat] /\ made'.rings = made.rings
      /\ made'.rings \in Nat /\ made'.rings >= made.rings
  BY <1>2 DEF PricingIInv, PricingTyped
<1>4. PICK c \in CallRows : call' = [call EXCEPT ![s] = c] /\ c.pc = "idle"
  BY <1>2, WaitingRow
<1> DEFINE Placed == {q \in ProfileRows : \E j \in DOMAIN profiles : q.id = profiles[j].id}
<1>5. profiles' \in Seq(Placed) /\ Len(profiles') = Len(profiles)
  <2>1. /\ profiles \in Seq(ProfileRows) /\ Len(profiles) \in Nat /\ DOMAIN profiles = 1..Len(profiles)
        /\ \A j \in 1..Len(profiles) : profiles[j] \in Placed
    <3>1. profiles \in Seq(ProfileRows)
      BY PricingRows
    <3>2. Len(profiles) \in Nat /\ DOMAIN profiles = 1..Len(profiles)
      BY <3>1, LenProperties
    <3> QED BY <3>1, <3>2, ElementOfSeq
  <2>2. PICK row \in Placed : row = [profiles[i] EXCEPT ![f] = v]
    <3>1. profiles[i] \in ProfileRows /\ v \in Nat
      BY <2>1, PricingAssumption DEF Fees
    <3>2. [profiles[i] EXCEPT ![f] = v] \in ProfileRows
      BY <3>1 DEF ProfileRows
    <3>3. [profiles[i] EXCEPT ![f] = v].id = profiles[i].id
      BY <3>1 DEF ProfileRows
    <3> QED BY <3>2, <3>3
  <2> HIDE DEF Placed
  <2>3. <<row>> \in Seq(Placed) /\ Len(<<row>>) = 1
    OBVIOUS
  <2>4. PICK low : low = SubSeq(profiles, 1, i - 1)
    OBVIOUS
  <2>5. PICK high : high = SubSeq(profiles, i + 1, Len(profiles))
    OBVIOUS
  <2>6. i \in Nat /\ i >= 1 /\ i <= Len(profiles)
    BY <2>1
  <2>7. low \in Seq(Placed) /\ Len(low) = i - 1
    <3>1. 1 \in Int /\ i - 1 \in Int /\ \A j \in 1..(i - 1) : profiles[j] \in Placed
      BY <2>1, <2>6
    <3>2. /\ SubSeq(profiles, 1, i - 1) \in Seq(Placed)
          /\ Len(SubSeq(profiles, 1, i - 1)) = IF 1 <= i - 1 THEN (i - 1) - 1 + 1 ELSE 0
      BY <3>1, SubSeqProperties
    <3> QED BY <2>4, <2>6, <3>2
  <2>8. high \in Seq(Placed) /\ Len(high) = Len(profiles) - i
    <3>1. i + 1 \in Int /\ Len(profiles) \in Int /\ \A j \in (i + 1)..Len(profiles) : profiles[j] \in Placed
      BY <2>1, <2>6
    <3>2. /\ SubSeq(profiles, i + 1, Len(profiles)) \in Seq(Placed)
          /\ Len(SubSeq(profiles, i + 1, Len(profiles)))
               = IF i + 1 <= Len(profiles) THEN Len(profiles) - (i + 1) + 1 ELSE 0
      BY <3>1, SubSeqProperties
    <3> QED BY <2>1, <2>5, <2>6, <3>2
  <2>9. <<row>> \o low \in Seq(Placed) /\ Len(<<row>> \o low) = 1 + (i - 1)
    BY <2>3, <2>7, ConcatProperties
  <2>10. PICK both : both = <<row>> \o low
    OBVIOUS
  <2>11. both \o high \in Seq(Placed) /\ Len(both \o high) = (1 + (i - 1)) + (Len(profiles) - i)
    <3>1. both \in Seq(Placed) /\ Len(both) = 1 + (i - 1)
      BY <2>9, <2>10
    <3>2. both \o high \in Seq(Placed) /\ Len(both \o high) = Len(both) + Len(high)
      BY <2>8, <3>1, ConcatProperties
    <3> QED BY <2>8, <3>1, <3>2
  <2>12. profiles' = both \o high
    BY <1>1, <2>2, <2>4, <2>5, <2>10
  <2>13. (1 + (i - 1)) + (Len(profiles) - i) = Len(profiles)
    BY <2>1, <2>6
  <2> QED BY <2>11, <2>12, <2>13
<1>6. /\ profiles' \in Seq(ProfileRows)
      /\ \A k \in DOMAIN profiles' : \E j \in DOMAIN profiles : profiles'[k].id = profiles[j].id
  <2>1. \A k \in DOMAIN profiles' : profiles'[k] \in Placed
    BY <1>5, LenProperties, ElementOfSeq
  <2>2. profiles' \in Seq(ProfileRows)
    BY <1>5
  <2> QED BY <2>1, <2>2
<1>7. profiles = <<>> => profiles' = <<>>
  BY PricingRows
<1>8. RingsRemain' /\ \A x \in Callers : call'[x] = call[x] => PricingCallOK(x)'
  BY <1>2, <1>3, <1>6, <1>7, KeepsRings
<1>9. \A x \in Callers \ {s} : PricingCallOK(x)'
  BY <1>2, <1>8, PricingRows
<1>10. PricingCallOK(s)'
  BY <1>4, PricingRows DEF PricingCallOK
<1>11. PromiseKept' /\ OneDefaultProfile'
  BY <1>2, <1>5 DEF PricingIInv, PromiseKept, OneDefaultProfile
<1>12. /\ UNCHANGED zone /\ apart' \subseteq apart /\ rings' \subseteq RingRows
       /\ \A r \in rings' : r.id \in 0..made'.rings
       /\ \A r, q \in rings' : r.id = q.id => r = q
  BY <1>2, <1>3, PricingRows
<1> QED BY <1>3, <1>4, <1>6, <1>8, <1>9, <1>10, <1>11, <1>12, OneCaller

LEMMA CreateProfileStep ==
  ASSUME PricingIInv, NEW s \in Callers, CreateProfile(s)
  PROVE  PricingIInv'
<1> DEFINE row == [id |-> made.profiles + 1, wait |-> 0, city |-> 0, outside |-> MaxFee]
           New(i) == [Starting[i] EXCEPT !.id = made.rings + i, !.profile = row.id,
                                         !.fee = IF i = 1 THEN zone.fee ELSE @]
           rows == {New(i) : i \in DOMAIN Starting}
<1>1. /\ call[s].pc = "create" /\ UNCHANGED <<zone, order, trip, bill, promise, apart>>
      /\ profiles' = <<row>> \o profiles /\ rings' = rings \cup rows
      /\ \E d \in Goes(call[s], row, rows) : call' = [call EXCEPT ![s] = d]
      /\ made' = [made EXCEPT !.profiles = @ + 1, !.rings = @ + Len(Starting)]
  BY DEF CreateProfile
<1>2. PICK p \in ProfileRows : p = row /\ p.id \in Nat
  <2>1. made.profiles + 1 \in Nat /\ MaxFee \in Nat /\ 0 \in Nat
    BY PricingRows, PricingAssumption
  <2>2. row \in ProfileRows /\ row.id \in Nat
    BY <2>1 DEF ProfileRows
  <2> HIDE DEF row
  <2> QED BY <2>2
<1>3. /\ Starting \in Seq(RingRows) /\ Len(Starting) \in Nat \ {0} /\ DOMAIN Starting = 1..Len(Starting)
      /\ \A i \in 1..Len(Starting) : Starting[i] \in RingRows
  BY StartingAssumption, EmptySeq, LenProperties, ElementOfSeq
<1>4. ASSUME NEW i \in DOMAIN Starting
      PROVE  New(i) \in RingRows /\ New(i).id = made.rings + i /\ New(i).profile = p.id
  <2>1. PICK start \in RingRows : start = Starting[i]
    BY <1>3
  <2>2. made.rings + i \in Nat /\ zone.fee \in Nat /\ start.fee \in Nat
    <3>1. i \in Nat /\ made.rings \in Nat /\ zone.fee \in Nat
      BY <1>3, PricingRows
    <3>2. start.fee \in Nat
      BY DEF RingRows
    <3> QED BY <3>1, <3>2
  <2>3. PICK fee \in Nat : fee = IF i = 1 THEN zone.fee ELSE start.fee
    BY <2>2
  <2>4. New(i)
          = [id |-> made.rings + i, profile |-> p.id, code |-> start.code, from |-> start.from,
             to |-> start.to, fee |-> fee, rate |-> start.rate, sort |-> start.sort]
    <3>1. PICK id \in Nat : id = made.rings + i
      BY <2>2
    <3>2. PICK new : new = [start EXCEPT !.id = id, !.profile = p.id, !.fee = fee]
      OBVIOUS
    <3>3. new = [id |-> id, profile |-> p.id, code |-> start.code, from |-> start.from,
                 to |-> start.to, fee |-> fee, rate |-> start.rate, sort |-> start.sort]
      BY <3>2 DEF RingRows
    <3>4. New(i) = new
      <4>1. CASE i = 1
        BY <1>2, <2>1, <2>3, <3>1, <3>2, <4>1
      <4>2. CASE i # 1
        BY <1>2, <2>1, <2>3, <3>1, <3>2, <4>2
      <4> QED BY <4>1, <4>2
    <3> QED BY <3>1, <3>3, <3>4
  <2>5. [id |-> made.rings + i, profile |-> p.id, code |-> start.code, from |-> start.from,
         to |-> start.to, fee |-> fee, rate |-> start.rate, sort |-> start.sort] \in RingRows
    BY <1>2, <2>2 DEF RingRows
  <2> HIDE DEF New
  <2> QED BY <2>2, <2>4, <2>5
<1>5. PICK S : S = rows
  OBVIOUS
<1>6. /\ S \subseteq RingRows
      /\ \A t \in S : t.id \in (made.rings + 1)..(made.rings + Len(Starting)) /\ t.profile = p.id
      /\ \A t, u \in S : t.id = u.id => t = u
      /\ \E t \in S : t.id = made.rings + 1
  <2> HIDE DEF New
  <2>1. made.rings \in Nat /\ 1 \in DOMAIN Starting
    BY <1>3, PricingRows
  <2>2. \A t \in S : \E i \in DOMAIN Starting : t = New(i) /\ t.id = made.rings + i /\ t.profile = p.id
    BY <1>4, <1>5
  <2>3. S \subseteq RingRows
    BY <1>4, <2>2
  <2>4. ASSUME NEW t \in S, NEW u \in S, t.id = u.id
        PROVE  t = u
    <3>1. PICK i \in DOMAIN Starting : t = New(i) /\ t.id = made.rings + i
      BY <2>2
    <3>2. PICK j \in DOMAIN Starting : u = New(j) /\ u.id = made.rings + j
      BY <2>2
    <3>3. i = j
      BY <1>3, <2>1, <2>4, <3>1, <3>2
    <3> QED BY <3>1, <3>2, <3>3
  <2>5. ASSUME NEW t \in S
        PROVE  t.id \in (made.rings + 1)..(made.rings + Len(Starting)) /\ t.profile = p.id
    <3>1. PICK i \in DOMAIN Starting : t.id = made.rings + i /\ t.profile = p.id
      BY <2>2
    <3> QED BY <1>3, <2>1, <3>1
  <2>6. New(1) \in S /\ New(1).id = made.rings + 1
    BY <1>4, <1>5, <2>1
  <2> QED BY <2>3, <2>4, <2>5, <2>6
<1>7. PICK d \in Goes(call[s], p, S) : call' = [call EXCEPT ![s] = d]
  BY <1>1, <1>2, <1>5
<1>8. PICK old \in CallRows : old = call[s] /\ old.goal \in Goals
  BY <1>1, PricingRows DEF PricingCallOK
<1>9. /\ d \in CallRows /\ d.pc \in {"idle", "patch", "ring", "order"}
      /\ d.pc \in {"patch", "ring"} => d.profile \in Nat
      /\ d.pc = "order" => d.quote \in Quotes /\ Covers(d)
  BY <1>6, <1>7, <1>8, GoesOn
<1> HIDE DEF row, rows, New
<1>10. /\ made' \in [rings : Nat, profiles : Nat, edits : Nat]
       /\ made'.rings = made.rings + Len(Starting) /\ made'.rings >= made.rings
  <2>1. made \in [rings : Nat, profiles : Nat, edits : Nat]
    BY DEF PricingIInv, PricingTyped
  <2>2. made' = [rings |-> made.rings + Len(Starting), profiles |-> made.profiles + 1,
                 edits |-> made.edits]
    BY <1>1, <2>1
  <2> QED BY <1>3, <2>1, <2>2
<1>11. /\ profiles' \in Seq(ProfileRows) /\ Len(profiles') = Len(profiles) + 1
       /\ \A i \in DOMAIN profiles' : \/ profiles'[i].id = p.id
                                      \/ \E j \in DOMAIN profiles : profiles'[i] = profiles[j]
  <2>1. profiles \in Seq(ProfileRows) /\ <<p>> \in Seq(ProfileRows) /\ Len(<<p>>) = 1
    BY PricingRows
  <2>2. profiles' = <<p>> \o profiles
    BY <1>1, <1>2
  <2> QED BY <2>1, <2>2
<1>12. /\ rings' \subseteq RingRows /\ \A r \in rings' : r.id \in 0..made'.rings
       /\ \A r, q \in rings' : r.id = q.id => r = q
  BY <1>1, <1>3, <1>5, <1>6, <1>10, PricingRows
<1>13. OneDefaultProfile'
  <2>1. "profile" \in apart => profiles = <<>>
    BY <1>1, PricingRows DEF PricingCallOK
  <2> QED BY <1>1, <1>11, <2>1 DEF OneDefaultProfile
<1>14. ASSUME NEW i \in DOMAIN profiles', NEW n,
              profiles'[i].id = p.id => n \in 0..made.rings,
              \A j \in DOMAIN profiles : \E q \in rings : q.profile = profiles[j].id /\ q.id # n
       PROVE  \E t \in RingsOf(profiles[i].id)' : t.id # n
  <2>1. CASE profiles'[i].id = p.id
    <3>1. PICK t \in S : t.id = made.rings + 1 /\ t.profile = p.id
      BY <1>6
    <3>2. t.id # n
      BY <1>14, <2>1, <3>1, PricingRows
    <3>3. t \in rings'
      BY <1>1, <1>5
    <3> QED BY <2>1, <3>1, <3>2, <3>3 DEF RingsOf
  <2>2. CASE \E j \in DOMAIN profiles : profiles'[i] = profiles[j]
    <3>1. PICK q \in rings : q.profile = profiles'[i].id /\ q.id # n
      BY <1>14, <2>2
    <3> QED BY <1>1, <3>1 DEF RingsOf
  <2> QED BY <1>11, <2>1, <2>2
<1>15. RingsRemain'
  <2>1. ASSUME "rings" \in apart, NEW i \in DOMAIN profiles'
        PROVE  RingsOf(profiles[i].id)' # {}
    <3>1. CASE profiles'[i].id = p.id
      BY <1>1, <1>5, <1>6, <3>1 DEF RingsOf
    <3>2. CASE \E j \in DOMAIN profiles : profiles'[i] = profiles[j]
      <4>1. PICK j \in DOMAIN profiles : profiles'[i] = profiles[j]
        BY <3>2
      <4>2. RingsOf(profiles[j].id) # {}
        BY <2>1 DEF PricingIInv, RingsRemain
      <4> QED BY <1>1, <4>1, <4>2 DEF RingsOf
    <3> QED BY <1>11, <3>1, <3>2
  <2> QED BY <1>1, <2>1 DEF RingsRemain
<1>16. ASSUME NEW x \in Callers \ {s}
       PROVE  PricingCallOK(x)'
  <2>1. PricingCallOK(x) /\ call'[x] = call[x]
    BY <1>7, PricingRows
  <2>2. Covers(call[x]) => Covers(call[x])'
    BY <1>1, <2>1 DEF Covers
  <2>3. call[x].pc = "order" => call[x].quote \in Quotes /\ Covers(call[x])'
    BY <2>1, <2>2 DEF PricingCallOK
  <2>4. ~(call[x].pc = "create" /\ "profile" \in apart)
    BY <1>1 DEF PricingIInv, OneAtATime
  <2>5. call[x].pc = "delete" => call[x].ring \in 0..made'.rings
    BY <1>3, <1>10, <2>1, PricingRows DEF PricingCallOK
  <2>6. ASSUME call[x].pc = "delete", "rings" \in apart, NEW i \in DOMAIN profiles'
        PROVE  \E t \in RingsOf(profiles[i].id)' : t.id # call[x].ring
    <3>1. /\ call[x].ring \in 0..made.rings
          /\ \A j \in DOMAIN profiles : \E q \in rings : q.profile = profiles[j].id /\ q.id # call[x].ring
      BY <2>1, <2>6 DEF PricingCallOK, RingsOf
    <3> QED BY <1>14, <3>1
  <2>7. call[x].pc \in {"patch", "ring"} => call[x].profile \in Nat
    BY <2>1 DEF PricingCallOK
  <2> QED BY <1>1, <2>1, <2>3, <2>4, <2>5, <2>6, <2>7 DEF PricingCallOK
<1>17. PricingCallOK(s)'
  <2>1. call'[s] = d
    BY <1>7, PricingRows
  <2> QED BY <1>1, <1>9, <2>1 DEF PricingCallOK, Covers
<1>18. PromiseKept'
  BY <1>1 DEF PricingIInv, PromiseKept
<1> QED BY <1>1, <1>7, <1>9, <1>10, <1>11, <1>12, <1>13, <1>15, <1>16, <1>17, <1>18, OneCaller

LEMMA DeleteRingWriteStep ==
  ASSUME PricingIInv, NEW s \in Callers, DeleteRingWrite(s)
  PROVE  PricingIInv'
<1>1. /\ call[s].pc = "delete" /\ rings' = {r \in rings : r.id # call[s].ring}
      /\ order' = (IF order.ring = call[s].ring THEN [order EXCEPT !.ring = Nobody] ELSE order)
      /\ call' = [call EXCEPT ![s] = Waiting] /\ UNCHANGED <<zone, profiles, trip, bill, promise, made, apart>>
  BY DEF DeleteRingWrite
<1>2. PICK c \in CallRows : call' = [call EXCEPT ![s] = c] /\ c.pc = "idle"
  BY <1>1, WaitingRow
<1>3. RingsRemain'
  <2>1. ASSUME "rings" \in apart, NEW i \in DOMAIN profiles
        PROVE  RingsOf(profiles[i].id)' # {}
    <3>1. PICK r \in RingsOf(profiles[i].id) : r.id # call[s].ring
      BY <1>1, <2>1, PricingRows DEF PricingCallOK
    <3> QED BY <1>1, <3>1 DEF RingsOf
  <2> QED BY <1>1, <2>1 DEF RingsRemain
<1>4. ASSUME NEW x \in Callers \ {s}
      PROVE  PricingCallOK(x)'
  <2>1. PricingCallOK(x) /\ call'[x] = call[x]
    BY <1>1, PricingRows
  <2>2. Covers(call[x]) => Covers(call[x])'
    BY <1>1, <2>1 DEF Covers
  <2>3. call[x].pc = "order" => call[x].quote \in Quotes /\ Covers(call[x])'
    BY <2>1, <2>2 DEF PricingCallOK
  <2>4. /\ call[x].pc \in {"patch", "ring"} => call[x].profile \in Nat
        /\ call[x].pc = "create" => call[x].goal \in Goals /\ ("profile" \in apart => profiles = <<>>)
        /\ call[x].pc = "delete" => call[x].ring \in 0..made.rings
    BY <2>1 DEF PricingCallOK
  <2>5. call[x].pc = "delete" => "rings" \notin apart
    BY <1>1 DEF PricingIInv, OneAtATime
  <2> QED BY <1>1, <2>1, <2>3, <2>4, <2>5 DEF PricingCallOK
<1>5. PricingCallOK(s)'
  BY <1>2, PricingRows DEF PricingCallOK
<1>6. PromiseKept'
  <2>1. PromiseKept /\ UNCHANGED <<trip, bill, promise>>
    BY <1>1 DEF PricingIInv
  <2>2. /\ order' \in [state : {"none", "created", "accepted", "completed"}, ring : Nat \cup {Nobody},
                       quote : Quotes \cup {NoQuote}]
        /\ order'.state = order.state /\ order'.quote = order.quote
    <3>1. CASE order.ring = call[s].ring
      BY <1>1, <2>1, <3>1 DEF PromiseKept
    <3>2. CASE order.ring # call[s].ring
      BY <1>1, <2>1, <3>2 DEF PromiseKept
    <3> QED BY <3>1, <3>2
  <2> QED BY <2>1, <2>2 DEF PromiseKept, Quotes, NoQuote
<1>7. /\ profiles' \in Seq(ProfileRows) /\ made' \in [rings : Nat, profiles : Nat, edits : Nat]
      /\ made'.rings >= made.rings /\ rings' \subseteq RingRows
      /\ \A r \in rings' : r.id \in 0..made'.rings
      /\ \A r, q \in rings' : r.id = q.id => r = q
  BY <1>1, PricingRows DEF PricingIInv, PricingTyped
<1>8. OneDefaultProfile' /\ UNCHANGED zone /\ apart' \subseteq apart
  BY <1>1 DEF PricingIInv, OneDefaultProfile
<1> QED BY <1>2, <1>3, <1>4, <1>5, <1>6, <1>7, <1>8, OneCaller

(* The steps of the order and its trip.                                    *)
LEMMA OrderMoves ==
  ASSUME PricingIInv, UNCHANGED <<zone, profiles, rings, call, promise, made, apart>>, PromiseKept'
  PROVE  PricingIInv'
<1>1. PricingTyped'
  BY DEF PricingIInv, PricingTyped
<1>2. \A q \in rings : \E t \in rings' : t.id = q.id /\ t.profile = q.profile
  OBVIOUS
<1>3. RingsRemain' /\ \A x \in Callers : PricingCallOK(x)'
  BY <1>2, PricingRows, KeepsRings
<1>4. OneDefaultProfile' /\ OneAtATime("create", "profile")' /\ OneAtATime("delete", "rings")'
  BY DEF PricingIInv, OneDefaultProfile, OneAtATime
<1> QED BY <1>1, <1>3, <1>4 DEF PricingIInv

LEMMA AcceptQuotedStep ==
  ASSUME PricingIInv, AcceptQuoted
  PROVE  PricingIInv'
<1>1. /\ order.state = "created" /\ order' = [order EXCEPT !.state = "accepted"] /\ trip' = Copied
      /\ UNCHANGED <<zone, profiles, rings, call, bill, promise, made, apart>>
  BY DEF AcceptQuoted
<1>2. PromiseKept
  BY DEF PricingIInv
<1>3. order.quote = promise /\ promise \in Quotes /\ bill = NoQuote
  BY <1>1, <1>2 DEF PromiseKept
<1>4. Copied = promise
  BY <1>3, NobodyAssumption DEF Copied, OrElse, Quotes
<1>5. /\ order' \in [state : {"none", "created", "accepted", "completed"}, ring : Nat \cup {Nobody},
                     quote : Quotes \cup {NoQuote}]
      /\ order'.state = "accepted" /\ order'.quote = order.quote
  BY <1>1, <1>2 DEF PromiseKept
<1>6. PromiseKept'
  BY <1>1, <1>3, <1>4, <1>5 DEF PromiseKept, Quotes, NoQuote
<1> QED BY <1>1, <1>6, OrderMoves

LEMMA CompleteQuotedStep ==
  ASSUME PricingIInv, CompleteQuoted
  PROVE  PricingIInv'
<1>1. /\ order.state = "accepted" /\ order' = [order EXCEPT !.state = "completed"]
      /\ bill' = [fee |-> OrElse(trip.fee, zone.fee), rate |-> OrElse(trip.rate, order.quote.rate),
                  wait |-> trip.wait]
      /\ UNCHANGED <<zone, profiles, rings, call, trip, promise, made, apart>>
  BY DEF CompleteQuoted
<1>2. PromiseKept
  BY DEF PricingIInv
<1>3. trip = promise /\ promise \in Quotes
  BY <1>1, <1>2 DEF PromiseKept
<1>4. bill' = promise
  BY <1>1, <1>3, NobodyAssumption DEF OrElse, Quotes
<1>5. /\ order' \in [state : {"none", "created", "accepted", "completed"}, ring : Nat \cup {Nobody},
                     quote : Quotes \cup {NoQuote}]
      /\ order'.state = "completed"
  BY <1>1, <1>2 DEF PromiseKept
<1>6. PromiseKept'
  BY <1>1, <1>3, <1>4, <1>5 DEF PromiseKept, Quotes, NoQuote
<1> QED BY <1>1, <1>6, OrderMoves

LEMMA CompleteAbsoluteStep ==
  ASSUME PricingIInv, CompleteAbsolute
  PROVE  PricingIInv'
<1>1. /\ order.state = "accepted" /\ order' = [order EXCEPT !.state = "completed"]
      /\ UNCHANGED <<zone, profiles, rings, call, trip, bill, promise, made, apart>>
  BY DEF CompleteAbsolute
<1>2. PromiseKept
  BY DEF PricingIInv
<1>3. /\ order' \in [state : {"none", "created", "accepted", "completed"}, ring : Nat \cup {Nobody},
                     quote : Quotes \cup {NoQuote}]
      /\ order'.state = "completed"
  BY <1>1, <1>2 DEF PromiseKept
<1>4. PromiseKept'
  BY <1>1, <1>2, <1>3 DEF PromiseKept
<1> QED BY <1>1, <1>4, OrderMoves

LEMMA PricingStarts == PricingInit => PricingIInv
<1> SUFFICES ASSUME PricingInit PROVE PricingIInv
  OBVIOUS
<1>1. /\ zone \in [fee : {0}, centre : BOOLEAN] /\ profiles = <<>> /\ rings = {}
      /\ call = [s \in Callers |-> Waiting] /\ order = NoOrder /\ bill = NoQuote
      /\ made = [rings |-> 0, profiles |-> 0, edits |-> 0]
  BY DEF PricingInit
<1>2. PricingTyped
  BY <1>1, WaitingRow DEF PricingTyped
<1>3. PromiseKept
  BY <1>1, WaitingRow DEF PromiseKept, NoOrder
<1>4. OneDefaultProfile /\ RingsRemain
  BY <1>1 DEF OneDefaultProfile, RingsRemain
<1>5. \A s \in Callers : PricingCallOK(s)
  BY <1>1, WaitingRow DEF PricingCallOK
<1>6. OneAtATime("create", "profile") /\ OneAtATime("delete", "rings")
  BY <1>1, WaitingRow DEF OneAtATime
<1> QED BY <1>2, <1>3, <1>4, <1>5, <1>6 DEF PricingIInv

LEMMA PricingInductive == PricingSpec => []PricingIInv
<1>1. PricingIInv /\ [PricingNext]_pricingVars => PricingIInv'
  <2> SUFFICES ASSUME PricingIInv, [PricingNext]_pricingVars
               PROVE  PricingIInv'
    OBVIOUS
  <2>1. ASSUME NEW s \in Callers, FindProfile(s) PROVE PricingIInv'
    BY <2>1, FindProfileStep
  <2>2. ASSUME NEW s \in Callers, CreateProfile(s) PROVE PricingIInv'
    BY <2>2, CreateProfileStep
  <2>3. ASSUME NEW s \in Callers, PatchProfile(s) PROVE PricingIInv'
    BY <2>3, PatchProfileStep
  <2>4. ASSUME NEW s \in Callers, CreateRing(s) PROVE PricingIInv'
    BY <2>4, CreateRingStep
  <2>5. ASSUME NEW s \in Callers, DeleteRing(s) PROVE PricingIInv'
    BY <2>5, DeleteRingStep
  <2>6. ASSUME NEW s \in Callers, DeleteRingWrite(s) PROVE PricingIInv'
    BY <2>6, DeleteRingWriteStep
  <2>7. ASSUME NEW s \in Callers, CreateOrder(s) PROVE PricingIInv'
    BY <2>7, CreateOrderStep
  <2>8. ASSUME NEW s \in Callers, CallDies(s) PROVE PricingIInv'
    BY <2>8, CallDiesStep
  <2>9. CASE PatchRing
    BY <2>9, PatchRingStep
  <2>10. CASE UpdateZoneMeter
    BY <2>10, UpdateZoneMeterStep
  <2>11. CASE AcceptQuoted
    BY <2>11, AcceptQuotedStep
  <2>12. CASE CompleteQuoted
    BY <2>12, CompleteQuotedStep
  <2>13. CASE CompleteAbsolute
    BY <2>13, CompleteAbsoluteStep
  <2>14. CASE UNCHANGED pricingVars
    <3>1. UNCHANGED <<zone, profiles, rings, call, order, trip, bill, promise, made, apart>>
      BY <2>14 DEF pricingVars
    <3>2. PromiseKept'
      BY <3>1 DEF PricingIInv, PromiseKept
    <3> QED BY <3>1, <3>2, OrderMoves
  <2> QED
    BY <2>1, <2>2, <2>3, <2>4, <2>5, <2>6, <2>7, <2>8, <2>9, <2>10, <2>11, <2>12, <2>13, <2>14 DEF PricingNext
<1> QED BY <1>1, PricingStarts, PTL DEF PricingSpec

(* An order in the zone can be quoted, from one tariff and by the ring its *)
(* pick-up is in: the zone has one default profile, it keeps a ring, and   *)
(* the ring of a quote contains the pick-up if one does.  The first two    *)
(* hold until two requests overlap in creating the profile or in deleting  *)
(* rings (defaultProfileForZone, deletePickupPricingRing).                 *)
THEOREM OneTariff == PricingSpec => []QuotedFromOneTariff
<1>1. PricingIInv => QuotedFromOneTariff
  <2> SUFFICES ASSUME PricingIInv PROVE QuotedFromOneTariff
    OBVIOUS
  <2>1. OneDefaultProfile /\ RingsRemain
    BY DEF PricingIInv
  <2>2. \A s \in Callers : call[s].pc = "order" => Covers(call[s])
    BY PricingRows DEF PricingCallOK
  <2>3. QuotedRingCovers
    BY <2>2 DEF QuotedRingCovers, Covers
  <2> QED BY <2>1, <2>3 DEF QuotedFromOneTariff
<1> QED BY <1>1, PricingInductive, PTL

(* A completed trip is billed by the quote its order was created with,     *)
(* whatever has been done to rings, profile and zone since, but for the    *)
(* sum an operator names to end a dispute (createOrder, acceptOrder,       *)
(* completeTrip, resolveDispute).                                          *)
THEOREM BilledAsQuoted == PricingSpec => []ChargedAsPromised
<1>1. PricingIInv => ChargedAsPromised
  BY DEF PricingIInv, PromiseKept, ChargedAsPromised
<1> QED BY <1>1, PricingInductive, PTL

-----------------------------------------------------------------------------
(* Recursive functions, by the least number that would be an exception.    *)

LEMMA LeastNatural ==
  ASSUME NEW T \in SUBSET Nat, T # {}
  PROVE  \E m \in T : \A k \in T : m <= k
<1>1. PICK R : R = OpToRel(<, Nat)
  OBVIOUS
<1>2. IsWellFoundedOn(R, Nat)
  BY <1>1, NatLessThanWellFounded
<1>3. PICK m \in T : \A k \in T : <<k, m>> \notin R
  BY <1>2, WFMin
<1>4. \A k \in Nat : k < m => <<k, m>> \in R
  BY <1>1 DEF OpToRel
<1>5. ASSUME NEW k \in T
      PROVE  m <= k
  <2>1. m \in Nat /\ k \in Nat /\ ~(k < m)
    BY <1>3, <1>4
  <2> QED BY <2>1
<1> QED BY <1>5

LEMMA GreatestNumber ==
  ASSUME NEW m \in Nat, NEW S \in SUBSET (0..m), S # {}
  PROVE  \E n \in S : \A k \in S : k <= n
<1> DEFINE Rest == {k \in Nat : k <= m /\ m - k \in S}
<1>1. PICK x : x \in S
  OBVIOUS
<1>2. m - x \in Rest
  <2>1. x \in Nat /\ m - x \in Nat /\ m - x <= m /\ m - (m - x) = x
    BY <1>1
  <2> QED BY <1>1, <2>1
<1>3. PICK k \in Rest : \A j \in Rest : k <= j
  BY <1>2, LeastNatural
<1>4. ASSUME NEW u \in S
      PROVE  u <= m - k
  <2>1. u \in Nat /\ m - u \in Nat /\ m - u <= m /\ m - (m - u) = u
    BY <1>4
  <2>2. m - u \in Rest
    BY <1>4, <2>1
  <2>3. k \in Nat /\ k <= m - u
    BY <1>3, <2>2
  <2> QED BY <2>1, <2>3
<1>5. m - k \in S
  BY <1>3
<1> QED BY <1>4, <1>5

(* There is a function that starts at s and goes on by g.                  *)
GoesBy(f, s, g, n) == f[0] = s /\ \A i \in 1..n : f[i] = g[<<f[i - 1], i>>]

LEMMA StepsExist ==
  ASSUME NEW T, NEW s \in T, NEW g \in [T \X Nat -> T], NEW n \in Nat
  PROVE  \E f \in [0..n -> T] : GoesBy(f, s, g, n)
<1> DEFINE Wrong == {m \in Nat : ~(\E f \in [0..m -> T] : GoesBy(f, s, g, m))}
<1>1. Wrong = {}
  <2> SUFFICES ASSUME Wrong # {} PROVE FALSE
    OBVIOUS
  <2>1. PICK m \in Wrong : \A k \in Wrong : m <= k
    BY LeastNatural
  <2>2. CASE m = 0
    <3> DEFINE f == [i \in 0..0 |-> s]
    <3>1. f \in [0..0 -> T] /\ GoesBy(f, s, g, 0)
      BY DEF GoesBy
    <3> QED BY <2>1, <2>2, <3>1
  <2>3. CASE m # 0
    <3>1. m \in Nat /\ m - 1 \in Nat /\ ~(m <= m - 1)
      BY <2>1, <2>3
    <3>2. m - 1 \notin Wrong
      BY <2>1, <3>1
    <3>3. PICK f \in [0..(m - 1) -> T] : GoesBy(f, s, g, m - 1)
      BY <3>1, <3>2
    <3> DEFINE h == [i \in 0..m |-> IF i = m THEN g[<<f[m - 1], m>>] ELSE f[i]]
    <3>4. g[<<f[m - 1], m>>] \in T
      BY <3>1
    <3>5. h \in [0..m -> T]
      BY <3>1, <3>4
    <3>6. h[0] = s
      BY <2>3, <3>1, <3>3 DEF GoesBy
    <3>7. ASSUME NEW i \in 1..m
          PROVE  h[i] = g[<<h[i - 1], i>>]
      <4>1. i - 1 \in 0..m /\ i - 1 # m /\ h[i - 1] = f[i - 1]
        BY <3>1
      <4>2. CASE i = m
        BY <3>1, <4>1, <4>2
      <4>3. CASE i # m
        <5>1. i \in 1..(m - 1) /\ h[i] = f[i]
          BY <3>1, <4>3
        <5> QED BY <3>3, <4>1, <5>1 DEF GoesBy
      <4> QED BY <4>2, <4>3
    <3> HIDE DEF h
    <3> QED BY <2>1, <3>5, <3>6, <3>7 DEF GoesBy
  <2> QED BY <2>2, <2>3
<1> QED BY <1>1

(* A sum is reached by steps.                                              *)
LEMMA SumSteps ==
  ASSUME NEW n \in Nat, NEW f \in [1..n -> Nat]
  PROVE  \E sum \in [0..n -> Nat] :
           /\ sum[0] = 0 /\ \A i \in 1..n : sum[i] = sum[i - 1] + f[i]
           /\ SumTo(f, n) = sum[n]
<1> DEFINE Step(h) == [i \in 0..n |-> IF i = 0 THEN 0 ELSE h[i - 1] + f[i]]
           sum == CHOOSE h : h = Step(h)
<1>1. PICK g \in [Nat \X Nat -> Nat] :
        \A a \in Nat : \A i \in 1..n : g[<<a, i>>] = a + f[i]
  <2> DEFINE k == [x \in Nat \X Nat |-> x[1] + (IF x[2] \in 1..n THEN f[x[2]] ELSE 0)]
  <2>1. \A x \in Nat \X Nat : x[1] \in Nat /\ (IF x[2] \in 1..n THEN f[x[2]] ELSE 0) \in Nat
    OBVIOUS
  <2>2. k \in [Nat \X Nat -> Nat]
    BY <2>1
  <2>3. ASSUME NEW a \in Nat, NEW i \in 1..n
        PROVE  k[<<a, i>>] = a + f[i]
    <3>1. <<a, i>> \in Nat \X Nat /\ <<a, i>>[1] = a /\ <<a, i>>[2] = i
      OBVIOUS
    <3> QED BY <3>1
  <2> HIDE DEF k
  <2> QED BY <2>2, <2>3
<1>2. PICK h \in [0..n -> Nat] : GoesBy(h, 0, g, n)
  <2>1. 0 \in Nat
    OBVIOUS
  <2> QED BY <2>1, StepsExist
<1>3. h = Step(h)
  <2>1. ASSUME NEW i \in 0..n
        PROVE  h[i] = IF i = 0 THEN 0 ELSE h[i - 1] + f[i]
    <3>1. CASE i = 0
      BY <1>2, <3>1 DEF GoesBy
    <3>2. CASE i # 0
      <4>1. i \in 1..n /\ i - 1 \in 0..n /\ i \in Nat
        BY <3>2
      <4>2. g[<<h[i - 1], i>>] = h[i - 1] + f[i]
        BY <1>1, <4>1
      <4> QED BY <1>2, <3>2, <4>1, <4>2 DEF GoesBy
    <3> QED BY <3>1, <3>2
  <2> QED BY <2>1
<1>4. sum = Step(sum)
  <2> HIDE DEF Step
  <2> QED BY <1>3
<1>5. SumTo(f, n) = sum[n]
  BY DEF SumTo
<1> HIDE DEF sum
<1>6. ASSUME NEW i \in 0..n
      PROVE  sum[i] = IF i = 0 THEN 0 ELSE sum[i - 1] + f[i]
  <2>1. sum[i] = Step(sum)[i]
    BY <1>4
  <2> QED BY <2>1
<1> DEFINE Wrong == {i \in 0..n : sum[i] \notin Nat}
<1>7. Wrong = {}
  <2> SUFFICES ASSUME Wrong # {} PROVE FALSE
    OBVIOUS
  <2>0. Wrong \in SUBSET Nat
    OBVIOUS
  <2>1. PICK i \in Wrong : \A k \in Wrong : i <= k
    <3> HIDE DEF Wrong
    <3> QED BY <2>0, LeastNatural
  <2>2. CASE i = 0
    BY <1>6, <2>1, <2>2
  <2>3. CASE i # 0
    <3>1. i - 1 \in 0..n /\ ~(i <= i - 1) /\ i \in 1..n /\ i \in 0..n
      BY <2>1, <2>3
    <3>2. sum[i - 1] \in Nat
      BY <2>1, <3>1
    <3>3. f[i] \in Nat
      BY <3>1
    <3>4. sum[i] = sum[i - 1] + f[i]
      BY <1>6, <2>3, <3>1
    <3> QED BY <2>1, <3>2, <3>3, <3>4
  <2> QED BY <2>2, <2>3
<1>8. sum \in [0..n -> Nat]
  <2>1. sum = [i \in 0..n |-> sum[i]]
    BY <1>4
  <2>2. \A i \in 0..n : sum[i] \in Nat
    BY <1>7
  <2> QED BY <2>1, <2>2
<1>9. sum[0] = 0 /\ \A i \in 1..n : sum[i] = sum[i - 1] + f[i]
  BY <1>6
<1> QED BY <1>5, <1>8, <1>9

-----------------------------------------------------------------------------
(* Sorting: the place of a row is the number of rows before it, those of    *)
(* the same time by where they are in the table.                           *)

Before(rows, i) ==
  {j \in DOMAIN rows : rows[j] < rows[i] \/ (rows[j] = rows[i] /\ j < i)}
Place(rows, i) == Cardinality(Before(rows, i)) + 1

LEMMA PlacesDiffer ==
  ASSUME NEW n \in Nat, NEW rows \in [1..n -> Nat],
         NEW i \in 1..n, NEW j \in 1..n, i \in Before(rows, j)
  PROVE  /\ Place(rows, i) \in 1..n /\ Place(rows, j) \in 1..n
         /\ Place(rows, i) < Place(rows, j)
<1>1. IsFiniteSet(1..n) /\ Cardinality(1..n) = n
  BY FS_Interval
<1>2. ASSUME NEW k \in 1..n
      PROVE  /\ IsFiniteSet(Before(rows, k)) /\ Cardinality(Before(rows, k)) \in Nat
             /\ Cardinality(Before(rows, k)) < n
  <2>1. Before(rows, k) \subseteq 1..n /\ k \notin Before(rows, k)
    BY DEF Before
  <2> QED BY <1>1, <2>1, FS_Subset, FS_CardinalityType
<1>3. Before(rows, i) \subseteq Before(rows, j)
  BY DEF Before
<1>4. i \notin Before(rows, i)
  BY DEF Before
<1>5. Cardinality(Before(rows, i)) < Cardinality(Before(rows, j))
  BY <1>2, <1>3, <1>4, FS_Subset
<1>6. PICK a \in Nat, b \in Nat : a = Cardinality(Before(rows, i)) /\ b = Cardinality(Before(rows, j))
  BY <1>2
<1>7. a < b /\ b < n /\ Place(rows, i) = a + 1 /\ Place(rows, j) = b + 1
  BY <1>2, <1>5, <1>6 DEF Place
<1> QED BY <1>7

LEMMA PlaceOK ==
  ASSUME NEW n \in Nat, NEW rows \in [1..n -> Nat]
  PROVE  /\ \A i \in 1..n : Place(rows, i) \in 1..n
         /\ \A i, j \in 1..n : /\ Place(rows, i) = Place(rows, j) => i = j
                               /\ Place(rows, i) < Place(rows, j) => rows[i] <= rows[j]
<1>1. ASSUME NEW i \in 1..n
      PROVE  Place(rows, i) \in 1..n
  <2>1. IsFiniteSet(1..n) /\ Cardinality(1..n) = n
    BY FS_Interval
  <2>2. Before(rows, i) \subseteq 1..n /\ i \notin Before(rows, i)
    BY DEF Before
  <2>3. Cardinality(Before(rows, i)) \in Nat /\ Cardinality(Before(rows, i)) < n
    BY <2>1, <2>2, FS_Subset, FS_CardinalityType
  <2> QED BY <2>3 DEF Place
<1>2. ASSUME NEW i \in 1..n, NEW j \in 1..n, i # j
      PROVE  i \in Before(rows, j) \/ j \in Before(rows, i)
  BY <1>2 DEF Before
<1>3. ASSUME NEW i \in 1..n, NEW j \in 1..n
      PROVE  /\ Place(rows, i) = Place(rows, j) => i = j
             /\ Place(rows, i) < Place(rows, j) => rows[i] <= rows[j]
  <2>1. /\ i \in Before(rows, j) => Place(rows, i) < Place(rows, j)
        /\ j \in Before(rows, i) => Place(rows, j) < Place(rows, i)
    BY PlacesDiffer
  <2>2. Place(rows, i) \in Nat /\ Place(rows, j) \in Nat
    BY <1>1
  <2>3. Place(rows, i) = Place(rows, j) => i = j
    BY <1>2, <2>1, <2>2
  <2>4. i \in Before(rows, j) => rows[i] <= rows[j]
    BY DEF Before
  <2>5. Place(rows, i) < Place(rows, j) => i \in Before(rows, j)
    BY <1>2, <2>1, <2>2
  <2> QED BY <2>3, <2>4, <2>5
<1> QED BY <1>1, <1>3

LEMMA SortExists ==
  ASSUME NEW n \in Nat, NEW rows \in [1..n -> Nat]
  PROVE  \E p \in [1..n -> 1..n] :
           \A i, j \in 1..n : i < j => p[i] # p[j] /\ rows[p[i]] <= rows[p[j]]
<1> DEFINE f == [i \in 1..n |-> Place(rows, i)]
<1>1. f \in Injection(1..n, 1..n)
  BY PlaceOK DEF Injection, IsInjective
<1>2. f \in Surjection(1..n, 1..n)
  BY <1>1, FS_Interval, FS_Injection
<1>3. \A k \in 1..n : \E i \in 1..n : Place(rows, i) = k
  BY <1>2 DEF Surjection
<1> DEFINE p == [k \in 1..n |-> CHOOSE i \in 1..n : Place(rows, i) = k]
<1>4. \A k \in 1..n : p[k] \in 1..n /\ Place(rows, p[k]) = k
  BY <1>3
<1>5. p \in [1..n -> 1..n]
  BY <1>4
<1> HIDE DEF p
<1>6. ASSUME NEW i \in 1..n, NEW j \in 1..n, i < j
      PROVE  p[i] # p[j] /\ rows[p[i]] <= rows[p[j]]
  <2>1. /\ p[i] \in 1..n /\ p[j] \in 1..n
        /\ Place(rows, p[i]) = i /\ Place(rows, p[j]) = j
    BY <1>4
  <2>2. p[i] # p[j]
    BY <1>6, <2>1
  <2>3. rows[p[i]] <= rows[p[j]]
    <3>1. \A a, b \in 1..n : Place(rows, a) < Place(rows, b) => rows[a] <= rows[b]
      BY PlaceOK
    <3>2. Place(rows, p[i]) < Place(rows, p[j])
      BY <1>6, <2>1
    <3> QED BY <2>1, <3>1, <3>2
  <2> QED BY <2>2, <2>3
<1> QED BY <1>5, <1>6

LEMMA RowsSorted ==
  ASSUME NEW n \in Nat, NEW rows \in [1..n -> Nat]
  PROVE  LET r == RowsByTime(rows)
         IN  /\ r \in [1..n -> {rows[i] : i \in 1..n}]
             /\ \A i, j \in 1..n : i < j => r[i] <= r[j]
<1> DEFINE Sorts(p) == \A i, j \in DOMAIN rows : i < j => p[i] # p[j] /\ rows[p[i]] <= rows[p[j]]
           q == CHOOSE p \in [DOMAIN rows -> DOMAIN rows] : Sorts(p)
<1>1. DOMAIN rows = 1..n
  OBVIOUS
<1>2. \E p \in [DOMAIN rows -> DOMAIN rows] : Sorts(p)
  BY <1>1, SortExists
<1>3. q \in [DOMAIN rows -> DOMAIN rows] /\ Sorts(q)
  <2> HIDE DEF Sorts
  <2> QED BY <1>2
<1>4. RowsByTime(rows) = [i \in DOMAIN rows |-> rows[q[i]]]
  BY DEF RowsByTime
<1> HIDE DEF q
<1>5. q \in [1..n -> 1..n] /\ \A i, j \in 1..n : i < j => rows[q[i]] <= rows[q[j]]
  BY <1>1, <1>3
<1>6. PICK r : r = RowsByTime(rows)
  OBVIOUS
<1>7. r = [i \in 1..n |-> rows[q[i]]]
  BY <1>1, <1>4, <1>6
<1>8. /\ r \in [1..n -> {rows[i] : i \in 1..n}]
      /\ \A i, j \in 1..n : i < j => r[i] <= r[j]
  BY <1>5, <1>7
<1> QED BY <1>6, <1>8

-----------------------------------------------------------------------------
(* The meter.                                                              *)

LEMMA Distances ==
  ASSUME path \in [0..EndOfTime -> Nat], clock \in 0..EndOfTime, EndOfTime \in Nat,
         NEW t \in 0..clock, NEW u \in 0..clock
  PROVE  /\ t \in 0..EndOfTime /\ Distance(t, u) \in Nat /\ Distance(t, t) = 0
         /\ Billable(t, u) \in Nat /\ Billable(t, u) <= Distance(t, u)
         /\ \A v \in 0..clock : Distance(t, v) <= Distance(t, u) + Distance(u, v)
<1>1. \A v \in 0..clock : v \in 0..EndOfTime /\ path[v] \in Nat
  OBVIOUS
<1>2. Distance(t, u) \in Nat /\ Distance(t, t) = 0
  BY <1>1 DEF Distance
<1>3. Billable(t, u) \in Nat /\ Billable(t, u) <= Distance(t, u)
  BY <1>2 DEF Billable
<1>4. \A v \in 0..clock : Distance(t, v) <= Distance(t, u) + Distance(u, v)
  BY <1>1 DEF Distance
<1> QED BY <1>1, <1>2, <1>3, <1>4

(* The way between two moments is no longer than the road driven meanwhile. *)
LEMMA RoadGrows ==
  ASSUME path \in [0..EndOfTime -> Nat], clock \in 0..EndOfTime, EndOfTime \in Nat,
         NEW road \in [0..clock -> Nat],
         \A t \in 1..clock : road[t] = road[t - 1] + Distance(t - 1, t),
         NEW t \in 0..clock, NEW u \in 0..clock, t <= u
  PROVE  road[t] + Distance(t, u) <= road[u]
<1> DEFINE Wrong == {v \in t..clock : ~(road[t] + Distance(t, v) <= road[v])}
<1>1. Wrong = {}
  <2> SUFFICES ASSUME Wrong # {} PROVE FALSE
    OBVIOUS
  <2>1. Wrong \in SUBSET Nat /\ Wrong \subseteq 0..clock
    OBVIOUS
  <2>2. PICK v \in Wrong : \A k \in Wrong : v <= k
    <3> HIDE DEF Wrong
    <3> QED BY <2>1, LeastNatural
  <2>3. CASE v = t
    <3>1. road[t] + Distance(t, t) <= road[t]
      BY Distances
    <3> QED BY <2>2, <2>3, <3>1
  <2>4. CASE v # t
    <3>1. /\ v \in 1..clock /\ v - 1 \in t..clock /\ v - 1 \in 0..clock /\ v \in 0..clock
          /\ ~(v <= v - 1)
      BY <2>2, <2>4
    <3>2. road[t] + Distance(t, v - 1) <= road[v - 1]
      <4>1. v - 1 \notin Wrong
        BY <2>2, <3>1
      <4> QED BY <3>1, <4>1
    <3>3. road[v] = road[v - 1] + Distance(v - 1, v)
      BY <3>1
    <3>4. Distance(t, v) <= Distance(t, v - 1) + Distance(v - 1, v)
      BY <3>1, Distances
    <3>5. /\ Distance(t, v) \in Nat /\ Distance(t, v - 1) \in Nat /\ Distance(v - 1, v) \in Nat
          /\ road[t] \in Nat /\ road[v - 1] \in Nat
      BY <3>1, Distances
    <3>6. road[t] + Distance(t, v) <= road[v]
      <4> HIDE DEF Wrong
      <4> QED BY <3>2, <3>3, <3>4, <3>5
    <3> QED BY <2>2, <3>6
  <2> QED BY <2>3, <2>4
<1>2. u \in t..clock
  OBVIOUS
<1> QED BY <1>1, <1>2

LEMMA MeterOK ==
  ASSUME path \in [0..EndOfTime -> Nat], clock \in 0..EndOfTime, EndOfTime \in Nat,
         stored \in Seq(Nat), Pings \subseteq 0..clock
  PROVE  MeterNeverOvercounts
<1>1. clock \in Nat
  OBVIOUS
<1>2. PICK way : way = [t \in 1..clock |-> Distance(t - 1, t)]
  OBVIOUS
<1>3. way \in [1..clock -> Nat]
  <2>1. ASSUME NEW t \in 1..clock
        PROVE  Distance(t - 1, t) \in Nat
    <3>1. t - 1 \in 0..clock /\ t \in 0..clock
      OBVIOUS
    <3> QED BY <3>1, Distances
  <2> QED BY <1>2, <2>1
<1>4. PICK road \in [0..clock -> Nat] :
        /\ \A t \in 1..clock : road[t] = road[t - 1] + Distance(t - 1, t)
        /\ SumTo(way, clock) = road[clock]
  <2>1. PICK road \in [0..clock -> Nat] :
          /\ \A t \in 1..clock : road[t] = road[t - 1] + way[t]
          /\ SumTo(way, clock) = road[clock]
    BY <1>1, <1>3, SumSteps
  <2> QED BY <1>2, <2>1
<1>5. \A t, u \in 0..clock : t <= u => road[t] + Distance(t, u) <= road[u]
  BY <1>4, RoadGrows
<1>6. PICK n \in Nat : n = Len(stored)
  OBVIOUS
<1>7. stored \in [1..n -> 0..clock] /\ stored \in [1..n -> Nat]
  <2>1. stored \in [1..n -> Nat] /\ DOMAIN stored = 1..n
    BY <1>6, LenProperties
  <2>2. \A i \in 1..n : stored[i] \in 0..clock
    BY <2>1 DEF Pings
  <2> QED BY <2>1, <2>2
<1>8. PICK rows : rows = RowsByTime(stored)
  OBVIOUS
<1>9. rows \in [1..n -> 0..clock] /\ Len(rows) = n /\ \A i, j \in 1..n : i < j => rows[i] <= rows[j]
  <2>1. /\ rows \in [1..n -> {stored[i] : i \in 1..n}]
        /\ \A i, j \in 1..n : i < j => rows[i] <= rows[j]
    BY <1>7, <1>8, RowsSorted
  <2>2. {stored[i] : i \in 1..n} \subseteq 0..clock
    BY <1>7
  <2>3. rows \in [1..n -> 0..clock]
    BY <2>1, <2>2
  <2>4. rows \in Seq(0..clock) /\ Len(rows) = n
    BY <2>3
  <2> QED BY <2>1, <2>3, <2>4
<1>10. CASE n < 2
  <2>1. BillableMeters = 0
    BY <1>8, <1>9, <1>10 DEF BillableMeters
  <2>2. road[clock] \in Nat
    BY <1>1
  <2> QED BY <1>2, <1>4, <2>1, <2>2 DEF MeterNeverOvercounts
<1>11. CASE ~(n < 2)
  <2>1. PICK m \in Nat : m = n - 1 /\ m + 1 = n /\ m >= 1
    <3>1. n - 1 \in Nat /\ (n - 1) + 1 = n /\ n - 1 >= 1
      BY <1>11
    <3> QED BY <3>1
  <2>2. PICK fare : fare = [i \in 1..m |-> Billable(rows[i], rows[i + 1])]
    OBVIOUS
  <2>3. BillableMeters = SumTo(fare, m)
    BY <1>8, <1>9, <1>11, <2>1, <2>2 DEF BillableMeters
  <2>4. \A i \in 1..m : rows[i] \in 0..clock /\ rows[i + 1] \in 0..clock /\ rows[i] <= rows[i + 1]
    BY <1>9, <2>1
  <2>5. fare \in [1..m -> Nat]
    BY <2>2, <2>4, Distances
  <2>6. PICK billed \in [0..m -> Nat] :
          /\ billed[0] = 0 /\ \A i \in 1..m : billed[i] = billed[i - 1] + fare[i]
          /\ SumTo(fare, m) = billed[m]
    BY <2>1, <2>5, SumSteps
  <2> DEFINE Wrong == {i \in 0..m : ~(billed[i] <= road[rows[i + 1]])}
  <2>7. Wrong = {}
    <3> SUFFICES ASSUME Wrong # {} PROVE FALSE
      OBVIOUS
    <3>1. Wrong \in SUBSET Nat
      OBVIOUS
    <3>2. PICK i \in Wrong : \A k \in Wrong : i <= k
      <4> HIDE DEF Wrong
      <4> QED BY <3>1, LeastNatural
    <3>3. CASE i = 0
      <4>1. rows[1] \in 0..clock
        BY <1>9, <2>1
      <4>2. road[rows[1]] \in Nat
        BY <4>1
      <4>3. billed[i] <= road[rows[i + 1]]
        BY <2>6, <3>3, <4>2
      <4> QED BY <3>2, <4>3
    <3>4. CASE i # 0
      <4>1. i \in 1..m /\ i - 1 \in 0..m /\ ~(i <= i - 1) /\ (i - 1) + 1 = i
        BY <3>2, <3>4
      <4>2. billed[i - 1] <= road[rows[i]]
        <5>1. i - 1 \notin Wrong
          BY <3>2, <4>1
        <5>2. billed[i - 1] <= road[rows[(i - 1) + 1]]
          BY <4>1, <5>1
        <5> QED BY <4>1, <5>2
      <4>3. PICK t \in 0..clock, u \in 0..clock : t = rows[i] /\ u = rows[i + 1] /\ t <= u
        BY <2>4, <4>1
      <4>4. billed[i] = billed[i - 1] + Billable(t, u)
        BY <2>2, <2>6, <4>1, <4>3
      <4>5. road[t] + Distance(t, u) <= road[u]
        BY <1>5, <4>3
      <4>6. /\ Billable(t, u) \in Nat /\ Billable(t, u) <= Distance(t, u) /\ Distance(t, u) \in Nat
            /\ road[t] \in Nat /\ road[u] \in Nat /\ billed[i - 1] \in Nat
        BY <4>1, Distances
      <4>7. billed[i - 1] <= road[t]
        BY <4>2, <4>3
      <4>8. billed[i] <= road[u]
        <5>1. billed[i] \in Nat
          BY <4>1
        <5>2. PICK a \in Nat, b \in Nat, x \in Nat, d \in Nat, v \in Nat, w \in Nat :
                /\ a = billed[i] /\ b = billed[i - 1] /\ x = Billable(t, u)
                /\ d = Distance(t, u) /\ v = road[t] /\ w = road[u]
          BY <4>6, <5>1
        <5>3. a = b + x /\ v + d <= w /\ x <= d /\ b <= v
          BY <4>4, <4>5, <4>6, <4>7, <5>2
        <5>4. a <= w
          BY <5>3
        <5> QED BY <5>2, <5>4
      <4> QED BY <3>2, <4>3, <4>8
    <3> QED BY <3>3, <3>4
  <2>8. billed[m] <= road[rows[n]]
    <3>1. m \in 0..m
      BY <2>1
    <3>2. billed[m] <= road[rows[m + 1]]
      BY <2>7, <3>1
    <3> QED BY <2>1, <3>2
  <2>9. PICK t \in 0..clock : t = rows[n]
    BY <1>9, <2>1
  <2>10. road[t] <= road[clock]
    <3>1. clock \in 0..clock /\ t <= clock
      BY <1>1
    <3>2. road[t] + Distance(t, clock) <= road[clock]
      BY <1>5, <3>1
    <3>3. Distance(t, clock) \in Nat /\ road[t] \in Nat /\ road[clock] \in Nat
      BY <3>1, Distances
    <3> QED BY <3>2, <3>3
  <2>11. billed[m] \in Nat /\ road[t] \in Nat /\ road[clock] \in Nat
    BY <1>1, <2>1
  <2>12. billed[m] <= road[clock]
    <3> HIDE DEF Wrong
    <3> QED BY <2>8, <2>9, <2>10, <2>11
  <2>13. SumTo([x \in 1..clock |-> Distance(x - 1, x)], clock) = road[clock]
    BY <1>2, <1>4
  <2> QED BY <2>3, <2>6, <2>12, <2>13 DEF MeterNeverOvercounts
<1> QED BY <1>10, <1>11

-----------------------------------------------------------------------------
(* A batch.                                                                *)

LEMMA LatestIs ==
  ASSUME NEW S, S \subseteq Nat, NEW x \in S, \A u \in S : u <= x
  PROVE  Latest(S) = x
<1>1. Latest(S) \in S /\ \A u \in S : u <= Latest(S)
  BY DEF Latest
<1>2. PICK y \in Nat : y = Latest(S) /\ x <= y /\ y <= x
  BY <1>1
<1> QED BY <1>2

LEMMA LatestExists ==
  ASSUME NEW m \in Nat, NEW S, S \subseteq 0..m, S # {}
  PROVE  Latest(S) \in S /\ \A u \in S : u <= Latest(S)
<1>1. \E x \in S : \A u \in S : u <= x
  BY GreatestNumber
<1> QED BY <1>1 DEF Latest

(* One turn of the loop of ingestPings.                                    *)
TakeOne(pings, out, t) ==
  LET prev == IF out = <<>> THEN byDriver ELSE out[Len(out)]
  IN  IF t \in pings /\ QualityOk(t) /\ PlausibleStep(prev, t) THEN Append(out, t) ELSE out

(* What was taken up to t, if anything, ends with the newest that is good. *)
Taken(pings, out, t) ==
  /\ out \in Seq(pings)
  /\ \A i \in 1..Len(out) : out[i] <= t /\ out[i] <= out[Len(out)] /\ QualityOk(out[i])
  /\ out # <<>> => \A u \in pings : u <= t /\ QualityOk(u) => u <= out[Len(out)]

LEMMA TakeOneOK ==
  ASSUME NEW pings, pings \subseteq Nat, NEW t \in Nat, NEW out, out \in Seq(pings),
         \A i \in 1..Len(out) : out[i] < t /\ out[i] <= out[Len(out)] /\ QualityOk(out[i]),
         out # <<>> => \A u \in pings : u < t /\ QualityOk(u) => u <= out[Len(out)]
  PROVE  Taken(pings, TakeOne(pings, out, t), t)
<1>1. PICK n \in Nat : n = Len(out)
  OBVIOUS
<1>2. \A i \in 1..n : /\ out[i] \in pings /\ out[i] \in Nat /\ out[i] < t /\ out[i] <= out[n]
                      /\ QualityOk(out[i])
  <2>1. \A i \in 1..n : out[i] \in pings
    BY <1>1, ElementOfSeq
  <2> QED BY <1>1, <2>1
<1>3. CASE TakeOne(pings, out, t) = Append(out, t) /\ t \in pings /\ QualityOk(t)
  <2>1. PICK next : next = Append(out, t)
    OBVIOUS
  <2>2. /\ next \in Seq(pings) /\ Len(next) = n + 1 /\ next[n + 1] = t
        /\ \A i \in 1..n : next[i] = out[i]
    BY <1>1, <1>3, <2>1
  <2>3. ASSUME NEW i \in 1..(n + 1)
        PROVE  next[i] <= t /\ QualityOk(next[i])
    <3>1. CASE i = n + 1
      BY <1>3, <2>2, <3>1
    <3>2. CASE i # n + 1
      <4>1. i \in 1..n
        BY <3>2
      <4>2. out[i] \in Nat /\ out[i] < t /\ QualityOk(out[i]) /\ next[i] = out[i]
        BY <1>2, <2>2, <4>1
      <4> QED BY <4>2
    <3> QED BY <3>1, <3>2
  <2> QED BY <1>3, <2>1, <2>2, <2>3 DEF Taken
<1>4. CASE /\ TakeOne(pings, out, t) = out
           /\ out # <<>> /\ t \in pings => ~QualityOk(t)
  <2>1. \A i \in 1..n : out[i] <= t /\ out[i] <= out[n] /\ QualityOk(out[i])
    BY <1>2
  <2>2. ASSUME out # <<>>, NEW u \in pings, u <= t, QualityOk(u)
        PROVE  u <= out[n]
    <3>1. u # t
      BY <1>4, <2>2
    <3>2. u < t
      BY <2>2, <3>1
    <3> QED BY <1>1, <2>2, <3>2
  <2> QED BY <1>1, <1>4, <2>1, <2>2 DEF Taken
<1>5. ASSUME out # <<>>, t \in pings, QualityOk(t)
      PROVE  TakeOne(pings, out, t) = Append(out, t)
  <2>1. n \in 1..n
    BY <1>1, <1>5
  <2>2. out[n] \in Nat /\ out[n] < t
    BY <1>2, <2>1
  <2> QED BY <1>1, <1>5, <2>2 DEF TakeOne, PlausibleStep
<1>6. \/ TakeOne(pings, out, t) = Append(out, t) /\ t \in pings /\ QualityOk(t)
      \/ TakeOne(pings, out, t) = out
  BY DEF TakeOne
<1> QED BY <1>3, <1>4, <1>5, <1>6

(* The loop exists as the recursive function of the model, and what it has *)
(* taken in the end are pings of the batch, the last of them the newest.   *)
LEMMA AcceptedOK ==
  ASSUME NEW pings, pings \subseteq 0..clock, clock \in Nat
  PROVE  /\ Accepted(pings) \in Seq(pings)
         /\ Accepted(pings) # <<>> =>
              /\ Accepted(pings)[Len(Accepted(pings))] = Latest(pings)
              /\ \A i \in 1..Len(Accepted(pings)) : Accepted(pings)[i] <= Latest(pings)
<1> DEFINE Step(h) == [t \in 0..clock |-> TakeOne(pings, IF t = 0 THEN <<>> ELSE h[t - 1], t)]
           taken == CHOOSE h : h = Step(h)
<1>1. PICK g \in [Seq(pings) \X Nat -> Seq(pings)] :
        \A out \in Seq(pings) : \A t \in Nat : g[<<out, t>>] = TakeOne(pings, out, t)
  <2> DEFINE k == [x \in Seq(pings) \X Nat |-> TakeOne(pings, x[1], x[2])]
  <2>1. ASSUME NEW out \in Seq(pings), NEW t \in Nat
        PROVE  TakeOne(pings, out, t) \in Seq(pings)
    <3>1. TakeOne(pings, out, t) = out \/ (t \in pings /\ TakeOne(pings, out, t) = Append(out, t))
      BY DEF TakeOne
    <3> QED BY <3>1
  <2>2. k \in [Seq(pings) \X Nat -> Seq(pings)]
    BY <2>1
  <2>3. ASSUME NEW out \in Seq(pings), NEW t \in Nat
        PROVE  k[<<out, t>>] = TakeOne(pings, out, t)
    <3>1. /\ <<out, t>> \in Seq(pings) \X Nat /\ <<out, t>>[1] = out /\ <<out, t>>[2] = t
      OBVIOUS
    <3> QED BY <3>1
  <2> HIDE DEF k
  <2> QED BY <2>2, <2>3
<1>2. PICK h \in [0..clock -> Seq(pings)] : GoesBy(h, g[<< <<>>, 0>>], g, clock)
  <2>1. <<>> \in Seq(pings) /\ 0 \in Nat
    OBVIOUS
  <2>2. g[<< <<>>, 0>>] \in Seq(pings)
    BY <2>1
  <2> QED BY <2>2, StepsExist
<1>3. h = Step(h)
  <2>1. ASSUME NEW t \in 0..clock
        PROVE  h[t] = TakeOne(pings, IF t = 0 THEN <<>> ELSE h[t - 1], t)
    <3>1. CASE t = 0
      <4>1. <<>> \in Seq(pings) /\ t \in Nat
        OBVIOUS
      <4>2. h[t] = TakeOne(pings, <<>>, t)
        BY <1>1, <1>2, <3>1, <4>1 DEF GoesBy
      <4> QED BY <3>1, <4>2
    <3>2. CASE t # 0
      <4>1. t \in 1..clock /\ t - 1 \in 0..clock /\ t \in Nat
        BY <3>2
      <4>2. h[t] = g[<<h[t - 1], t>>] /\ h[t - 1] \in Seq(pings)
        BY <1>2, <4>1 DEF GoesBy
      <4>3. h[t] = TakeOne(pings, h[t - 1], t)
        BY <1>1, <4>1, <4>2
      <4> QED BY <3>2, <4>3
    <3> QED BY <3>1, <3>2
  <2> QED BY <2>1
<1>4. taken = Step(taken)
  <2> HIDE DEF Step
  <2> QED BY <1>3
<1>5. Accepted(pings) = taken[clock]
  BY DEF Accepted, TakeOne
<1> HIDE DEF taken
<1>6. ASSUME NEW t \in 0..clock
      PROVE  taken[t] = TakeOne(pings, IF t = 0 THEN <<>> ELSE taken[t - 1], t)
  <2>1. taken[t] = Step(taken)[t]
    BY <1>4
  <2> QED BY <2>1
<1> HIDE DEF Step
<1> DEFINE Wrong == {t \in 0..clock : ~Taken(pings, taken[t], t)}
<1>7. Wrong = {}
  <2> SUFFICES ASSUME Wrong # {} PROVE FALSE
    OBVIOUS
  <2>1. Wrong \in SUBSET Nat /\ pings \subseteq Nat
    OBVIOUS
  <2>2. PICK t \in Wrong : \A k \in Wrong : t <= k
    <3> HIDE DEF Wrong
    <3> QED BY <2>1, LeastNatural
  <2>3. t \in 0..clock /\ t \in Nat /\ ~Taken(pings, taken[t], t)
    BY <2>2
  <2>4. CASE t = 0
    <3>1. taken[t] = TakeOne(pings, <<>>, t)
      BY <1>6, <2>3, <2>4
    <3>2. Taken(pings, TakeOne(pings, <<>>, t), t)
      <4>1. <<>> \in Seq(pings) /\ Len(<<>>) = 0 /\ 1..0 = {}
        OBVIOUS
      <4> QED BY <2>1, <2>3, <4>1, TakeOneOK
    <3> QED BY <2>3, <3>1, <3>2
  <2>5. CASE t # 0
    <3>1. t - 1 \in 0..clock /\ ~(t <= t - 1)
      BY <2>3, <2>5
    <3>2. Taken(pings, taken[t - 1], t - 1)
      <4>1. t - 1 \notin Wrong
        BY <2>2, <3>1
      <4> QED BY <3>1, <4>1
    <3>3. PICK out : out = taken[t - 1]
      OBVIOUS
    <3>4. taken[t] = TakeOne(pings, out, t)
      BY <1>6, <2>3, <2>5, <3>3
    <3>5. out \in Seq(pings)
      BY <3>2, <3>3 DEF Taken
    <3>6. ASSUME NEW i \in 1..Len(out)
          PROVE  out[i] < t /\ out[i] <= out[Len(out)] /\ QualityOk(out[i])
      <4>1. out[i] <= t - 1 /\ out[i] <= out[Len(out)] /\ QualityOk(out[i])
        BY <3>2, <3>3 DEF Taken
      <4>2. out[i] \in Nat
        BY <2>1, <3>5, ElementOfSeq
      <4> QED BY <2>3, <4>1, <4>2
    <3>7. ASSUME out # <<>>, NEW u \in pings, u < t, QualityOk(u)
          PROVE  u <= out[Len(out)]
      <4>1. u <= t - 1
        BY <2>1, <2>3, <3>7
      <4> QED BY <3>2, <3>3, <3>7, <4>1 DEF Taken
    <3>8. Taken(pings, TakeOne(pings, out, t), t)
      BY <2>1, <2>3, <3>5, <3>6, <3>7, TakeOneOK
    <3> QED BY <2>3, <3>4, <3>8
  <2> QED BY <2>4, <2>5
<1>8. Taken(pings, Accepted(pings), clock)
  <2>1. clock \in 0..clock
    OBVIOUS
  <2> QED BY <1>5, <1>7, <2>1
<1>9. PICK out, n : out = Accepted(pings) /\ n = Len(out)
  OBVIOUS
<1>10. ASSUME out # <<>>
       PROVE  out[n] = Latest(pings) /\ \A i \in 1..n : out[i] <= Latest(pings)
  <2>1. out \in Seq(pings) /\ n \in Nat /\ n \in 1..n
    BY <1>8, <1>9, <1>10 DEF Taken
  <2>2. /\ out[n] \in pings /\ QualityOk(out[n]) /\ \A i \in 1..n : out[i] <= out[n]
        /\ \A u \in pings : u <= clock /\ QualityOk(u) => u <= out[n]
    BY <1>8, <1>9, <1>10, <2>1, ElementOfSeq DEF Taken
  <2>3. pings # {} /\ Latest(pings) \in pings /\ \A u \in pings : u <= Latest(pings)
    BY <2>2, LatestExists
  <2>4. PICK a \in 0..clock, b \in 0..clock : a = out[n] /\ b = Latest(pings) /\ a <= b
    BY <2>2, <2>3
  <2>5. QualityOk(b)
    BY <2>2, <2>4, TrackingAssumption DEF QualityOk
  <2>6. b <= a
    BY <2>2, <2>3, <2>4, <2>5
  <2> QED BY <2>2, <2>4, <2>6
<1> QED BY <1>8, <1>9, <1>10 DEF Taken

-----------------------------------------------------------------------------
(* The position shown.                                                     *)

BatchRows == [pc : {"idle", "filter", "set"}, zone : TrackedZones \cup {Nowhere},
              pings : SUBSET Nat, last : Nat \cup {Nowhere}]

(* A batch in flight is of the past; in order, it is the only one and none *)
(* newer was stored, and once it is stored itself it has the newest.       *)
BatchOK(s) ==
  /\ ingest[s].pings \subseteq 0..clock
  /\ ingest[s].pc = "filter" /\ inOrder =>
       ingest[s].pings # {} /\ \A t \in Pings : t <= Latest(ingest[s].pings)
  /\ ingest[s].pc = "set" => /\ Pings # {} /\ ingest[s].last \in Nat
                             /\ inOrder => ingest[s].last = Latest(Pings)

TrackingIInv ==
  /\ path \in Paths /\ clock \in 0..EndOfTime
  /\ driverZone \in TrackedZones \cup {Nowhere} /\ lastZone \in TrackedZones \cup {Nowhere}
  /\ stored \in Seq(Nat) /\ Pings \subseteq 0..clock
  /\ byZone \in [TrackedZones -> Nat \cup {Nowhere}]
  /\ ingest \in [Batches -> BatchRows] /\ inOrder \in BOOLEAN
  /\ \A s \in Batches : BatchOK(s)
  /\ inOrder => \A s, x \in Batches : ingest[s].pc # "idle" /\ ingest[x].pc # "idle" => s = x
  (* one zone at most remembers the driver, and it has the newest position  *)
  /\ \A z \in TrackedZones : z # lastZone => byZone[z] = Nowhere
  /\ inOrder /\ (\A s \in Batches : ingest[s].pc # "set") =>
       \A z \in TrackedZones : byZone[z] = Nowhere \/ byZone[z] = Latest(Pings)

LEMMA RoadTold == TrackingIInv => RoadIsTrue
<1> SUFFICES ASSUME TrackingIInv PROVE RoadIsTrue
  OBVIOUS
<1>1. MeterNeverOvercounts
  <2>1. path \in [0..EndOfTime -> Nat] /\ EndOfTime \in Nat
    BY TrackingAssumption DEF TrackingIInv
  <2> QED BY <2>1, MeterOK DEF TrackingIInv
<1>2. RosterNewest
  BY DEF RosterNewest, Roster, TrackingIInv
<1> QED BY <1>1, <1>2 DEF RoadIsTrue

LEMMA TrackingStart == TrackingInit => TrackingIInv
<1> SUFFICES ASSUME TrackingInit PROVE TrackingIInv
  OBVIOUS
<1>1. Pings = {} /\ stored \in Seq(Nat)
  BY DEF TrackingInit, Pings
<1>2. NoBatch \in BatchRows /\ NoBatch.pings = {} /\ NoBatch.pc = "idle"
  BY DEF NoBatch, BatchRows
<1>3. \A s \in Batches : BatchOK(s)
  BY <1>2 DEF TrackingInit, BatchOK
<1> QED BY <1>1, <1>2, <1>3, TrackingAssumption DEF TrackingInit, TrackingIInv

LEMMA StoredGrow ==
  ASSUME stored \in Seq(Nat), NEW out \in Seq(Nat), stored' = stored \o out
  PROVE  /\ stored' \in Seq(Nat)
         /\ Pings' = Pings \cup {out[i] : i \in 1..Len(out)}
<1>1. PICK m, n, next :
        /\ m \in Nat /\ m = Len(stored)
        /\ n \in Nat /\ n = Len(out) /\ next = stored \o out
  <2>1. Len(stored) \in Nat /\ Len(out) \in Nat
    BY LenProperties
  <2>2. \E next : next = stored \o out
    OBVIOUS
  <2> QED BY <2>1, <2>2
<1>2. /\ next \in Seq(Nat) /\ Len(next) = m + n
      /\ \A i \in 1..(m + n) : next[i] = IF i <= m THEN stored[i] ELSE out[i - m]
  <2>1. /\ stored \o out \in Seq(Nat) /\ Len(stored \o out) = Len(stored) + Len(out)
        /\ \A i \in 1..(Len(stored) + Len(out)) :
             (stored \o out)[i] = IF i <= Len(stored) THEN stored[i] ELSE out[i - Len(stored)]
    BY ConcatProperties
  <2> QED BY <1>1, <2>1
<1>3. DOMAIN next = 1..(m + n) /\ DOMAIN stored = 1..m
  BY <1>1, <1>2
<1>4. ASSUME NEW i \in 1..(m + n)
      PROVE  next[i] \in Pings \cup {out[j] : j \in 1..n}
  <2>1. CASE i <= m
    <3>1. i \in 1..m /\ next[i] = stored[i]
      BY <1>1, <1>2, <2>1
    <3> QED BY <1>3, <3>1 DEF Pings
  <2>2. CASE ~(i <= m)
    <3>1. i - m \in 1..n /\ next[i] = out[i - m]
      BY <1>1, <1>2, <2>2
    <3> QED BY <3>1
  <2> QED BY <2>1, <2>2
<1>5. ASSUME NEW i \in 1..m
      PROVE  \E k \in 1..(m + n) : next[k] = stored[i]
  <2>1. i \in 1..(m + n) /\ i <= m
    BY <1>1
  <2> QED BY <1>1, <1>2, <2>1
<1>6. ASSUME NEW j \in 1..n
      PROVE  \E k \in 1..(m + n) : next[k] = out[j]
  <2>1. m + j \in 1..(m + n) /\ ~(m + j <= m) /\ (m + j) - m = j
    BY <1>1
  <2> QED BY <1>1, <1>2, <2>1
<1>7. {next[k] : k \in 1..(m + n)} = Pings \cup {out[j] : j \in 1..n}
  <2>1. Pings = {stored[i] : i \in 1..m}
    BY <1>3 DEF Pings
  <2>2. {next[k] : k \in 1..(m + n)} \subseteq Pings \cup {out[j] : j \in 1..n}
    BY <1>4
  <2>3. Pings \cup {out[j] : j \in 1..n} \subseteq {next[k] : k \in 1..(m + n)}
    <3>1. ASSUME NEW x \in Pings
          PROVE  x \in {next[k] : k \in 1..(m + n)}
      <4>1. PICK i \in 1..m : x = stored[i]
        BY <2>1
      <4> QED BY <1>5, <4>1
    <3>2. ASSUME NEW x \in {out[j] : j \in 1..n}
          PROVE  x \in {next[k] : k \in 1..(m + n)}
      <4>1. PICK j \in 1..n : x = out[j]
        BY <3>2
      <4> QED BY <1>6, <4>1
    <3> QED BY <3>1, <3>2
  <2> QED BY <2>2, <2>3
<1>8. stored' = next
  BY <1>1
<1>9. Pings' = {next[k] : k \in 1..(m + n)}
  BY <1>3, <1>8 DEF Pings
<1> QED BY <1>1, <1>2, <1>7, <1>8, <1>9

LEMMA BatchKept ==
  ASSUME NEW s \in Batches, BatchOK(s), ingest'[s] = ingest[s], inOrder' => inOrder,
         0..clock \subseteq 0..clock', Pings' = Pings
  PROVE  BatchOK(s)'
BY DEF BatchOK, Latest

LEMMA IdleOK ==
  ASSUME NEW s \in Batches, ingest'[s] = NoBatch
  PROVE  BatchOK(s)'
BY DEF BatchOK, NoBatch

LEMMA NoBatchRow == NoBatch \in BatchRows /\ NoBatch.pc = "idle"
BY DEF NoBatch, BatchRows

LEMMA IngestKeeps ==
  ASSUME TrackingIInv, NEW s \in Batches, IngestPings(s)
  PROVE  TrackingIInv'
<1>1. PICK pings \in (SUBSET (0..clock)) \ {{}} :
        /\ ingest' = [ingest EXCEPT ![s] = [NoBatch EXCEPT !.pc = "filter", !.zone = driverZone,
                                                           !.pings = pings]]
        /\ inOrder' = (inOrder /\ (\A x \in Batches : ingest[x].pc = "idle")
                               /\ \A t \in Pings : t <= Latest(pings))
  BY DEF IngestPings
<1>2. PICK row : row = [NoBatch EXCEPT !.pc = "filter", !.zone = driverZone, !.pings = pings]
  OBVIOUS
<1>3. /\ row \in BatchRows /\ row.pc = "filter" /\ row.pings = pings
      /\ ingest' = [ingest EXCEPT ![s] = row]
  <2>1. clock \in Nat /\ pings \in SUBSET Nat /\ driverZone \in TrackedZones \cup {Nowhere}
    BY TrackingAssumption DEF TrackingIInv
  <2> QED BY <1>1, <1>2, <2>1 DEF NoBatch, BatchRows
<1>4. /\ UNCHANGED <<path, clock, driverZone, stored, byDriver, byZone, lastZone>>
      /\ Pings' = Pings /\ ingest[s].pc = "idle"
  BY DEF IngestPings, Pings
<1>5. /\ ingest' \in [Batches -> BatchRows] /\ ingest'[s] = row
      /\ \A x \in Batches : x # s => ingest'[x] = ingest[x]
  BY <1>3 DEF TrackingIInv
<1>6. /\ inOrder' \in BOOLEAN
      /\ inOrder' => inOrder
      /\ inOrder' => \A x \in Batches : ingest[x].pc = "idle"
      /\ inOrder' => \A t \in Pings : t <= Latest(pings)
  <2>1. PICK c : c = \A x \in Batches : ingest[x].pc = "idle"
    OBVIOUS
  <2>2. PICK d : d = \A t \in Pings : t <= Latest(pings)
    OBVIOUS
  <2>3. inOrder \in BOOLEAN /\ c \in BOOLEAN /\ d \in BOOLEAN
    BY <2>1, <2>2 DEF TrackingIInv
  <2>4. inOrder' = (inOrder /\ c /\ d)
    BY <1>1, <2>1, <2>2
  <2> QED BY <2>1, <2>2, <2>3, <2>4, Zenon
<1>7. ASSUME NEW x \in Batches PROVE BatchOK(x)'
  <2>1. CASE x = s
    <3>1. ingest'[x].pings \subseteq 0..clock' /\ ingest'[x].pc = "filter"
      BY <1>3, <1>4, <1>5, <2>1
    <3>2. inOrder' => ingest'[x].pings # {} /\ \A t \in Pings' : t <= Latest(ingest'[x].pings)
      <4>1. ingest'[x].pings = pings /\ pings # {} /\ Pings' = Pings
        BY <1>1, <1>3, <1>4, <1>5, <2>1
      <4>2. inOrder' => \A t \in Pings : t <= Latest(pings)
        BY <1>6
      <4> QED BY <4>1, <4>2
    <3> QED BY <3>1, <3>2 DEF BatchOK, Latest
  <2>2. CASE x # s
    BY <1>4, <1>5, <1>6, <2>2, BatchKept DEF TrackingIInv
  <2> QED BY <2>1, <2>2
<1>8. inOrder' => \A y, x \in Batches : ingest'[y].pc # "idle" /\ ingest'[x].pc # "idle" => y = x
  BY <1>5, <1>6
<1>9. inOrder' /\ (\A x \in Batches : ingest'[x].pc # "set") =>
        \A z \in TrackedZones : byZone'[z] = Nowhere \/ byZone'[z] = Latest(Pings)
  <2> SUFFICES ASSUME inOrder' PROVE \A z \in TrackedZones : byZone[z] = Nowhere
                                                             \/ byZone[z] = Latest(Pings)
    BY <1>4
  <2>1. \A x \in Batches : ingest[x].pc # "set"
    BY <1>6
  <2> QED BY <1>6, <2>1 DEF TrackingIInv
<1>10. Latest(Pings)' = Latest(Pings)
  BY <1>4 DEF Latest
<1>11. /\ path' \in Paths /\ clock' \in 0..EndOfTime
       /\ driverZone' \in TrackedZones \cup {Nowhere} /\ lastZone' \in TrackedZones \cup {Nowhere}
       /\ stored' \in Seq(Nat) /\ Pings' \subseteq 0..clock'
       /\ byZone' \in [TrackedZones -> Nat \cup {Nowhere}]
       /\ \A z \in TrackedZones : z # lastZone' => byZone'[z] = Nowhere
  BY <1>4 DEF TrackingIInv
<1>12. inOrder' /\ (\A x \in Batches : ingest'[x].pc # "set") =>
         \A z \in TrackedZones : byZone'[z] = Nowhere \/ byZone'[z] = Latest(Pings)'
  BY <1>9, <1>10
<1> QED BY <1>5, <1>6, <1>7, <1>8, <1>11, <1>12 DEF TrackingIInv

LEMMA IdleKeeps ==
  ASSUME TrackingIInv, NEW s \in Batches, ingest[s].pc = "filter",
         ingest' = [ingest EXCEPT ![s] = NoBatch],
         UNCHANGED <<path, clock, driverZone, stored, byDriver, byZone, lastZone, inOrder>>
  PROVE  TrackingIInv'
<1>1. /\ ingest' \in [Batches -> BatchRows] /\ ingest'[s] = NoBatch
      /\ \A x \in Batches : x # s => ingest'[x] = ingest[x]
  BY NoBatchRow DEF TrackingIInv
<1>2. Pings' = Pings /\ Latest(Pings)' = Latest(Pings)
  BY DEF Pings, Latest
<1>3. ASSUME NEW x \in Batches PROVE BatchOK(x)'
  <2>1. BatchOK(x) /\ (inOrder' => inOrder) /\ 0..clock \subseteq 0..clock'
    BY DEF TrackingIInv
  <2> QED BY <1>1, <1>2, <2>1, IdleOK, BatchKept
<1>4. inOrder' => \A y, x \in Batches : ingest'[y].pc # "idle" /\ ingest'[x].pc # "idle" => y = x
  BY <1>1, NoBatchRow DEF TrackingIInv
<1>5. inOrder' => \A z \in TrackedZones : byZone[z] = Nowhere \/ byZone[z] = Latest(Pings)
  <2> SUFFICES ASSUME inOrder' PROVE \A z \in TrackedZones : byZone[z] = Nowhere
                                                             \/ byZone[z] = Latest(Pings)
    OBVIOUS
  <2>1. inOrder
    OBVIOUS
  <2>2. \A x \in Batches : ingest[x].pc # "set"
    BY <2>1 DEF TrackingIInv
  <2> QED BY <2>1, <2>2 DEF TrackingIInv
<1> QED BY <1>1, <1>2, <1>3, <1>4, <1>5 DEF TrackingIInv

LEMMA StoreKeeps ==
  ASSUME TrackingIInv, NEW s \in Batches, StorePings(s)
  PROVE  TrackingIInv'
<1>1. PICK pings, out : pings = ingest[s].pings /\ out = Accepted(pings)
  OBVIOUS
<1>2. /\ clock \in Nat /\ ingest[s].pc = "filter" /\ pings \subseteq 0..clock
      /\ UNCHANGED <<path, clock, driverZone, byDriver, byZone, lastZone, inOrder>>
  BY <1>1, TrackingAssumption DEF StorePings, TrackingIInv, BatchOK
<1>3. CASE out = <<>>
  <2>1. ingest' = [ingest EXCEPT ![s] = NoBatch] /\ UNCHANGED stored
    BY <1>1, <1>3 DEF StorePings
  <2> QED BY <1>2, <2>1, IdleKeeps
<1>4. CASE out # <<>>
  <2>1. PICK n, row : n = Len(out) /\ row = [ingest[s] EXCEPT !.pc = "set", !.pings = {},
                                                              !.last = out[Len(out)]]
    OBVIOUS
  <2>2. stored' = stored \o out /\ ingest' = [ingest EXCEPT ![s] = row]
    BY <1>1, <1>4, <2>1 DEF StorePings
  <2>3. /\ out \in Seq(pings) /\ out[n] = Latest(pings)
        /\ \A i \in 1..n : out[i] <= Latest(pings)
    BY <1>1, <1>2, <1>4, <2>1, AcceptedOK
  <2>4. n \in Nat /\ n \in 1..n /\ \A i \in 1..n : out[i] \in pings /\ out[i] \in Nat
    <3>1. n \in Nat /\ n # 0
      BY <1>4, <2>1, <2>3, LenProperties
    <3>2. \A i \in 1..n : out[i] \in pings
      BY <2>1, <2>3, ElementOfSeq
    <3>3. pings \subseteq Nat
      BY <1>2
    <3>4. n \in 1..n
      BY <3>1
    <3> QED BY <3>1, <3>2, <3>3, <3>4
  <2>5. stored' \in Seq(Nat) /\ Pings' = Pings \cup {out[i] : i \in 1..n}
    <3>1. out \in Seq(Nat) /\ stored \in Seq(Nat)
      <4>1. out \in [1..n -> Nat]
        BY <2>1, <2>3, <2>4, LenProperties
      <4>2. out \in Seq(Nat)
        BY <2>4, <4>1
      <4> QED BY <4>2 DEF TrackingIInv
    <3> QED BY <2>1, <2>2, <3>1, StoredGrow
  <2>6. Pings' \subseteq 0..clock' /\ Pings' # {} /\ out[n] \in Pings'
    <3>1. Pings \subseteq 0..clock /\ {out[i] : i \in 1..n} \subseteq 0..clock
      BY <1>2, <2>4 DEF TrackingIInv
    <3>2. out[n] \in {out[i] : i \in 1..n}
      BY <2>4
    <3> QED BY <1>2, <2>5, <3>1, <3>2
  <2>7. /\ row \in BatchRows /\ row.pc = "set" /\ row.pings = {} /\ row.last = out[n]
        /\ row.zone = ingest[s].zone
    <3>1. ingest[s] \in BatchRows /\ out[n] \in Nat
      BY <2>4 DEF TrackingIInv
    <3> QED BY <2>1, <3>1 DEF BatchRows
  <2>8. /\ ingest' \in [Batches -> BatchRows] /\ ingest'[s] = row
        /\ \A x \in Batches : x # s => ingest'[x] = ingest[x]
    BY <2>2, <2>7 DEF TrackingIInv
  <2>9. inOrder => out[n] = Latest(Pings')
    <3> SUFFICES ASSUME inOrder PROVE out[n] = Latest(Pings')
      OBVIOUS
    <3>1. \A t \in Pings : t <= Latest(pings)
      BY <1>1, <1>2 DEF TrackingIInv, BatchOK
    <3>2. \A t \in Pings' : t <= out[n]
      BY <2>3, <2>5, <3>1
    <3>3. Pings' \subseteq Nat
      BY <1>2, <2>6
    <3> QED BY <2>6, <3>2, <3>3, LatestIs
  <2>10. ASSUME NEW x \in Batches PROVE BatchOK(x)'
    <3>1. CASE x = s
      <4>1. Latest(Pings)' = Latest(Pings')
        BY DEF Latest
      <4>2. ingest'[x].pings \subseteq 0..clock' /\ ingest'[x].pc = "set"
        BY <2>7, <2>8, <3>1
      <4>3. Pings' # {} /\ ingest'[x].last \in Nat /\ (inOrder' => ingest'[x].last = Latest(Pings)')
        BY <1>2, <2>4, <2>6, <2>7, <2>8, <2>9, <3>1, <4>1
      <4> QED BY <4>2, <4>3 DEF BatchOK
    <3>2. CASE x # s
      <4>1. ingest'[x] = ingest[x] /\ BatchOK(x)
        BY <2>8, <3>2 DEF TrackingIInv
      <4>2. inOrder' => ingest[x].pc = "idle"
        BY <1>2, <3>2 DEF TrackingIInv
      <4>3. ingest'[x].pings \subseteq 0..clock'
        BY <1>2, <4>1 DEF BatchOK
      <4>4. ingest'[x].pc = "set" => ingest'[x].last \in Nat
        BY <4>1 DEF BatchOK
      <4> QED BY <2>6, <4>1, <4>2, <4>3, <4>4 DEF BatchOK
    <3> QED BY <3>1, <3>2
  <2>11. inOrder' => \A y, x \in Batches : ingest'[y].pc # "idle" /\ ingest'[x].pc # "idle" => y = x
    <3> SUFFICES ASSUME inOrder', NEW x \in Batches, x # s PROVE ingest'[x].pc = "idle"
      OBVIOUS
    <3> QED BY <1>2, <2>8 DEF TrackingIInv
  <2>12. ~\A x \in Batches : ingest'[x].pc # "set"
    BY <2>7, <2>8
  <2>13. /\ path' \in Paths /\ clock' \in 0..EndOfTime
         /\ driverZone' \in TrackedZones \cup {Nowhere} /\ lastZone' \in TrackedZones \cup {Nowhere}
         /\ byZone' \in [TrackedZones -> Nat \cup {Nowhere}] /\ inOrder' \in BOOLEAN
         /\ \A z \in TrackedZones : z # lastZone' => byZone'[z] = Nowhere
    BY <1>2 DEF TrackingIInv
  <2> QED BY <2>5, <2>6, <2>8, <2>10, <2>11, <2>12, <2>13 DEF TrackingIInv
<1> QED BY <1>3, <1>4

LEMMA SetKeeps ==
  ASSUME TrackingIInv, NEW s \in Batches, SetLastKnown(s)
  PROVE  TrackingIInv'
<1>1. PICK here, last : here = ingest[s].zone /\ last = ingest[s].last
  OBVIOUS
<1>2. /\ ingest[s].pc = "set" /\ byZone' = Zones(here, last) /\ lastZone' = here
      /\ ingest' = [ingest EXCEPT ![s] = NoBatch]
      /\ UNCHANGED <<path, clock, driverZone, stored, inOrder>>
  BY <1>1 DEF SetLastKnown
<1>3. Pings' = Pings /\ Latest(Pings)' = Latest(Pings)
  BY <1>2 DEF Pings, Latest
<1>4. here \in TrackedZones \cup {Nowhere} /\ last \in Nat
      /\ (inOrder => last = Latest(Pings))
  <2>1. ingest[s] \in BatchRows /\ BatchOK(s)
    BY DEF TrackingIInv
  <2> QED BY <1>1, <1>2, <2>1 DEF BatchRows, BatchOK
<1>5. /\ byZone' \in [TrackedZones -> Nat \cup {Nowhere}]
      /\ \A z \in TrackedZones : byZone'[z] = IF z = here THEN last
                                              ELSE IF z = lastZone THEN Nowhere ELSE byZone[z]
  BY <1>2, <1>4 DEF Zones, TrackingIInv
<1>6. \A z \in TrackedZones : z # here => byZone'[z] = Nowhere
  BY <1>5 DEF TrackingIInv
<1>7. /\ ingest' \in [Batches -> BatchRows] /\ ingest'[s] = NoBatch
      /\ \A x \in Batches : x # s => ingest'[x] = ingest[x]
  BY <1>2, NoBatchRow DEF TrackingIInv
<1>8. ASSUME NEW x \in Batches PROVE BatchOK(x)'
  <2>1. BatchOK(x) /\ (inOrder' => inOrder) /\ 0..clock \subseteq 0..clock'
    BY <1>2 DEF TrackingIInv
  <2> QED BY <1>3, <1>7, <2>1, IdleOK, BatchKept
<1>9. inOrder' => \A y, x \in Batches : ingest'[y].pc # "idle" /\ ingest'[x].pc # "idle" => y = x
  BY <1>2, <1>7, NoBatchRow DEF TrackingIInv
<1>10. inOrder' => \A z \in TrackedZones : byZone'[z] = Nowhere \/ byZone'[z] = Latest(Pings)
  BY <1>2, <1>4, <1>5, <1>6
<1> QED BY <1>2, <1>3, <1>4, <1>5, <1>6, <1>7, <1>8, <1>9, <1>10 DEF TrackingIInv

LEMMA TrackingStep == TrackingIInv /\ [TrackingNext]_trackingVars => TrackingIInv'
<1> SUFFICES ASSUME TrackingIInv, [TrackingNext]_trackingVars PROVE TrackingIInv'
  OBVIOUS
<1>1. ASSUME NEW s \in Batches, StoreFails(s) PROVE TrackingIInv'
  BY <1>1, IdleKeeps DEF StoreFails
<1>2. CASE TrackingRestart
  <2>1. /\ lastZone' = Nowhere /\ byZone' = [z \in TrackedZones |-> Nowhere]
        /\ ingest' = [s \in Batches |-> NoBatch]
        /\ UNCHANGED <<path, clock, driverZone, stored, inOrder>>
    BY <1>2 DEF TrackingRestart
  <2>2. Pings' = Pings /\ Latest(Pings)' = Latest(Pings)
    BY <2>1 DEF Pings, Latest
  <2>3. /\ ingest' \in [Batches -> BatchRows]
        /\ \A x \in Batches : ingest'[x] = NoBatch /\ ingest'[x].pc = "idle" /\ BatchOK(x)'
    BY <2>1, NoBatchRow, IdleOK
  <2> QED BY <2>1, <2>2, <2>3 DEF TrackingIInv
<1>3. CASE Tick
  <2>1. /\ clock < EndOfTime /\ clock' = clock + 1
        /\ UNCHANGED <<path, driverZone, stored, byDriver, byZone, lastZone, ingest, inOrder>>
    BY <1>3 DEF Tick
  <2>2. Pings' = Pings /\ Latest(Pings)' = Latest(Pings)
    BY <2>1 DEF Pings, Latest
  <2>3. clock \in Nat /\ clock' \in 0..EndOfTime /\ 0..clock \subseteq 0..clock'
    BY <2>1, TrackingAssumption DEF TrackingIInv
  <2>4. ASSUME NEW x \in Batches PROVE BatchOK(x)'
    BY <2>1, <2>2, <2>3, BatchKept DEF TrackingIInv
  <2> QED BY <2>1, <2>2, <2>3, <2>4 DEF TrackingIInv
<1>4. ASSUME UNCHANGED <<path, clock, stored, byZone, lastZone, ingest, inOrder>>,
             driverZone' \in TrackedZones \cup {Nowhere}
      PROVE  TrackingIInv'
  <2>1. Pings' = Pings /\ Latest(Pings)' = Latest(Pings)
    BY <1>4 DEF Pings, Latest
  <2>2. ASSUME NEW x \in Batches PROVE BatchOK(x)'
    BY <1>4, <2>1, BatchKept DEF TrackingIInv
  <2> QED BY <1>4, <2>1, <2>2 DEF TrackingIInv
<1>5. CASE MoveZone
  BY <1>4, <1>5 DEF MoveZone
<1>6. CASE UNCHANGED trackingVars
  BY <1>4, <1>6 DEF trackingVars, TrackingIInv
<1> QED
  BY <1>1, <1>2, <1>3, <1>5, <1>6, IngestKeeps, StoreKeeps, SetKeeps DEF TrackingNext

(* What is made of the stored pings is right, for any road, any number of  *)
(* requests and any length of the trip: the roster shows the newest        *)
(* position of batches that came in order, and the meter bills no more     *)
(* road than was travelled, whatever came, how often and when.             *)
THEOREM RoadIsTold == TrackingSpec => []RoadIsTrue
<1> QED BY TrackingStart, TrackingStep, RoadTold, PTL DEF TrackingSpec
=============================================================================
