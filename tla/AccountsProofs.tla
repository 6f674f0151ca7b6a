--------------------------- MODULE AccountsProofs ---------------------------
(***************************************************************************)
(* Proofs about Accounts, for any drivers, operators, phones, codes and    *)
(* number of requests: the rows of an account go together, what the checks *)
(* of the endpoints secure is secured, and the application keeps to its    *)
(* stages.                                                                 *)
(***************************************************************************)
EXTENDS Accounts, TLAPS

-----------------------------------------------------------------------------
(* The inductive invariant.                                                *)

Users    == [status : Status, phone : Phones \cup {None}]
Apps     == [status : Onboarding, code : Codes \cup {None}, parts : SUBSET Parts]
Requests == [pc : Labels, driver : Drivers \cup {None}, phone : Phones \cup {None},
             code : Codes \cup {None}, rejected : BOOLEAN]

(* Requests that have no driver yet, and those that carry a phone.          *)
Driverless == {"idle", "registerUser", "createCode", "createCommit"}
Phoned     == {"registerUser", "createCode", "createCommit", "phone"}

(* A request has what its next statements write, and its driver has both    *)
(* rows or is deleted; one that registers has written the first row, and    *)
(* somebody else may have written the second.                               *)
RequestOK(r) ==
  /\ r.pc \in Phoned => r.phone \in Phones
  /\ r.pc \in {"createCommit", "approve", "reactivate"} => r.code # None
  /\ IF r.pc \in Driverless THEN r.driver = None ELSE r.driver \in Drivers
  /\ r.pc = "registerDriver" =>
       /\ user[r.driver].status # "NONE"
       /\ app[r.driver].status = "NONE" =>
            user[r.driver].status \in {"PENDING_VERIFICATION", "DELETED"}
  /\ r.pc \notin Driverless \cup {"registerDriver"} =>
       user[r.driver].status = "DELETED" \/ app[r.driver].status # "NONE"

(* What a request saw when it began is still so.                           *)
Fits(r) ==
  LET d == r.driver
      st == app[d].status
  IN  /\ r.pc = "patch" => st = IF r.rejected THEN "REJECTED" ELSE "DRAFT"
      /\ r.pc = "patchVehicle" => st = "DRAFT"
      /\ r.pc = "document" => Editable(d)
      /\ r.pc \in {"submitDocuments", "submit"} =>
           st = "DRAFT" /\ (d \in stripped \/ {"data", "vehicle"} \subseteq app[d].parts)
      /\ r.pc = "submit" => d \in stripped \/ "documents" \in app[d].parts
      /\ r.pc \in {"approveCode", "approve"} => Approvable(d)
      /\ r.pc \in {"reactivateCode", "reactivate"} => st = "APPROVED"
      /\ r.pc = "UNDER_REVIEW" => st = "SUBMITTED"
      /\ r.pc = "REJECTED" => st \in {"DRAFT", "SUBMITTED", "UNDER_REVIEW", "REJECTED"}
      /\ r.pc = "delete" => d \notin trip

(* The rows of an account, and of a driver.                                *)
PhoneOK(i) == IF Present(i) THEN user[i].phone \in Phones ELSE user[i].phone = None

DriverOK(d) ==
  /\ app[d].status # "NONE" => Present(d)
  /\ app[d].status = "APPROVED" /\ d \notin codeless =>
       app[d].code # None /\ user[d].status \in {"ACTIVE", "SUSPENDED"}
  /\ Present(d) /\ app[d].status = "NONE" =>
       d \in died \/ \E s \in Slots : At(s, "registerDriver") /\ req[s].driver = d

Sound(d) ==
  /\ user[d].status = "ACTIVE" => app[d].status = "APPROVED"
  /\ d \notin stripped /\ app[d].status \in {"SUBMITTED", "UNDER_REVIEW"} => app[d].parts = Parts

(* An unraced driver is sound and has one request at most, which fits.      *)
Unraced ==
  \A d \in Drivers \ raced :
    /\ Sound(d)
    /\ \A s \in Slots : req[s].driver = d => Fits(req[s])
    /\ \A s, x \in Slots : req[s].driver = d /\ req[x].driver = d => s = x

RequestsOK == \A s \in Slots : RequestOK(req[s])

TablesTyped ==
  /\ user \in [Accounts -> Users]
  /\ app \in [Drivers -> Apps]
  /\ req \in [Slots -> Requests]
  /\ trip \subseteq Drivers /\ raced \subseteq Drivers /\ stripped \subseteq Drivers
  /\ died \subseteq Drivers /\ lost \subseteq Drivers /\ codeless \subseteq Drivers

IInv == /\ TablesTyped /\ PhonesDistinct /\ CodesDistinct /\ RequestsOK /\ Unraced /\ TripNotLost
        /\ \A i \in Accounts : PhoneOK(i)
        /\ \A d \in Drivers : DriverOK(d)

-----------------------------------------------------------------------------
(* Steps by what they concern.                                             *)

LEMMA NoneApart == None \notin Drivers /\ None \notin Phones
BY NoneAssumption

(* A step concerns account i (None: no account) when the rows of the others *)
(* and the requests about them are left alone.                             *)
LEMMA OneAccount ==
  ASSUME IInv, TablesTyped', TripNotLost', NEW i \in Accounts \cup {None},
         \A j \in Accounts \ {i} : user'[j] = user[j],
         \A e \in Drivers \ {i} : /\ app'[e] = app[e]
                                  /\ e \in trip' => e \in trip
                                  /\ e \in stripped <=> e \in stripped',
         raced \subseteq raced', died \subseteq died', codeless \subseteq codeless',
         i \in Accounts => PhoneOK(i)',
         i \in Accounts /\ Present(i)' => \A j \in Accounts \ {i} : user[j].phone # user'[i].phone,
         i \in Drivers => DriverOK(i)',
         i \in Drivers /\ app'[i].code # None => \A e \in Drivers \ {i} : app[e].code # app'[i].code,
         \A x \in Slots :
           \/ req'[x] = req[x] /\ (req[x].driver = i => i = None)
           \/ {req[x].driver, req'[x].driver} \subseteq {i, None} /\ RequestOK(req[x])',
         i \in Drivers \ raced' =>
           /\ Sound(i)'
           /\ \A x \in Slots : req'[x].driver = i => Fits(req[x])'
           /\ \A x, y \in Slots : req'[x].driver = i /\ req'[y].driver = i => x = y
  PROVE  IInv'
<1> USE NoneApart
<1>1. \A x \in Slots, e \in Drivers \ {i} :
        (req'[x].driver = e <=> req[x].driver = e) /\ (req[x].driver = e => req'[x] = req[x])
  OBVIOUS
<1>2. /\ \A x \in Slots : req[x] \in Requests /\ req'[x] \in Requests
      /\ \A x \in Slots : RequestOK(req[x])
  BY DEF IInv, TablesTyped, RequestsOK
<1>3. \A x \in Slots : RequestOK(req[x])'
  <2> SUFFICES ASSUME NEW x \in Slots, req'[x] = req[x], req[x].driver = i => i = None
               PROVE  RequestOK(req[x])'
    OBVIOUS
  <2>1. CASE req[x].pc \in Driverless
    BY <1>2, <2>1 DEF RequestOK, Driverless
  <2>2. CASE req[x].pc \notin Driverless
    <3>1. req[x].driver \in Drivers \ {i}
      BY <1>2, <2>2 DEF RequestOK
    <3>2. user'[req[x].driver] = user[req[x].driver] /\ app'[req[x].driver] = app[req[x].driver]
      BY <3>1 DEF Accounts
    <3> QED BY <1>2, <2>2, <3>2 DEF RequestOK
  <2> QED BY <2>1, <2>2
<1>4. CodesDistinct'
  <2> SUFFICES ASSUME NEW e \in Drivers, NEW f \in Drivers, e # f, app'[e].code # None
               PROVE  app'[e].code # app'[f].code
    BY DEF CodesDistinct
  <2>1. CASE e = i
    BY <2>1
  <2>2. CASE e # i /\ f # i
    BY <2>2 DEF IInv, CodesDistinct
  <2>3. CASE e # i /\ f = i
    BY <2>3
  <2> QED BY <2>1, <2>2, <2>3
<1>5. RequestsOK'
  BY <1>3 DEF RequestsOK
<1>6. ASSUME NEW e \in Drivers \ raced'
      PROVE  /\ Sound(e)'
             /\ \A x \in Slots : req'[x].driver = e => Fits(req[x])'
             /\ \A x, y \in Slots : req'[x].driver = e /\ req'[y].driver = e => x = y
  <2>1. CASE e = i
    BY <2>1
  <2>2. CASE e # i
    <3>1. user'[e] = user[e] /\ app'[e] = app[e] /\ (e \in trip' => e \in trip)
          /\ (e \in stripped <=> e \in stripped') /\ e \notin raced
      BY <2>2 DEF Accounts
    <3>2. Sound(e)'
      BY <3>1 DEF IInv, Unraced, Sound
    <3>3. ASSUME NEW x \in Slots, req'[x].driver = e
          PROVE  Fits(req[x])'
      <4>1. req'[x] = req[x] /\ req[x].driver = e /\ Fits(req[x])
        BY <1>1, <2>2, <3>1, <3>3 DEF IInv, Unraced
      <4> QED BY <3>1, <4>1 DEF Fits, Editable, Approvable
    <3>4. \A x, y \in Slots : req'[x].driver = e /\ req'[y].driver = e => x = y
      BY <1>1, <2>2, <3>1 DEF IInv, Unraced
    <3> QED BY <3>2, <3>3, <3>4
  <2> QED BY <2>1, <2>2
<1>7. Unraced'
  BY <1>6 DEF Unraced
<1>8. \A j \in Accounts : PhoneOK(j)'
  BY DEF IInv, PhoneOK, Present
<1>9. PhonesDistinct'
  <2> SUFFICES ASSUME NEW j \in Accounts, NEW k \in Accounts, j # k, Present(j)'
               PROVE  user'[j].phone # user'[k].phone
    BY DEF PhonesDistinct
  <2>1. CASE j = i
    BY <2>1
  <2>2. CASE j # i /\ k # i
    BY <2>2 DEF IInv, PhonesDistinct, Present
  <2>3. CASE j # i /\ k = i
    BY <1>8, <2>3 DEF PhoneOK, Present
  <2> QED BY <2>1, <2>2, <2>3
<1>10. \A e \in Drivers : DriverOK(e)'
  <2> SUFFICES ASSUME NEW e \in Drivers \ {i} PROVE DriverOK(e)'
    OBVIOUS
  <2>1. user'[e] = user[e] /\ app'[e] = app[e]
    BY DEF Accounts
  <2>2. DriverOK(e) /\ (e \in died => e \in died') /\ (e \in codeless => e \in codeless')
    BY DEF IInv
  <2>3. \A x \in Slots : At(x, "registerDriver") /\ req[x].driver = e =>
                         At(x, "registerDriver")' /\ req'[x].driver = e
    BY <1>1 DEF At
  <2> QED BY <2>1, <2>2, <2>3 DEF DriverOK, Present
<1> QED BY <1>4, <1>5, <1>7, <1>8, <1>9, <1>10 DEF IInv

(* A request in flight about driver d writes rows of d and moves on or      *)
(* ends; what is unraced fits before, and must fit after.                  *)
LEMMA RequestStep ==
  ASSUME IInv, NEW s \in Slots, NEW d \in Drivers, req[s].driver = d,
         NEW r \in Requests, r = Idle \/ (r.driver = d /\ r.pc # "registerDriver"),
         req' = [req EXCEPT ![s] = r],
         user' \in [Accounts -> Users], app' \in [Drivers -> Apps],
         \A j \in Accounts \ {d} : user'[j] = user[j],
         \A e \in Drivers \ {d} : app'[e] = app[e],
         trip' \subseteq trip, trip \ trip' \subseteq {d},
         lost' \subseteq Drivers, lost' \subseteq raced, UNCHANGED <<raced, stripped, died, codeless>>,
         user'[d].status = "DELETED" \/ app'[d].status # "NONE",
         PhoneOK(d)',
         Present(d)' => \A j \in Accounts \ {d} : user[j].phone # user'[d].phone,
         app'[d].status # "NONE" => Present(d)',
         app'[d].status = "APPROVED" /\ d \notin codeless =>
           app'[d].code # None /\ user'[d].status \in {"ACTIVE", "SUSPENDED"},
         app'[d].code # None => \A e \in Drivers \ {d} : app[e].code # app'[d].code,
         RequestOK(r)',
         d \notin raced /\ Sound(d) /\ Fits(req[s]) => Sound(d)' /\ Fits(r)'
  PROVE  IInv'
<1> USE NoneApart
<1>1. /\ req \in [Slots -> Requests] /\ \A x \in Slots : RequestOK(req[x])
      /\ \A x \in Slots : req'[x] = IF x = s THEN r ELSE req[x]
      /\ Idle.driver = None /\ Idle.pc = "idle" /\ Idle \in Requests
  BY DEF IInv, TablesTyped, RequestsOK, Idle, Requests, Labels
<1>2. TablesTyped' /\ TripNotLost'
  <2>1. req' \in [Slots -> Requests]
    BY <1>1
  <2> QED BY <2>1 DEF IInv, TablesTyped, TripNotLost
<1>3. DriverOK(d)'
  BY DEF DriverOK, Present
<1>4. ASSUME NEW x \in Slots, req'[x].driver = d
      PROVE  RequestOK(req[x])'
  <2>1. CASE x = s
    BY <1>1, <2>1
  <2>2. CASE x # s
    <3>1. req'[x] = req[x]
      BY <1>1, <2>2
    <3>2. req[x].pc \notin Driverless /\ RequestOK(req[x])
      BY <1>1, <1>4, <3>1 DEF RequestOK
    <3>3. user'[d].status # "NONE"
      BY DEF Present
    <3> QED BY <1>4, <3>1, <3>2, <3>3 DEF RequestOK
  <2> QED BY <2>1, <2>2
<1>5. \A x \in Slots :
        \/ req'[x] = req[x] /\ (req[x].driver = d => d = None)
        \/ {req[x].driver, req'[x].driver} \subseteq {d, None} /\ RequestOK(req[x])'
  <2> SUFFICES ASSUME NEW x \in Slots, req[x].driver = d \/ x = s
               PROVE  {req[x].driver, req'[x].driver} \subseteq {d, None} /\ RequestOK(req[x])'
    BY <1>1
  <2>1. CASE x = s
    BY <1>1, <2>1
  <2>2. CASE x # s
    BY <1>1, <1>4, <2>2
  <2> QED BY <2>1, <2>2
<1>7. ASSUME d \notin raced'
      PROVE  /\ Sound(d)'
             /\ \A x \in Slots : req'[x].driver = d => Fits(req[x])'
             /\ \A x, y \in Slots : req'[x].driver = d /\ req'[y].driver = d => x = y
  <2>1. /\ Sound(d) /\ Fits(req[s])
        /\ \A x \in Slots : req[x].driver = d => x = s
    BY <1>7 DEF IInv, Unraced
  <2>2. Sound(d)' /\ Fits(r)'
    BY <1>7, <2>1
  <2>3. \A x \in Slots : req'[x].driver = d => x = s /\ req'[s] = r
    BY <1>1, <2>1
  <2> QED BY <2>2, <2>3
<1> QED BY <1>2, <1>3, <1>5, <1>7, OneAccount DEF Accounts

(* The first statement of a request about driver d.                        *)
LEMMA BeginStep ==
  ASSUME IInv, NEW s \in Slots, NEW label \in Labels \ (Driverless \cup {"registerDriver"}),
         NEW d \in Drivers, NEW p \in Phones \cup {None}, NEW r \in BOOLEAN,
         Begin(s, label, d, p, r), app[d].status # "NONE",
         label \notin {"approve", "reactivate"}, label = "phone" => p \in Phones,
         Sound(d) =>
           Fits([pc |-> label, driver |-> d, phone |-> p, code |-> None, rejected |-> r])
  PROVE  IInv'
<1> USE NoneApart
<1> DEFINE q == [pc |-> label, driver |-> d, phone |-> p, code |-> None, rejected |-> r]
<1>1. /\ req[s].pc = "idle" /\ req' = [req EXCEPT ![s] = q]
      /\ raced' = raced \cup ({d} \cap {req[x].driver : x \in Slots} \cap Drivers)
      /\ UNCHANGED <<user, app, trip, stripped, died, lost, codeless>>
  BY DEF Begin, At, Goto, Contested
<1>2. q \in Requests /\ q.pc = label /\ q.driver = d /\ q.phone = p /\ q.code = None
  BY DEF Requests
<1>3. Sound(d) => Fits(q)
  OBVIOUS
<1> HIDE DEF q
<1>4. /\ req \in [Slots -> Requests] /\ \A x \in Slots : RequestOK(req[x])
      /\ \A x \in Slots : req'[x] = IF x = s THEN q ELSE req[x]
      /\ req[s].driver = None
  BY <1>1 DEF IInv, TablesTyped, RequestsOK, RequestOK, Driverless
<1>5. TablesTyped' /\ TripNotLost'
  <2>1. req' \in [Slots -> Requests]
    BY <1>1, <1>2, <1>4
  <2> QED BY <1>1, <2>1 DEF IInv, TablesTyped, TripNotLost
<1>6. \A c \in Requests : /\ RequestOK(c) <=> RequestOK(c)'
                          /\ Fits(c) <=> Fits(c)'
  BY <1>1 DEF RequestOK, Fits, Editable, Approvable
<1>7. RequestOK(q)'
  BY <1>1, <1>2 DEF RequestOK, Driverless, Phoned
<1>8. ASSUME NEW x \in Slots, req'[x].driver = d
      PROVE  RequestOK(req[x])'
  <2>1. req'[x] \in Requests /\ (x # s => RequestOK(req[x]) /\ req'[x] = req[x])
    BY <1>4, <1>2
  <2>2. CASE x = s
    BY <1>4, <1>7, <2>2
  <2>3. CASE x # s
    BY <1>1, <2>1, <2>3 DEF RequestOK
  <2> QED BY <2>2, <2>3
<1>9. DriverOK(d)' /\ PhoneOK(d)'
  <2>1. DriverOK(d) /\ PhoneOK(d)
    BY DEF IInv, Accounts
  <2> QED BY <1>1, <2>1 DEF DriverOK, PhoneOK, Present
<1>10. \A x \in Slots :
         \/ req'[x] = req[x] /\ (req[x].driver = d => d = None)
         \/ {req[x].driver, req'[x].driver} \subseteq {d, None} /\ RequestOK(req[x])'
  BY <1>2, <1>4, <1>8
<1>11. app'[d].code # None => \A e \in Drivers \ {d} : app[e].code # app'[d].code
  BY <1>1 DEF IInv, CodesDistinct
<1>12. ASSUME d \notin raced'
       PROVE  /\ Sound(d)'
              /\ \A x \in Slots : req'[x].driver = d => Fits(req[x])'
              /\ \A x, y \in Slots : req'[x].driver = d /\ req'[y].driver = d => x = y
  <2>1. Sound(d) /\ \A x \in Slots : req[x].driver # d
    BY <1>1, <1>12 DEF IInv, Unraced
  <2>2. Sound(d)' /\ Fits(q)'
    BY <1>1, <1>2, <1>3, <1>6, <2>1 DEF Sound
  <2>3. \A x \in Slots : req'[x].driver = d => x = s /\ req'[s] = q
    BY <1>4, <2>1
  <2> QED BY <2>2, <2>3
<1>13. Present(d)' => \A j \in Accounts \ {d} : user[j].phone # user'[d].phone
  BY <1>1 DEF IInv, PhonesDistinct, Present, Accounts
<1> QED BY <1>1, <1>5, <1>9, <1>10, <1>11, <1>12, <1>13, OneAccount DEF Accounts

(* Every endpoint's first read finds what its writes take for granted.      *)
LEMMA BeginsStep ==
  ASSUME IInv, NEW s \in Slots,
         \/ UpdatePhone(s) \/ PatchProfile(s) \/ SubmitForReview(s) \/ AddDocument(s)
         \/ ApproveDriver(s) \/ RejectDriver(s) \/ SetDriverUnderReview(s) \/ DeleteDriverAccount(s)
  PROVE  IInv'
<1>1. CASE UpdatePhone(s)
  <2>1. PICK d \in Drivers, p \in Phones : IsDriver(d) /\ Begin(s, "phone", d, p, FALSE)
    BY <1>1 DEF UpdatePhone
  <2>2. Fits([pc |-> "phone", driver |-> d, phone |-> p, code |-> None, rejected |-> FALSE])
    BY DEF Fits
  <2>3. PICK label \in Labels \ (Driverless \cup {"registerDriver", "approve", "reactivate"}) :
          label = "phone"
    BY DEF Labels, Driverless
  <2>4. app[d].status # "NONE" /\ p \in Phones \cup {None} /\ FALSE \in BOOLEAN
    BY <2>1 DEF IsDriver
  <2> QED BY <2>1, <2>2, <2>3, <2>4, BeginStep
<1>2. ASSUME NEW d \in Drivers, IsDriver(d),
             NEW label \in Labels \ (Driverless \cup {"registerDriver", "approve", "reactivate", "phone"}),
             NEW r \in BOOLEAN, Begin(s, label, d, None, r),
             Fits([pc |-> label, driver |-> d, phone |-> None, code |-> None, rejected |-> r])
      PROVE  IInv'
  BY <1>2, BeginStep DEF IsDriver
<1> USE DEF Labels, Driverless, Fits
<1>3. CASE PatchProfile(s)
  <2>1. PICK d \in Drivers, r \in BOOLEAN :
          /\ IsDriver(d) /\ Editable(d) /\ r = (app[d].status = "REJECTED")
          /\ Begin(s, "patch", d, None, r)
    BY <1>3, Zenon DEF PatchProfile
  <2>2. app[d].status = IF r THEN "REJECTED" ELSE "DRAFT"
    BY <2>1 DEF Editable
  <2>3. Fits([pc |-> "patch", driver |-> d, phone |-> None, code |-> None, rejected |-> r])
    BY <2>2
  <2> QED BY <1>2, <2>1, <2>3
<1>4. CASE SubmitForReview(s)
  BY <1>2, <1>4 DEF SubmitForReview, Submittable
<1>5. CASE AddDocument(s)
  BY <1>2, <1>5 DEF AddDocument
<1>6. CASE ApproveDriver(s)
  BY <1>2, <1>6 DEF ApproveDriver
<1>7. CASE RejectDriver(s)
  <2>1. \A d \in Drivers : IsDriver(d) /\ Rejectable(d) =>
          app[d].status \in {"DRAFT", "SUBMITTED", "UNDER_REVIEW", "REJECTED"}
    BY DEF IInv, TablesTyped, Apps, Onboarding, Rejectable, IsDriver
  <2> QED BY <1>2, <1>7, <2>1 DEF RejectDriver
<1>8. CASE SetDriverUnderReview(s)
  BY <1>2, <1>8 DEF SetDriverUnderReview
<1>9. CASE DeleteDriverAccount(s)
  BY <1>2, <1>9 DEF DeleteDriverAccount, Deletable
<1> QED BY <1>1, <1>3, <1>4, <1>5, <1>6, <1>7, <1>8, <1>9

-----------------------------------------------------------------------------
(* Statements of requests about a driver.                                  *)

LEMMA IdleRequest ==
  ASSUME IInv
  PROVE  Idle \in Requests /\ RequestOK(Idle)' /\ Fits(Idle)' /\ Idle.driver = None /\ Idle.pc = "idle"
BY DEF Idle, Requests, Labels, RequestOK, Fits, Driverless, Phoned

(* What a request about a driver knows when its next statement runs.        *)
LEMMA Working ==
  ASSUME IInv, NEW s \in Slots, req[s].pc \notin Driverless
  PROVE  /\ req[s].driver \in Drivers /\ req[s] \in Requests /\ RequestOK(req[s])
         /\ DriverOK(req[s].driver) /\ PhoneOK(req[s].driver)
         /\ user \in [Accounts -> Users] /\ app \in [Drivers -> Apps] /\ req \in [Slots -> Requests]
         /\ user[req[s].driver] \in Users /\ app[req[s].driver] \in Apps
         /\ lost \subseteq Drivers /\ lost \subseteq raced
BY DEF IInv, TablesTyped, RequestsOK, RequestOK, TripNotLost, Accounts

(* A statement that writes nothing, and one that writes the driver's row    *)
(* of a driver that is there.                                              *)
LEMMA SilentStatement ==
  ASSUME IInv, NEW s \in Slots, req[s].pc \notin Driverless,
         req[s].pc = "registerDriver" => ~Registrable(req[s].driver),
         NEW r \in Requests, r = Idle \/ (r.driver = req[s].driver /\ r.pc # "registerDriver"),
         Goto(s, r), UNCHANGED <<user, app, trip, raced, stripped, died, lost, codeless>>,
         RequestOK(r)', Fits(req[s]) => Fits(r)'
  PROVE  IInv'
<1>1. PICK d \in Drivers : d = req[s].driver
  BY Working
<1>2. /\ DriverOK(d) /\ PhoneOK(d) /\ RequestOK(req[s])
      /\ user \in [Accounts -> Users] /\ app \in [Drivers -> Apps]
      /\ lost \subseteq Drivers /\ lost \subseteq raced
  BY <1>1, Working
<1>3. user[d].status = "DELETED" \/ app[d].status # "NONE"
  BY <1>1, <1>2 DEF RequestOK, Registrable, Present
<1>4. PhoneOK(d)' /\ (Sound(d) => Sound(d)') /\ Present(d)' = Present(d)
  BY <1>2 DEF PhoneOK, Sound, Present
<1>5. /\ Present(d) => \A j \in Accounts \ {d} : user[j].phone # user[d].phone
      /\ app[d].code # None => \A e \in Drivers \ {d} : app[e].code # app[d].code
  BY DEF IInv, PhonesDistinct, CodesDistinct, Accounts
<1> QED BY <1>1, <1>2, <1>3, <1>4, <1>5, RequestStep DEF Goto, DriverOK

LEMMA DriverStatement ==
  ASSUME IInv, NEW s \in Slots, NEW d \in Drivers, d = req[s].driver, Present(d),
         NEW r \in Requests, r = Idle \/ (r.driver = req[s].driver /\ r.pc # "registerDriver"),
         Goto(s, r), NEW a \in Apps, app' = [app EXCEPT ![d] = a], a.status # "NONE",
         a.code = app[d].code,
         a.status = "APPROVED" => app[d].status = "APPROVED",
         UNCHANGED <<user, trip, raced, stripped, died, lost, codeless>>,
         RequestOK(r)', d \notin raced /\ Sound(d) /\ Fits(req[s]) => Sound(d)' /\ Fits(r)'
  PROVE  IInv'
<1> USE NoneApart
<1>1. req[s].pc \notin Driverless
  BY DEF IInv, RequestsOK, RequestOK
<1>2. /\ PhoneOK(d) /\ DriverOK(d)
      /\ user \in [Accounts -> Users] /\ app \in [Drivers -> Apps]
      /\ lost \subseteq Drivers /\ lost \subseteq raced
  BY <1>1, Working
<1>3. app' \in [Drivers -> Apps] /\ app'[d] = a /\ \A e \in Drivers \ {d} : app'[e] = app[e]
  BY <1>2
<1>4. PhoneOK(d)' /\ Present(d)'
  BY <1>2 DEF PhoneOK, Present
<1>5. /\ \A j \in Accounts \ {d} : user[j].phone # user[d].phone
      /\ app[d].code # None => \A e \in Drivers \ {d} : app[e].code # app[d].code
  BY DEF IInv, PhonesDistinct, CodesDistinct, Accounts
<1>6. app'[d].status = "APPROVED" /\ d \notin codeless =>
        app'[d].code # None /\ user'[d].status \in {"ACTIVE", "SUSPENDED"}
  BY <1>2, <1>3 DEF DriverOK
<1>7. app'[d].code # None => \A e \in Drivers \ {d} : app[e].code # app'[d].code
  BY <1>3, <1>5
<1>8. \A j \in Accounts \ {d} : user'[j] = user[j] /\ user[j].phone # user'[d].phone
  BY <1>5
<1>9. app'[d].status # "NONE"
  BY <1>3
<1> QED BY <1>2, <1>3, <1>4, <1>6, <1>7, <1>8, <1>9, RequestStep DEF Goto

(* A request goes on to its next statement.                                *)
LEMMA MovedOn ==
  ASSUME IInv, NEW s \in Slots, NEW label \in Labels, Step(s, label)
  PROVE  \E r \in Requests : /\ r.pc = label /\ r.driver = req[s].driver /\ r.phone = req[s].phone
                             /\ r.code = req[s].code /\ r.rejected = req[s].rejected
                             /\ Goto(s, r)
<1> DEFINE r == [req[s] EXCEPT !.pc = label]
<1>1. req[s] \in Requests
  BY DEF IInv, TablesTyped
<1>2. /\ r \in Requests /\ r.pc = label /\ r.driver = req[s].driver /\ r.phone = req[s].phone
      /\ r.code = req[s].code /\ r.rejected = req[s].rejected
  BY <1>1 DEF Requests
<1> QED BY <1>2 DEF Step

LEMMA RegisterDriverStep ==
  ASSUME IInv, NEW s \in Slots, RegisterDriver(s)
  PROVE  IInv'
<1>1. PICK d \in Drivers : /\ d = req[s].driver /\ req[s].pc = "registerDriver"
                           /\ RequestOK(req[s]) /\ app[d] \in Apps
  BY Working DEF RegisterDriver, At, Driverless
<1>2. Goto(s, Idle) /\ UNCHANGED <<user, trip, raced, stripped, died, lost, codeless>>
  BY DEF RegisterDriver, Finish
<1>3. CASE ~Registrable(d)
  BY <1>1, <1>2, <1>3, IdleRequest, SilentStatement DEF RegisterDriver, Driverless
<1>4. CASE Registrable(d)
  <2>1. PICK a \in Apps : app' = [app EXCEPT ![d] = a] /\ a.status = "DRAFT" /\ a.code = app[d].code
    <3> DEFINE a == [app[d] EXCEPT !.status = "DRAFT"]
    <3>1. a \in Apps /\ a.status = "DRAFT" /\ a.code = app[d].code
      BY <1>1 DEF Apps, Onboarding
    <3>2. app' = [app EXCEPT ![d] = a]
      BY <1>1, <1>4 DEF RegisterDriver
    <3> QED BY <3>1, <3>2
  <2>2. app'[d] = a
    BY <2>1, <1>1, Working DEF Driverless
  <2>3. user[d].status = "PENDING_VERIFICATION"
    BY <1>1, <1>4 DEF RequestOK, Registrable, Present
  <2>4. Sound(d)'
    BY <1>2, <2>1, <2>2, <2>3 DEF Sound
  <2> QED BY <1>1, <1>2, <1>4, <2>1, <2>4, IdleRequest, DriverStatement DEF Registrable
<1> QED BY <1>3, <1>4

LEMMA UpdatePhoneWriteStep ==
  ASSUME IInv, NEW s \in Slots, UpdatePhoneWrite(s)
  PROVE  IInv'
<1> USE NoneApart
<1>1. PICK d \in Drivers : /\ d = req[s].driver /\ req[s].pc = "phone" /\ req[s].phone \in Phones
                           /\ DriverOK(d) /\ RequestOK(req[s])
  BY Working DEF UpdatePhoneWrite, At, Driverless, RequestOK, Phoned
<1>2. Goto(s, Idle) /\ UNCHANGED <<app, trip, raced, stripped, died, lost, codeless>>
  BY DEF UpdatePhoneWrite, Finish
<1>3. CASE UNCHANGED user
  BY <1>1, <1>2, <1>3, IdleRequest, SilentStatement DEF Driverless
<1>4. CASE Present(d) /\ PhoneFree(req[s].phone, d) /\ user' = [user EXCEPT ![d].phone = req[s].phone]
  <2>1. /\ user \in [Accounts -> Users] /\ app \in [Drivers -> Apps] /\ d \in Accounts
        /\ lost \subseteq Drivers /\ lost \subseteq raced
    BY <1>1, Working DEF Driverless, Accounts
  <2>2. PICK u \in Users : user' = [user EXCEPT ![d] = u] /\ u.status = user[d].status /\ u.phone = req[s].phone
    <3> DEFINE u == [user[d] EXCEPT !.phone = req[s].phone]
    <3>1. u \in Users /\ u.status = user[d].status /\ u.phone = req[s].phone
      BY <1>1, <2>1 DEF Users
    <3>2. user' = [user EXCEPT ![d] = u]
      BY <1>4
    <3> QED BY <3>1, <3>2
  <2>3. user' \in [Accounts -> Users] /\ user'[d] = u /\ \A j \in Accounts \ {d} : user'[j] = user[j]
    BY <2>1, <2>2
  <2>4. Present(d)' /\ PhoneOK(d)' /\ (Sound(d) => Sound(d)')
    BY <1>1, <1>2, <1>4, <2>2, <2>3 DEF Present, PhoneOK, Sound
  <2>5. \A j \in Accounts \ {d} : user[j].phone # user'[d].phone
    BY <1>4, <2>2, <2>3 DEF PhoneFree
  <2>6. app[d].status # "NONE"
    BY <1>1, <1>4 DEF RequestOK, Driverless, Present
  <2>7. /\ app'[d].status = "APPROVED" /\ d \notin codeless =>
             app'[d].code # None /\ user'[d].status \in {"ACTIVE", "SUSPENDED"}
        /\ app'[d].code # None => \A e \in Drivers \ {d} : app[e].code # app'[d].code
    BY <1>1, <1>2, <2>2, <2>3 DEF DriverOK, IInv, CodesDistinct
  <2> QED BY <1>1, <1>2, <2>1, <2>3, <2>4, <2>5, <2>6, <2>7, IdleRequest, RequestStep DEF Goto
<1> QED BY <1>1, <1>3, <1>4 DEF UpdatePhoneWrite

LEMMA PatchWriteStep ==
  ASSUME IInv, NEW s \in Slots, PatchWrite(s)
  PROVE  IInv'
<1>1. PICK d \in Drivers : /\ d = req[s].driver /\ req[s].pc = "patch" /\ req[s] \in Requests
                           /\ app[d] \in Apps /\ DriverOK(d) /\ RequestOK(req[s])
  BY Working DEF PatchWrite, At, Driverless
<1>2. UNCHANGED <<user, trip, raced, stripped, died, lost, codeless>>
  BY DEF PatchWrite
<1>3. CASE Finish(s) /\ UNCHANGED app
  BY <1>1, <1>2, <1>3, IdleRequest, SilentStatement DEF Driverless, Finish
<1>4. ASSUME IsDriver(d), NEW data \in {{}, {"data"}}, Finish(s) \/ Step(s, "patchVehicle"),
             app' = [app EXCEPT ![d].parts = (@ \ {"data"}) \cup data,
                                ![d].status = IF req[s].rejected THEN "DRAFT" ELSE @]
      PROVE  IInv'
  <2>1. PICK r \in Requests :
          Goto(s, r) /\ (r = Idle \/ (r.driver = d /\ r.pc = "patchVehicle" /\ r.code = req[s].code))
    <3>1. CASE Finish(s)
      <4>1. Idle \in Requests /\ Goto(s, Idle)
        BY <3>1, IdleRequest DEF Finish
      <4> QED BY <4>1
    <3>2. CASE Step(s, "patchVehicle")
      BY <1>1, <3>2, MovedOn DEF Labels
    <3> QED BY <1>4, <3>1, <3>2
  <2>2. PICK a \in Apps : /\ app' = [app EXCEPT ![d] = a] /\ a.code = app[d].code
                          /\ a.status = IF req[s].rejected THEN "DRAFT" ELSE app[d].status
    <3> DEFINE b  == [app[d] EXCEPT !.parts = (@ \ {"data"}) \cup data]
               st == IF req[s].rejected THEN "DRAFT" ELSE app[d].status
               a  == [b EXCEPT !.status = st]
               f  == [app EXCEPT ![d] = b]
    <3>1. b \in Apps /\ b.status = app[d].status /\ b.code = app[d].code /\ app \in [Drivers -> Apps]
      BY <1>1, Working DEF Apps, Parts, Driverless
    <3>2. a \in Apps /\ a.status = st /\ a.code = app[d].code
      BY <1>1, <3>1 DEF Apps, Onboarding
    <3>3. f \in [Drivers -> Apps] /\ f[d] = b /\ \A e \in Drivers \ {d} : f[e] = app[e]
      BY <3>1
    <3>4. app' = [f EXCEPT ![d] = a]
      BY <1>4, <3>1, <3>3
    <3> HIDE DEF a, b, f
    <3>5. /\ \A e \in Drivers : app'[e] = IF e = d THEN a ELSE app[e]
          /\ app' = [e \in Drivers |-> app'[e]]
      BY <3>2, <3>3, <3>4
    <3>6. app' = [app EXCEPT ![d] = a]
      BY <3>1, <3>2, <3>5
    <3> QED BY <3>2, <3>6
  <2>3. app'[d] = a
    BY <2>2, <1>1, Working DEF Driverless
  <2>4. a.status # "NONE" /\ Present(d)
    BY <1>4, <2>2 DEF IsDriver
  <2>5. a.status = "APPROVED" => app[d].status = "APPROVED"
    BY <2>2
  <2>6. RequestOK(r)'
    BY <2>1, <2>3, <2>4, IdleRequest DEF RequestOK, Driverless, Phoned
  <2>7. Sound(d) /\ Fits(req[s]) => Sound(d)' /\ Fits(r)'
    <3>1. Fits(req[s]) => a.status = "DRAFT"
      BY <1>1, <2>2 DEF Fits
    <3>2. Fits(req[s]) /\ Sound(d) => user[d].status # "ACTIVE"
      BY <1>1 DEF Fits, Sound
    <3> QED BY <1>2, <2>1, <2>3, <3>1, <3>2, IdleRequest DEF Sound, Fits
  <2> QED BY <1>1, <1>2, <2>1, <2>2, <2>4, <2>5, <2>6, <2>7, DriverStatement
<1> QED BY <1>1, <1>3, <1>4 DEF PatchWrite

LEMMA PartAddedStep ==
  ASSUME IInv, NEW s \in Slots, PatchVehicle(s) \/ AddDocumentWrite(s)
  PROVE  IInv'
<1>1. PICK d \in Drivers : /\ d = req[s].driver /\ req[s].pc \in {"patchVehicle", "document"}
                           /\ app[d] \in Apps /\ DriverOK(d) /\ RequestOK(req[s])
  BY Working DEF PatchVehicle, AddDocumentWrite, At, Driverless
<1>2. Goto(s, Idle) /\ UNCHANGED <<user, trip, raced, stripped, died, lost, codeless>>
  BY DEF PatchVehicle, AddDocumentWrite, Finish
<1>3. CASE UNCHANGED app
  BY <1>1, <1>2, <1>3, IdleRequest, SilentStatement DEF Driverless
<1>4. ASSUME IsDriver(d), NEW part \in Parts, app' = [app EXCEPT ![d].parts = @ \cup {part}]
      PROVE  IInv'
  <2>1. PICK a \in Apps : /\ app' = [app EXCEPT ![d] = a] /\ a.code = app[d].code
                          /\ a.status = app[d].status
    <3> DEFINE a == [app[d] EXCEPT !.parts = @ \cup {part}]
    <3>1. a \in Apps /\ a.code = app[d].code /\ a.status = app[d].status
      BY <1>1 DEF Apps
    <3>2. app' = [app EXCEPT ![d] = a]
      BY <1>4
    <3> QED BY <3>1, <3>2
  <2>2. app'[d] = a
    BY <2>1, <1>1, Working DEF Driverless
  <2>3. a.status # "NONE" /\ Present(d)
    BY <1>1, <1>4, <2>1 DEF IsDriver
  <2>4. Fits(req[s]) => a.status \in {"DRAFT", "REJECTED"}
    BY <1>1, <2>1 DEF Fits, Editable
  <2>5. Sound(d) /\ Fits(req[s]) => Sound(d)'
    BY <1>2, <2>1, <2>2, <2>4 DEF Sound
  <2> QED BY <1>1, <1>2, <2>1, <2>3, <2>5, IdleRequest, DriverStatement
<1>5. "vehicle" \in Parts /\ "documents" \in Parts
  BY DEF Parts
<1> QED BY <1>1, <1>3, <1>4, <1>5 DEF PatchVehicle, AddDocumentWrite

LEMMA SubmitDocumentsStep ==
  ASSUME IInv, NEW s \in Slots, SubmitDocuments(s)
  PROVE  IInv'
<1>1. PICK d \in Drivers : /\ d = req[s].driver /\ req[s].pc = "submitDocuments" /\ RequestOK(req[s])
  BY Working DEF SubmitDocuments, At, Driverless
<1>2. UNCHANGED <<user, app, trip, raced, stripped, died, lost, codeless>>
  BY DEF SubmitDocuments
<1>3. CASE Finish(s)
  BY <1>1, <1>2, <1>3, IdleRequest, SilentStatement DEF Driverless, Finish
<1>4. CASE "documents" \in app[d].parts /\ Step(s, "submit")
  <2>1. PICK r \in Requests : Goto(s, r) /\ r.driver = d /\ r.pc = "submit"
    BY <1>1, <1>4, MovedOn DEF Labels
  <2>2. RequestOK(r)'
    BY <1>1, <1>2, <2>1 DEF RequestOK, Driverless, Phoned
  <2>3. Fits(req[s]) => Fits(r)'
    BY <1>1, <1>2, <1>4, <2>1 DEF Fits
  <2> QED BY <1>1, <1>2, <2>1, <2>2, <2>3, SilentStatement DEF Driverless
<1> QED BY <1>1, <1>3, <1>4 DEF SubmitDocuments

LEMMA WriteStatusStep ==
  ASSUME IInv, NEW s \in Slots, WriteStatus(s)
  PROVE  IInv'
<1>1. PICK d \in Drivers, to \in {"SUBMITTED", "UNDER_REVIEW", "REJECTED"} :
        /\ d = req[s].driver /\ req[s].pc \in {"submit", "UNDER_REVIEW", "REJECTED"}
        /\ to = IF req[s].pc = "submit" THEN "SUBMITTED" ELSE req[s].pc
        /\ app[d] \in Apps /\ DriverOK(d) /\ RequestOK(req[s])
  BY Working DEF WriteStatus, At, Driverless
<1>2. Goto(s, Idle) /\ UNCHANGED <<user, trip, raced, stripped, died, lost, codeless>>
  BY DEF WriteStatus, Finish
<1>3. CASE UNCHANGED app
  BY <1>1, <1>2, <1>3, IdleRequest, SilentStatement DEF Driverless
<1>4. CASE IsDriver(d) /\ app' = [app EXCEPT ![d].status = to]
  <2>1. PICK a \in Apps : /\ app' = [app EXCEPT ![d] = a] /\ a.status = to /\ a.parts = app[d].parts
                          /\ a.code = app[d].code
    <3> DEFINE a == [app[d] EXCEPT !.status = to]
    <3>1. a \in Apps /\ a.status = to /\ a.parts = app[d].parts /\ a.code = app[d].code
      BY <1>1 DEF Apps, Onboarding
    <3>2. app' = [app EXCEPT ![d] = a]
      BY <1>4
    <3> QED BY <3>1, <3>2
  <2>2. app'[d] = a
    BY <2>1, <1>1, Working DEF Driverless
  <2>3. Sound(d) /\ Fits(req[s]) => Sound(d)'
    <3>1. Sound(d) /\ Fits(req[s]) => user[d].status # "ACTIVE"
      BY <1>1 DEF Sound, Fits
    <3>2. Sound(d) /\ Fits(req[s]) /\ d \notin stripped /\ to # "REJECTED" => app[d].parts = Parts
      <4>1. CASE req[s].pc = "submit"
        BY <1>1, <4>1 DEF Fits, Apps, Parts
      <4>2. CASE req[s].pc = "UNDER_REVIEW"
        BY <1>1, <4>2 DEF Fits, Sound
      <4> QED BY <1>1, <4>1, <4>2
    <3> QED BY <1>2, <2>1, <2>2, <3>1, <3>2 DEF Sound
  <2>4. Present(d) /\ a.status \notin {"NONE", "APPROVED"}
    BY <1>1, <1>4, <2>1 DEF IsDriver
  <2> QED BY <1>1, <1>2, <2>1, <2>3, <2>4, IdleRequest, DriverStatement
<1> QED BY <1>1, <1>3, <1>4 DEF WriteStatus, At

LEMMA DriverCodeStep ==
  ASSUME IInv, NEW s \in Slots,
         \/ NextActivationCode(s, "approveCode", "approve")
         \/ NextActivationCode(s, "reactivateCode", "reactivate")
  PROVE  IInv'
<1>1. PICK d \in Drivers, to \in {"approve", "reactivate"} :
        /\ d = req[s].driver /\ req[s].pc = IF to = "approve" THEN "approveCode" ELSE "reactivateCode"
        /\ req[s] \in Requests /\ RequestOK(req[s]) /\ NextActivationCode(s, req[s].pc, to)
  BY Working DEF NextActivationCode, At, Driverless
<1>2. PICK c \in Codes : Goto(s, [req[s] EXCEPT !.pc = to, !.code = c])
  BY <1>1 DEF NextActivationCode, FreeCodes
<1>3. UNCHANGED <<user, app, trip, raced, stripped, died, lost, codeless>>
  BY <1>1 DEF NextActivationCode
<1>4. PICK r \in Requests : Goto(s, r) /\ r.driver = d /\ r.pc = to /\ r.code = c
  <2> DEFINE r == [req[s] EXCEPT !.pc = to, !.code = c]
  <2>1. r \in Requests /\ r.driver = d /\ r.pc = to /\ r.code = c
    BY <1>1 DEF Requests, Labels
  <2> QED BY <1>2, <2>1
<1>5. RequestOK(r)'
  BY <1>1, <1>3, <1>4, NoneAssumption DEF RequestOK, Driverless, Phoned
<1>6. Fits(req[s]) => Fits(r)'
  BY <1>1, <1>3, <1>4 DEF Fits, Approvable
<1> QED BY <1>1, <1>3, <1>4, <1>5, <1>6, SilentStatement DEF Driverless

LEMMA ApproveCommitStep ==
  ASSUME IInv, NEW s \in Slots, ApproveCommit(s)
  PROVE  IInv'
<1> USE NoneApart
<1>1. PICK d \in Drivers :
        /\ d = req[s].driver /\ req[s].pc \in {"approve", "reactivate"}
        /\ req[s] \in Requests /\ req[s].code # None /\ RequestOK(req[s])
        /\ app[d] \in Apps /\ user[d] \in Users /\ DriverOK(d) /\ PhoneOK(d)
  BY Working DEF ApproveCommit, At, Driverless, RequestOK
<1>2. Goto(s, Idle) /\ UNCHANGED <<trip, raced, stripped, died, lost, codeless>>
  BY DEF ApproveCommit, Finish
<1>3. CASE UNCHANGED <<user, app>>
  BY <1>1, <1>2, <1>3, IdleRequest, SilentStatement DEF Driverless
<1>4. CASE /\ IsDriver(d) /\ req[s].code \notin TakenCodes
           /\ user' = [user EXCEPT ![d].status = "ACTIVE"]
           /\ app' = [app EXCEPT ![d] = IF At(s, "approve") THEN WithCode(d, req[s].code)
                                                           ELSE [@ EXCEPT !.code = req[s].code]]
  <2>1. /\ user \in [Accounts -> Users] /\ app \in [Drivers -> Apps] /\ d \in Accounts
        /\ lost \subseteq Drivers /\ lost \subseteq raced
    BY <1>1, Working DEF Driverless, Accounts
  <2>2. PICK u \in Users : user' = [user EXCEPT ![d] = u] /\ u.status = "ACTIVE" /\ u.phone = user[d].phone
    <3> DEFINE u == [user[d] EXCEPT !.status = "ACTIVE"]
    <3>1. u \in Users /\ u.status = "ACTIVE" /\ u.phone = user[d].phone
      BY <1>1, <2>1 DEF Users, Status
    <3>2. user' = [user EXCEPT ![d] = u]
      BY <1>4
    <3> QED BY <3>1, <3>2
  <2>3. PICK a \in Apps : /\ app' = [app EXCEPT ![d] = a] /\ a.code = req[s].code
                          /\ a.status = IF req[s].pc = "approve" THEN "APPROVED" ELSE app[d].status
    <3>1. CASE req[s].pc = "approve"
      <4> DEFINE a == [app[d] EXCEPT !.status = "APPROVED", !.code = req[s].code]
      <4>1. a \in Apps /\ a.code = req[s].code /\ a.status = "APPROVED"
        BY <1>1 DEF Apps, Onboarding, Requests
      <4>2. app' = [app EXCEPT ![d] = a]
        BY <1>4, <3>1 DEF At, WithCode
      <4> QED BY <3>1, <4>1, <4>2
    <3>2. CASE req[s].pc # "approve"
      <4> DEFINE a == [app[d] EXCEPT !.code = req[s].code]
      <4>1. a \in Apps /\ a.code = req[s].code /\ a.status = app[d].status
        BY <1>1 DEF Apps, Onboarding, Requests
      <4>2. app' = [app EXCEPT ![d] = a]
        BY <1>4, <3>2 DEF At
      <4> QED BY <3>2, <4>1, <4>2
    <3> QED BY <3>1, <3>2
  <2>4. /\ user' \in [Accounts -> Users] /\ user'[d] = u /\ \A j \in Accounts \ {d} : user'[j] = user[j]
        /\ app' \in [Drivers -> Apps] /\ app'[d] = a /\ \A e \in Drivers \ {d} : app'[e] = app[e]
    BY <2>1, <2>2, <2>3
  <2>5. Present(d)' /\ PhoneOK(d)'
    BY <1>1, <1>4, <2>2, <2>4 DEF Present, PhoneOK, IsDriver
  <2>6. \A j \in Accounts \ {d} : user[j].phone # user'[d].phone
    BY <1>4, <2>1, <2>2, <2>4 DEF IInv, PhonesDistinct, IsDriver
  <2>7. /\ app'[d].status # "NONE"
        /\ app'[d].code # None /\ user'[d].status \in {"ACTIVE", "SUSPENDED"}
        /\ \A e \in Drivers \ {d} : app[e].code # app'[d].code
    BY <1>1, <1>4, <2>2, <2>3, <2>4 DEF IsDriver, TakenCodes
  <2>8. Fits(req[s]) => Sound(d)'
    BY <1>1, <2>3, <2>4 DEF Fits, Sound
  <2> QED BY <1>1, <1>2, <2>1, <2>4, <2>5, <2>6, <2>7, <2>8, IdleRequest, RequestStep DEF Goto
<1> QED BY <1>1, <1>3, <1>4 DEF ApproveCommit

LEMMA DeleteCommitStep ==
  ASSUME IInv, NEW s \in Slots, DeleteCommit(s)
  PROVE  IInv'
<1> USE NoneApart
<1>1. PICK d \in Drivers : /\ d = req[s].driver /\ req[s].pc = "delete" /\ d \in Accounts
                           /\ user \in [Accounts -> Users] /\ app \in [Drivers -> Apps]
                           /\ lost \subseteq Drivers /\ lost \subseteq raced
  BY Working DEF DeleteCommit, At, Driverless, Accounts
<1>2. /\ Goto(s, Idle) /\ UNCHANGED <<raced, stripped, died, codeless>>
      /\ trip' = trip \ {d} /\ lost' = lost \cup (trip \cap {d})
  BY <1>1 DEF DeleteCommit, Finish
<1> DEFINE u == [status |-> "DELETED", phone |-> None]
<1>3. /\ u \in Users /\ u.status = "DELETED" /\ u.phone = None
      /\ NoApp \in Apps /\ NoApp.status = "NONE" /\ NoApp.code = None
  BY DEF Users, Status, NoApp, Apps, Onboarding
<1>4. user' = [user EXCEPT ![d] = u] /\ app' = [app EXCEPT ![d] = NoApp]
  BY <1>1 DEF DeleteCommit
<1> HIDE DEF u
<1>5. /\ user' \in [Accounts -> Users] /\ user'[d] = u /\ \A j \in Accounts \ {d} : user'[j] = user[j]
      /\ app' \in [Drivers -> Apps] /\ app'[d] = NoApp /\ \A e \in Drivers \ {d} : app'[e] = app[e]
  BY <1>1, <1>3, <1>4
<1>6. ~Present(d)' /\ PhoneOK(d)' /\ Sound(d)'
  BY <1>3, <1>5 DEF Present, PhoneOK, Sound
<1>7. d \in trip => d \in raced
  BY <1>1 DEF IInv, Unraced, Fits
<1>8. lost' \subseteq Drivers /\ lost' \subseteq raced
  BY <1>1, <1>2, <1>7
<1> QED BY <1>1, <1>2, <1>3, <1>5, <1>6, <1>8, IdleRequest, RequestStep DEF Goto

-----------------------------------------------------------------------------
(* Administrators and trips: a driver's rows change under the requests.     *)

(* Rows of a driver that is there change; requests under way still fit.     *)
LEMMA UnderRequests ==
  ASSUME IInv, NEW d \in Drivers, IsDriver(d), UNCHANGED <<req, died, lost, codeless>>,
         user' \in [Accounts -> Users], app' \in [Drivers -> Apps],
         \A j \in Accounts \ {d} : user'[j] = user[j],
         \A e \in Drivers \ {d} : app'[e] = app[e],
         Present(d)', user'[d].phone = user[d].phone,
         app'[d].status = app[d].status, app'[d].code = app[d].code,
         app[d].status = "APPROVED" /\ d \notin codeless => user'[d].status \in {"ACTIVE", "SUSPENDED"},
         trip' \subseteq Drivers, trip' \ trip \subseteq {d}, raced' \subseteq Drivers,
         raced \subseteq raced', stripped' \subseteq Drivers,
         stripped \subseteq stripped', stripped' \ stripped \subseteq {d},
         d \notin raced' => /\ Sound(d) => Sound(d)'
                            /\ \A x \in Slots : req[x].driver = d /\ Fits(req[x]) => Fits(req[x])'
  PROVE  IInv'
<1> USE NoneApart
<1>1. TablesTyped' /\ TripNotLost'
  BY DEF IInv, TablesTyped, TripNotLost
<1>2. PhoneOK(d) /\ DriverOK(d) /\ Present(d) /\ app[d].status # "NONE"
  BY DEF IInv, Accounts, IsDriver
<1>3. PhoneOK(d)' /\ DriverOK(d)'
  BY <1>2 DEF PhoneOK, DriverOK
<1>4. \A j \in Accounts \ {d} : user[j].phone # user'[d].phone
  BY <1>2 DEF IInv, PhonesDistinct, Accounts
<1>5. \A x \in Slots : req[x].driver = d => RequestOK(req[x])'
  BY <1>2 DEF IInv, RequestsOK, RequestOK, Present
<1>6. app'[d].code # None => \A e \in Drivers \ {d} : app[e].code # app'[d].code
  BY DEF IInv, CodesDistinct
<1>7. d \notin raced' =>
        /\ Sound(d)'
        /\ \A x \in Slots : req'[x].driver = d => Fits(req[x])'
        /\ \A x, y \in Slots : req'[x].driver = d /\ req'[y].driver = d => x = y
  BY DEF IInv, Unraced
<1>8. \A x \in Slots :
        \/ req'[x] = req[x] /\ (req[x].driver = d => d = None)
        \/ {req[x].driver, req'[x].driver} \subseteq {d, None} /\ RequestOK(req[x])'
  BY <1>5
<1> QED BY <1>1, <1>3, <1>4, <1>6, <1>7, <1>8, OneAccount DEF Accounts

LEMMA AdminPartStep ==
  ASSUME IInv, NEW d \in Drivers, NEW part \in {"vehicle", "documents"},
         AdminAddPart(d, part) \/ AdminRemovePart(d, part)
  PROVE  IInv'
<1>1. /\ user \in [Accounts -> Users] /\ app \in [Drivers -> Apps] /\ app[d] \in Apps
      /\ trip \subseteq Drivers /\ raced \subseteq Drivers /\ stripped \subseteq Drivers
  BY DEF IInv, TablesTyped
<1>2. IsDriver(d) /\ UNCHANGED <<user, trip, req, raced, died, lost, codeless>>
  BY DEF AdminAddPart, AdminRemovePart
<1>3. PICK parts \in SUBSET Parts :
        /\ app' = [app EXCEPT ![d].parts = parts]
        /\ \/ app[d].parts \subseteq parts /\ stripped' = stripped
           \/ stripped' = stripped \cup {d}
  <2>1. CASE AdminAddPart(d, part)
    <3>1. app[d].parts \cup {part} \in SUBSET Parts
      BY <1>1 DEF Apps, Parts
    <3> QED BY <2>1, <3>1 DEF AdminAddPart
  <2>2. CASE AdminRemovePart(d, part)
    <3>1. app[d].parts \ {part} \in SUBSET Parts
      BY <1>1 DEF Apps
    <3> QED BY <2>2, <3>1 DEF AdminRemovePart
  <2> QED BY <2>1, <2>2
<1>4. /\ app' \in [Drivers -> Apps] /\ \A e \in Drivers \ {d} : app'[e] = app[e]
      /\ app'[d].status = app[d].status /\ app'[d].code = app[d].code /\ app'[d].parts = parts
  <2> DEFINE a == [app[d] EXCEPT !.parts = parts]
  <2>1. /\ a \in Apps /\ a.status = app[d].status /\ a.code = app[d].code /\ a.parts = parts
        /\ app' = [app EXCEPT ![d] = a]
    BY <1>1, <1>3 DEF Apps
  <2> HIDE DEF a
  <2> QED BY <1>1, <2>1
<1>5. Sound(d) => Sound(d)'
  BY <1>1, <1>2, <1>3, <1>4 DEF Sound, Apps
<1>6. \A x \in Slots : req[x].driver = d /\ Fits(req[x]) => Fits(req[x])'
  BY <1>1, <1>2, <1>3, <1>4 DEF Fits, Editable, Approvable
<1>7. app[d].status = "APPROVED" /\ d \notin codeless => user'[d].status \in {"ACTIVE", "SUSPENDED"}
  BY <1>2 DEF IInv, DriverOK
<1> QED BY <1>1, <1>2, <1>3, <1>4, <1>5, <1>6, <1>7, UnderRequests DEF IsDriver, Present

LEMMA SuspendDriverStep ==
  ASSUME IInv, NEW d \in Drivers, SuspendDriver(d)
  PROVE  IInv'
<1>1. /\ user \in [Accounts -> Users] /\ app \in [Drivers -> Apps] /\ d \in Accounts
      /\ trip \subseteq Drivers /\ raced \subseteq Drivers /\ stripped \subseteq Drivers
  BY DEF IInv, TablesTyped, Accounts
<1>2. /\ IsDriver(d) /\ user' = [user EXCEPT ![d].status = "SUSPENDED"]
      /\ UNCHANGED <<app, trip, req, raced, stripped, died, lost, codeless>>
  BY DEF SuspendDriver
<1>3. /\ user' \in [Accounts -> Users] /\ \A j \in Accounts \ {d} : user'[j] = user[j]
      /\ user'[d].status = "SUSPENDED" /\ user'[d].phone = user[d].phone
  <2> DEFINE u == [user[d] EXCEPT !.status = "SUSPENDED"]
  <2>1. u \in Users /\ u.status = "SUSPENDED" /\ u.phone = user[d].phone /\ user' = [user EXCEPT ![d] = u]
    BY <1>1, <1>2 DEF Users, Status
  <2> HIDE DEF u
  <2> QED BY <1>1, <2>1
<1>4. /\ Sound(d) => Sound(d)'
      /\ \A x \in Slots : req[x].driver = d /\ Fits(req[x]) => Fits(req[x])'
  BY <1>2, <1>3 DEF Sound, Fits, Editable, Approvable
<1> QED BY <1>1, <1>2, <1>3, <1>4, UnderRequests DEF Present

LEMMA TripStep ==
  ASSUME IInv, NEW d \in Drivers, TripOpens(d) \/ TripEnds(d)
  PROVE  IInv'
<1> USE NoneApart
<1>1. /\ user \in [Accounts -> Users] /\ app \in [Drivers -> Apps] /\ d \in Accounts
      /\ trip \subseteq Drivers /\ raced \subseteq Drivers /\ stripped \subseteq Drivers
      /\ DriverOK(d)
  BY DEF IInv, TablesTyped, Accounts
<1>2. CASE TripOpens(d)
  <2>1. /\ app[d].status = "APPROVED" /\ trip' = trip \cup {d}
        /\ raced' = raced \cup ({d} \cap {req[x].driver : x \in Slots} \cap Drivers)
        /\ UNCHANGED <<user, app, req, stripped, died, lost, codeless>>
    BY <1>2 DEF TripOpens, Contested
  <2>2. IsDriver(d) /\ (Sound(d) => Sound(d)') /\ Present(d)'
    BY <1>2, <2>1 DEF TripOpens, IsDriver, Sound, Present
  <2>3. d \notin raced' => \A x \in Slots : req[x].driver # d
    BY <2>1
  <2>4. app[d].status = "APPROVED" /\ d \notin codeless => user'[d].status \in {"ACTIVE", "SUSPENDED"}
    BY <1>1, <2>1 DEF DriverOK
  <2> QED BY <1>1, <2>1, <2>2, <2>3, <2>4, UnderRequests
<1>3. CASE TripEnds(d)
  <2>1. trip' = trip \ {d} /\ UNCHANGED <<user, app, req, raced, stripped, died, lost, codeless>>
    BY <1>3 DEF TripEnds
  <2>2. TablesTyped' /\ TripNotLost'
    BY <2>1 DEF IInv, TablesTyped, TripNotLost
  <2> QED BY <2>1, <2>2, OneAccount, NoneAssumption DEF Accounts
<1> QED BY <1>2, <1>3

-----------------------------------------------------------------------------
(* Accounts come into being.                                               *)

(* A step of a request that has no driver yet.                             *)
LEMMA DriverlessStep ==
  ASSUME IInv, NEW s \in Slots, req[s].pc \in Driverless,
         NEW r \in Requests, r.driver = None, RequestOK(r)', req' = [req EXCEPT ![s] = r],
         UNCHANGED <<user, app, trip, raced, stripped, died, lost, codeless>>
  PROVE  IInv'
<1> USE NoneApart
<1>1. /\ req \in [Slots -> Requests] /\ req[s].driver = None
      /\ \A x \in Slots : req'[x] = IF x = s THEN r ELSE req[x]
  BY DEF IInv, TablesTyped, RequestsOK, RequestOK
<1>2. TablesTyped' /\ TripNotLost'
  <2>1. req' \in [Slots -> Requests]
    BY <1>1
  <2> QED BY <2>1 DEF IInv, TablesTyped, TripNotLost
<1>3. \A x \in Slots :
        \/ req'[x] = req[x] /\ (req[x].driver = None => None = None)
        \/ {req[x].driver, req'[x].driver} \subseteq {None, None} /\ RequestOK(req[x])'
  BY <1>1
<1> QED BY <1>1, <1>2, <1>3, OneAccount, NoneAssumption DEF Accounts

LEMMA DriverlessBegin ==
  ASSUME IInv, NEW s \in Slots, PublicRegister(s) \/ CreateDriverByAdmin(s)
  PROVE  IInv'
<1> USE NoneApart
<1>1. PICK p \in Phones, label \in {"registerUser", "createCode"} : Begin(s, label, None, p, FALSE)
  BY DEF PublicRegister, CreateDriverByAdmin
<1> DEFINE r == [pc |-> label, driver |-> None, phone |-> p, code |-> None, rejected |-> FALSE]
<1>2. r \in Requests /\ r.pc = label /\ r.driver = None /\ r.phone = p
  BY DEF Requests, Labels
<1>3. /\ req[s].pc = "idle" /\ req' = [req EXCEPT ![s] = r]
      /\ UNCHANGED <<user, app, trip, raced, stripped, died, lost, codeless>>
  BY <1>1 DEF Begin, Goto, Contested, At
<1> HIDE DEF r
<1>4. RequestOK(r)'
  BY <1>2 DEF RequestOK, Driverless, Phoned
<1> QED BY <1>2, <1>3, <1>4, DriverlessStep DEF Driverless

LEMMA CreateCodeStep ==
  ASSUME IInv, NEW s \in Slots, NextActivationCode(s, "createCode", "createCommit")
  PROVE  IInv'
<1>1. /\ req[s].pc = "createCode" /\ req[s] \in Requests /\ RequestOK(req[s])
      /\ UNCHANGED <<user, app, trip, raced, stripped, died, lost, codeless>>
  BY DEF NextActivationCode, At, IInv, TablesTyped, RequestsOK
<1>2. PICK c \in Codes : Goto(s, [req[s] EXCEPT !.pc = "createCommit", !.code = c])
  BY DEF NextActivationCode, FreeCodes
<1>3. PICK r \in Requests : /\ Goto(s, r) /\ r.driver = req[s].driver /\ r.phone = req[s].phone
                            /\ r.pc = "createCommit" /\ r.code = c
  <2> DEFINE r == [req[s] EXCEPT !.pc = "createCommit", !.code = c]
  <2>1. /\ r \in Requests /\ r.driver = req[s].driver /\ r.phone = req[s].phone
        /\ r.pc = "createCommit" /\ r.code = c
    BY <1>1 DEF Requests, Labels
  <2> QED BY <1>2, <2>1
<1>4. RequestOK(r)' /\ r.driver = None
  BY <1>1, <1>3, NoneAssumption DEF RequestOK, Driverless, Phoned
<1> QED BY <1>1, <1>3, <1>4, DriverlessStep DEF Driverless, Goto

(* An account that does not exist yet is in no request and has no rows.     *)
LEMMA Unregistered ==
  ASSUME IInv, NEW d \in Drivers, user[d].status = "NONE"
  PROVE  app[d].status = "NONE" /\ \A x \in Slots : req[x].driver # d
<1> USE NoneApart
<1>1. app[d].status = "NONE"
  BY DEF IInv, DriverOK, Present
<1> QED BY <1>1 DEF IInv, RequestsOK, RequestOK

LEMMA RegisterUserStep ==
  ASSUME IInv, NEW s \in Slots, RegisterUser(s)
  PROVE  IInv'
<1> USE NoneApart
<1>1. /\ req[s].pc = "registerUser" /\ req[s] \in Requests /\ RequestOK(req[s])
      /\ req[s].phone \in Phones /\ req[s].driver = None
      /\ UNCHANGED <<app, trip, raced, stripped, died, lost, codeless>>
  BY DEF RegisterUser, At, IInv, TablesTyped, RequestsOK, RequestOK, Phoned, Driverless
<1>2. CASE Finish(s) /\ UNCHANGED user
  BY <1>1, <1>2, IdleRequest, DriverlessStep DEF Finish, Goto, Driverless
<1>3. ASSUME NEW d \in Drivers, user[d].status = "NONE", PhoneFree(req[s].phone, None),
             user' = [user EXCEPT ![d] = [status |-> "PENDING_VERIFICATION", phone |-> req[s].phone]],
             ThenDriver(s, d)
      PROVE  IInv'
  <2>1. PICK u \in Users : /\ user' = [user EXCEPT ![d] = u]
                           /\ u.status = "PENDING_VERIFICATION" /\ u.phone = req[s].phone
    <3> DEFINE u == [status |-> "PENDING_VERIFICATION", phone |-> req[s].phone]
    <3>1. u \in Users /\ u.status = "PENDING_VERIFICATION" /\ u.phone = req[s].phone
      BY <1>1 DEF Users, Status
    <3> QED BY <1>3, <3>1
  <2>2. PICK r \in Requests : /\ req' = [req EXCEPT ![s] = r]
                              /\ r.pc = "registerDriver" /\ r.driver = d
    <3> DEFINE r == [req[s] EXCEPT !.pc = "registerDriver", !.driver = d]
    <3>1. r \in Requests /\ r.pc = "registerDriver" /\ r.driver = d
      BY <1>1 DEF Requests, Labels
    <3> QED BY <1>3, <3>1 DEF ThenDriver, Goto
  <2>3. /\ user \in [Accounts -> Users] /\ req \in [Slots -> Requests] /\ d \in Accounts
        /\ app[d].status = "NONE" /\ \A x \in Slots : req[x].driver # d
    BY <1>3, Unregistered DEF IInv, TablesTyped, Accounts
  <2>4. /\ user' \in [Accounts -> Users] /\ user'[d] = u /\ \A j \in Accounts \ {d} : user'[j] = user[j]
        /\ req' \in [Slots -> Requests] /\ \A x \in Slots : req'[x] = IF x = s THEN r ELSE req[x]
    BY <2>1, <2>2, <2>3
  <2>5. TablesTyped' /\ TripNotLost'
    BY <1>1, <2>4 DEF IInv, TablesTyped, TripNotLost
  <2>6. Present(d)' /\ PhoneOK(d)' /\ DriverOK(d)' /\ Sound(d)'
    BY <1>1, <2>1, <2>2, <2>3, <2>4 DEF Present, PhoneOK, DriverOK, Sound, At
  <2>7. RequestOK(r)'
    BY <1>1, <2>1, <2>2, <2>3, <2>4 DEF RequestOK, Driverless, Phoned
  <2>8. Fits(r)'
    BY <2>2 DEF Fits
  <2>9. \A x \in Slots : req'[x].driver = d => x = s
    BY <2>3, <2>4
  <2>10. /\ \A j \in Accounts \ {d} : user[j].phone # user'[d].phone
         /\ app'[d].code # None => \A e \in Drivers \ {d} : app[e].code # app'[d].code
    BY <1>1, <1>3, <2>1, <2>4, NoneAssumption DEF PhoneFree, Accounts, IInv, CodesDistinct
  <2>11. \A x \in Slots : req'[x].driver = d => RequestOK(req[x])' /\ Fits(req[x])'
    BY <2>4, <2>7, <2>8, <2>9
  <2>12. \A x \in Slots :
         \/ req'[x] = req[x] /\ (req[x].driver = d => d = None)
         \/ {req[x].driver, req'[x].driver} \subseteq {d, None} /\ RequestOK(req[x])'
    BY <1>1, <2>2, <2>3, <2>4, <2>11
  <2>13. \A e \in Drivers \ {d} : app'[e] = app[e] /\ trip' = trip /\ stripped' = stripped
    BY <1>1
  <2> QED BY <1>1, <2>3, <2>4, <2>5, <2>6, <2>9, <2>10, <2>11, <2>12, <2>13, OneAccount
<1> QED BY <1>1, <1>2, <1>3 DEF RegisterUser

LEMMA CreateDriverCommitStep ==
  ASSUME IInv, NEW s \in Slots, CreateDriverCommit(s)
  PROVE  IInv'
<1> USE NoneApart
<1>1. /\ req[s].pc = "createCommit" /\ req[s] \in Requests /\ RequestOK(req[s])
      /\ req[s].phone \in Phones /\ req[s].driver = None /\ req[s].code \in Codes
      /\ UNCHANGED <<trip, raced, stripped, died, lost, codeless>> /\ req' = [req EXCEPT ![s] = Idle]
  BY DEF CreateDriverCommit, At, IInv, TablesTyped, RequestsOK, RequestOK, Phoned, Driverless, Requests,
         Finish, Goto
<1>2. CASE UNCHANGED <<user, app>>
  BY <1>1, <1>2, IdleRequest, DriverlessStep DEF Driverless
<1>3. ASSUME NEW d \in Drivers, NEW parts \in {{"data"}, {"data", "vehicle"}},
             user[d].status = "NONE", PhoneFree(req[s].phone, None), req[s].code \notin TakenCodes,
             user' = [user EXCEPT ![d] = [status |-> "ACTIVE", phone |-> req[s].phone]],
             app' = [app EXCEPT ![d] = [status |-> "APPROVED", code |-> req[s].code, parts |-> parts]]
      PROVE  IInv'
  <2>1. PICK u \in Users : user' = [user EXCEPT ![d] = u] /\ u.status = "ACTIVE" /\ u.phone = req[s].phone
    <3> DEFINE u == [status |-> "ACTIVE", phone |-> req[s].phone]
    <3>1. u \in Users /\ u.status = "ACTIVE" /\ u.phone = req[s].phone
      BY <1>1 DEF Users, Status
    <3> QED BY <1>3, <3>1
  <2>2. PICK a \in Apps : app' = [app EXCEPT ![d] = a] /\ a.status = "APPROVED" /\ a.code = req[s].code
    <3> DEFINE a == [status |-> "APPROVED", code |-> req[s].code, parts |-> parts]
    <3>1. a \in Apps /\ a.status = "APPROVED" /\ a.code = req[s].code
      BY <1>1, <1>3 DEF Apps, Onboarding, Parts
    <3> QED BY <1>3, <3>1
  <2>3. /\ user \in [Accounts -> Users] /\ app \in [Drivers -> Apps] /\ req \in [Slots -> Requests]
        /\ d \in Accounts /\ \A x \in Slots : req[x].driver # d
    BY <1>3, Unregistered DEF IInv, TablesTyped, Accounts
  <2>4. /\ user' \in [Accounts -> Users] /\ user'[d] = u /\ \A j \in Accounts \ {d} : user'[j] = user[j]
        /\ app' \in [Drivers -> Apps] /\ app'[d] = a /\ \A e \in Drivers \ {d} : app'[e] = app[e]
        /\ req' \in [Slots -> Requests] /\ \A x \in Slots : req'[x] = IF x = s THEN Idle ELSE req[x]
    BY <1>1, <2>1, <2>2, <2>3, IdleRequest
  <2>5. TablesTyped' /\ TripNotLost'
    BY <1>1, <2>4 DEF IInv, TablesTyped, TripNotLost
  <2>6. Present(d)' /\ PhoneOK(d)' /\ DriverOK(d)' /\ Sound(d)'
    BY <1>1, <2>1, <2>2, <2>3, <2>4, NoneAssumption DEF Present, PhoneOK, DriverOK, Sound
  <2>7. \A x \in Slots : req'[x].driver # d
    BY <2>3, <2>4, IdleRequest
  <2>8. /\ \A j \in Accounts \ {d} : user[j].phone # user'[d].phone
        /\ \A e \in Drivers \ {d} : app[e].code # app'[d].code
    BY <1>3, <2>1, <2>2, <2>4, NoneAssumption DEF PhoneFree, Accounts, TakenCodes
  <2>9. \A x \in Slots :
         \/ req'[x] = req[x] /\ (req[x].driver = d => d = None)
         \/ {req[x].driver, req'[x].driver} \subseteq {d, None} /\ RequestOK(req[x])'
    <3> SUFFICES ASSUME NEW x \in Slots, x = s
                 PROVE  {req[x].driver, req'[x].driver} \subseteq {d, None} /\ RequestOK(req[x])'
      BY <2>3, <2>4
    <3>1. req'[x] = Idle /\ req[x].driver = None
      BY <1>1, <2>4
    <3> QED BY <3>1, IdleRequest
  <2> QED BY <1>1, <2>3, <2>4, <2>5, <2>6, <2>7, <2>8, <2>9, OneAccount
<1> QED BY <1>1, <1>2, <1>3 DEF CreateDriverCommit

LEMMA DevDriverStep ==
  ASSUME IInv, NEW d \in Drivers, DevDriver(d)
  PROVE  IInv'
<1> USE NoneApart
<1>1. /\ user \in [Accounts -> Users] /\ app \in [Drivers -> Apps] /\ req \in [Slots -> Requests]
      /\ d \in Accounts /\ PhoneOK(d) /\ app[d].status = "NONE"
      /\ codeless' = codeless \cup {d} /\ UNCHANGED <<trip, req, stripped, died, lost>>
      /\ raced' = raced \cup ({d} \cap {req[x].driver : x \in Slots} \cap Drivers)
  BY DEF DevDriver, Contested, IInv, TablesTyped, Accounts
<1>2. PICK a \in Apps : /\ app' = [app EXCEPT ![d] = a] /\ a.status = "APPROVED" /\ a.code = None
  <2>1. PICK parts \in {{}, Parts} :
          app' = [app EXCEPT ![d] = [status |-> "APPROVED", code |-> None, parts |-> parts]]
    BY DEF DevDriver
  <2> DEFINE a == [status |-> "APPROVED", code |-> None, parts |-> parts]
  <2>2. a \in Apps /\ a.status = "APPROVED" /\ a.code = None
    BY DEF Apps, Onboarding, Parts
  <2> QED BY <2>1, <2>2
<1>3. PICK u \in Users :
        /\ user' = [user EXCEPT ![d] = u] /\ u.status \notin {"NONE", "DELETED"} /\ u.phone \in Phones
        /\ \A j \in Accounts \ {d} : user[j].phone # u.phone
  <2>1. CASE Present(d) /\ UNCHANGED user
    <3>1. user' = [user EXCEPT ![d] = user[d]] /\ user[d] \in Users
      BY <1>1, <2>1
    <3> QED BY <1>1, <2>1, <3>1 DEF Present, PhoneOK, IInv, PhonesDistinct
  <2>2. ASSUME NEW p \in Phones, PhoneFree(p, None),
               user' = [user EXCEPT ![d] = [status |-> "ACTIVE", phone |-> p]]
        PROVE  \E u \in Users :
                 /\ user' = [user EXCEPT ![d] = u] /\ u.status \notin {"NONE", "DELETED"}
                 /\ u.phone \in Phones /\ \A j \in Accounts \ {d} : user[j].phone # u.phone
    <3> DEFINE u == [status |-> "ACTIVE", phone |-> p]
    <3>1. u \in Users /\ u.status = "ACTIVE" /\ u.phone = p
      BY DEF Users, Status
    <3>2. \A j \in Accounts \ {d} : user[j].phone # p
      BY <2>2, NoneAssumption DEF PhoneFree, Accounts
    <3> QED BY <2>2, <3>1, <3>2
  <2> QED BY <2>1, <2>2 DEF DevDriver
<1>4. /\ user' \in [Accounts -> Users] /\ user'[d] = u /\ \A j \in Accounts \ {d} : user'[j] = user[j]
      /\ app' \in [Drivers -> Apps] /\ app'[d] = a /\ \A e \in Drivers \ {d} : app'[e] = app[e]
  BY <1>1, <1>2, <1>3
<1>5. TablesTyped' /\ TripNotLost'
  BY <1>1, <1>4 DEF IInv, TablesTyped, TripNotLost
<1>6. Present(d)' /\ PhoneOK(d)' /\ DriverOK(d)' /\ Sound(d)'
  BY <1>1, <1>2, <1>3, <1>4 DEF Present, PhoneOK, DriverOK, Sound
<1>7. \A x \in Slots :
        \/ req'[x] = req[x] /\ (req[x].driver = d => d = None)
        \/ {req[x].driver, req'[x].driver} \subseteq {d, None} /\ RequestOK(req[x])'
  <2> SUFFICES ASSUME NEW x \in Slots, req[x].driver = d
               PROVE  RequestOK(req[x])'
    BY <1>1
  <2>1. RequestOK(req[x]) /\ req'[x] = req[x]
    BY <1>1 DEF IInv, RequestsOK
  <2> QED BY <1>2, <1>3, <1>4, <2>1 DEF RequestOK
<1>8. d \notin raced' => \A x \in Slots : req'[x].driver # d
  BY <1>1
<1> QED BY <1>1, <1>2, <1>3, <1>4, <1>5, <1>6, <1>7, <1>8, OneAccount

LEMMA OperatorStep ==
  ASSUME IInv, NEW o \in Operators, CreateOperator(o) \/ UpdateOperator(o) \/ DeleteOperator(o)
  PROVE  IInv'
<1> USE NoneApart
<1>1. /\ UNCHANGED <<app, trip, req, raced, stripped, died, lost, codeless>>
      /\ user \in [Accounts -> Users] /\ o \in Accounts /\ o \notin Drivers /\ o # None
      /\ \A x \in Slots : req[x].driver # o
  BY AccountsAssumption, NoneAssumption
  DEF CreateOperator, UpdateOperator, DeleteOperator, IInv, TablesTyped, Requests, Accounts
<1>2. PICK st \in {"ACTIVE", "SUSPENDED", "DELETED"}, p \in Phones \cup {None} :
        /\ user' = [user EXCEPT ![o] = [status |-> st, phone |-> p]]
        /\ IF st = "DELETED" THEN p = None ELSE p \in Phones /\ PhoneFree(p, o)
  BY DEF CreateOperator, UpdateOperator, DeleteOperator
<1>3. PICK u \in Users : user' = [user EXCEPT ![o] = u] /\ u.status = st /\ u.phone = p
  <2> DEFINE u == [status |-> st, phone |-> p]
  <2>1. u \in Users /\ u.status = st /\ u.phone = p
    BY DEF Users, Status
  <2> QED BY <1>2, <2>1
<1>4. user' \in [Accounts -> Users] /\ user'[o] = u /\ \A j \in Accounts \ {o} : user'[j] = user[j]
  BY <1>1, <1>3
<1>5. TablesTyped' /\ TripNotLost'
  BY <1>1, <1>4 DEF IInv, TablesTyped, TripNotLost
<1>6. PhoneOK(o)' /\ (Present(o)' => \A j \in Accounts \ {o} : user[j].phone # user'[o].phone)
  BY <1>2, <1>3, <1>4 DEF PhoneOK, Present, PhoneFree
<1> QED BY <1>1, <1>4, <1>5, <1>6, OneAccount

LEMMA AbortStep ==
  ASSUME IInv, NEW s \in Slots, Abort(s)
  PROVE  IInv'
<1> USE NoneApart
<1>1. /\ req' = [req EXCEPT ![s] = Idle] /\ UNCHANGED <<user, app, trip, raced, stripped, lost, codeless>>
      /\ IF req[s].pc = "registerDriver" THEN died' = died \cup {req[s].driver} ELSE died' = died
  BY DEF Abort, Finish, Goto, At
<1>2. CASE req[s].pc \in Driverless
  BY <1>1, <1>2, IdleRequest, DriverlessStep DEF Driverless
<1>3. CASE req[s].pc \notin Driverless \cup {"registerDriver"}
  BY <1>1, <1>3, IdleRequest, SilentStatement DEF Goto
<1>4. CASE req[s].pc = "registerDriver"
  <2>1. PICK d \in Drivers : /\ d = req[s].driver /\ DriverOK(d) /\ PhoneOK(d)
                             /\ req \in [Slots -> Requests]
    BY <1>4, Working DEF Driverless
  <2>2. \A x \in Slots : req'[x] = IF x = s THEN Idle ELSE req[x]
    BY <1>1, <2>1
  <2>3. \A x \in Slots : req'[x].driver = d => x # s /\ req'[x] = req[x]
    BY <2>1, <2>2, IdleRequest
  <2>4. TablesTyped' /\ TripNotLost'
    <3>1. req' \in [Slots -> Requests]
      BY <1>1, <2>1, IdleRequest
    <3> QED BY <1>1, <1>4, <2>1, <3>1 DEF IInv, TablesTyped, TripNotLost
  <2>5. DriverOK(d)' /\ PhoneOK(d)' /\ d \in Accounts
    BY <1>1, <1>4, <2>1 DEF DriverOK, PhoneOK, Present, Accounts
  <2>6. ASSUME d \notin raced'
        PROVE  /\ Sound(d)'
               /\ \A x \in Slots : req'[x].driver # d
    <3>1. Sound(d) /\ \A x \in Slots : req[x].driver = d => x = s
      BY <1>1, <2>1, <2>6 DEF IInv, Unraced
    <3> QED BY <1>1, <2>3, <3>1 DEF Sound
  <2>7. \A x \in Slots :
         \/ req'[x] = req[x] /\ (req[x].driver = d => d = None)
         \/ {req[x].driver, req'[x].driver} \subseteq {d, None} /\ RequestOK(req[x])'
    <3> SUFFICES ASSUME NEW x \in Slots, req[x].driver = d \/ x = s
                 PROVE  {req[x].driver, req'[x].driver} \subseteq {d, None} /\ RequestOK(req[x])'
      BY <2>2
    <3>1. CASE x = s
      BY <2>1, <2>2, <3>1, IdleRequest
    <3>2. CASE x # s
      <4>1. RequestOK(req[x]) /\ req'[x] = req[x]
        BY <2>2, <3>2 DEF IInv, RequestsOK
      <4> QED BY <1>1, <3>2, <4>1 DEF RequestOK
    <3> QED BY <3>1, <3>2
  <2>8. /\ Present(d)' => \A j \in Accounts \ {d} : user[j].phone # user'[d].phone
        /\ app'[d].code # None => \A e \in Drivers \ {d} : app[e].code # app'[d].code
    BY <1>1, <2>5 DEF IInv, PhonesDistinct, CodesDistinct, Present
  <2> QED BY <1>1, <1>4, <2>1, <2>4, <2>5, <2>6, <2>7, <2>8, OneAccount
<1> QED BY <1>2, <1>3, <1>4

-----------------------------------------------------------------------------
(* The invariant is inductive.                                             *)

LEMMA InitIInv == Init => IInv
<1> SUFFICES ASSUME Init PROVE IInv
  OBVIOUS
<1> USE NoneApart
<1>1. TablesTyped
  BY DEF Init, TablesTyped, Users, Apps, Requests, NoUser, NoApp, Idle, Status, Onboarding, Labels
<1>2. RequestsOK /\ Unraced /\ TripNotLost
  <2>1. \A s \in Slots : req[s].pc = "idle" /\ req[s].driver = None
    BY DEF Init, Idle
  <2>2. RequestsOK
    BY <2>1 DEF RequestsOK, RequestOK, At, Driverless, Phoned
  <2>3. \A d \in Drivers : Sound(d)
    BY DEF Init, Sound, NoUser, NoApp, Accounts
  <2> QED BY <2>1, <2>2, <2>3 DEF Init, Unraced, TripNotLost
<1>3. /\ PhonesDistinct /\ CodesDistinct /\ \A i \in Accounts : PhoneOK(i)
      /\ \A d \in Drivers : DriverOK(d)
  BY DEF Init, PhonesDistinct, CodesDistinct, PhoneOK, DriverOK, Present, NoUser, NoApp, Accounts
<1> QED BY <1>1, <1>2, <1>3 DEF IInv

LEMMA NextIInv == IInv /\ [Next]_vars => IInv'
<1> SUFFICES ASSUME IInv, [Next]_vars PROVE IInv'
  OBVIOUS
<1>1. ASSUME NEW s \in Slots,
             \/ PublicRegister(s) \/ RegisterUser(s) \/ RegisterDriver(s)
             \/ CreateDriverByAdmin(s) \/ CreateDriverCommit(s)
             \/ NextActivationCode(s, "createCode", "createCommit")
             \/ NextActivationCode(s, "approveCode", "approve")
             \/ NextActivationCode(s, "reactivateCode", "reactivate")
      PROVE  IInv'
  BY <1>1, DriverlessBegin, RegisterUserStep, RegisterDriverStep, CreateDriverCommitStep,
     CreateCodeStep, DriverCodeStep
<1>2. ASSUME NEW s \in Slots,
             \/ UpdatePhone(s) \/ PatchProfile(s) \/ SubmitForReview(s) \/ AddDocument(s)
             \/ ApproveDriver(s) \/ RejectDriver(s) \/ SetDriverUnderReview(s)
             \/ DeleteDriverAccount(s)
      PROVE  IInv'
  BY <1>2, BeginsStep
<1>3. ASSUME NEW s \in Slots,
             \/ UpdatePhoneWrite(s) \/ PatchWrite(s) \/ PatchVehicle(s) \/ SubmitDocuments(s)
             \/ AddDocumentWrite(s) \/ ApproveCommit(s) \/ WriteStatus(s) \/ DeleteCommit(s)
             \/ Abort(s)
      PROVE  IInv'
  BY <1>3, UpdatePhoneWriteStep, PatchWriteStep, PartAddedStep, SubmitDocumentsStep,
     ApproveCommitStep, WriteStatusStep, DeleteCommitStep, AbortStep
<1>4. ASSUME NEW d \in Drivers,
             \/ DevDriver(d) \/ SuspendDriver(d) \/ TripOpens(d) \/ TripEnds(d)
             \/ \E part \in {"vehicle", "documents"} : AdminAddPart(d, part) \/ AdminRemovePart(d, part)
      PROVE  IInv'
  BY <1>4, DevDriverStep, SuspendDriverStep, TripStep, AdminPartStep
<1>5. ASSUME NEW o \in Operators, CreateOperator(o) \/ UpdateOperator(o) \/ DeleteOperator(o)
      PROVE  IInv'
  BY <1>5, OperatorStep
<1>6. CASE UNCHANGED vars
  <2>1. TablesTyped' /\ TripNotLost'
    BY <1>6 DEF vars, IInv, TablesTyped, TripNotLost
  <2>2. \A x \in Slots : req'[x] = req[x] /\ (req[x].driver = None => None = None)
    BY <1>6 DEF vars
  <2>3. /\ \A j \in Accounts : user'[j] = user[j]
        /\ UNCHANGED <<app, trip, raced, stripped, died, codeless>>
    BY <1>6 DEF vars
  <2> QED BY <2>1, <2>2, <2>3, OneAccount, NoneAssumption DEF Accounts
<1> QED BY <1>1, <1>2, <1>3, <1>4, <1>5, <1>6 DEF Next

THEOREM Inductive == Spec => []IInv
BY InitIInv, NextIInv, PTL DEF Spec

-----------------------------------------------------------------------------
(* What follows from it.                                                   *)

(* Rows and requests are well formed, with any number of requests at once.  *)
THEOREM TypeCorrect == Spec => []TypeOK
<1>1. IInv => TypeOK
  BY DEF IInv, TypeOK, TablesTyped, RequestsOK, RequestOK, Users, Apps, Requests
<1> QED BY <1>1, Inductive, PTL

(* Whatever number of requests run at once and die half way: two accounts   *)
(* never answer to one phone, two drivers never to one code, an approved    *)
(* driver that did not come without a code has one and a user in standing,  *)
(* and a user without a driver row is a registration under way or cut      *)
(* short.                                                                  *)
THEOREM RowsGoTogether == Spec => []RowsAgree
<1>1. IInv => ApprovedHasCode /\ HalfRegistered
  BY DEF IInv, DriverOK, ApprovedHasCode, HalfRegistered
<1>2. IInv => RowsAgree
  BY <1>1 DEF IInv, RowsAgree
<1> QED BY <1>2, Inductive, PTL

(* Drivers no two requests worked on at once: only approved ones are        *)
(* active, a reviewer sees a complete application unless an administrator   *)
(* took something away, and no open trip is deleted with its driver.       *)
THEOREM SoundUnlessContested == Spec => []UncontestedIsSound
<1>1. IInv => ActiveMeansApproved /\ ReviewedIsComplete
  BY DEF IInv, Unraced, Sound, ActiveMeansApproved, ReviewedIsComplete
<1>2. IInv => UncontestedIsSound
  BY <1>1 DEF IInv, UncontestedIsSound
<1> QED BY <1>2, Inductive, PTL

-----------------------------------------------------------------------------
(* The application keeps to its stages.                                    *)

stages == [d \in Drivers |-> Stage(d)]

(* What one statement may make of a status, as the abstract stages see it.  *)
Advance(from, to) ==
  \/ from = to
  \/ from = "NONE" /\ to \in {"DRAFT", "APPROVED"}
  \/ from = "DRAFT" /\ to \in {"SUBMITTED", "REJECTED"}
  \/ from = "SUBMITTED" /\ to \in {"UNDER_REVIEW", "APPROVED", "REJECTED"}
  \/ from = "UNDER_REVIEW" /\ to \in {"APPROVED", "REJECTED"}
  \/ from = "REJECTED" /\ to = "DRAFT"

(* A step is about one driver, whose rows it deletes or advances.          *)
About(d) ==
  /\ \A e \in Drivers \ {d} : user'[e] = user[e] /\ app'[e] = app[e]
  /\ raced \subseteq raced' /\ raced' \subseteq raced \cup {d}
  /\ \/ user'[d] = user[d] /\ app'[d] = app[d]
     \/ user'[d].status = "DELETED" /\ (user[d].status = "DELETED" \/ app[d].status # "NONE")
     \/ /\ user[d].status # "DELETED" /\ user'[d].status # "DELETED"
        /\ d \notin raced => Advance(app[d].status, app'[d].status)

LEMMA StageNamed ==
  ASSUME NEW st \in Onboarding
  PROVE  /\ st = "NONE" => Named[st] = "none"
         /\ st = "DRAFT" => Named[st] = "draft"
         /\ st = "SUBMITTED" => Named[st] = "submitted"
         /\ st = "UNDER_REVIEW" => Named[st] = "review"
         /\ st = "APPROVED" => Named[st] = "approved"
         /\ st = "REJECTED" => Named[st] = "rejected"
BY DEF Named

LEMMA MoveIs ==
  ASSUME NEW d \in Drivers, NEW from, NEW to, Stage(d) \in from, stages' = [stages EXCEPT ![d] = to]
  PROVE  Lifecycle!Move(d, from, to)
BY DEF Lifecycle!Move, stages

LEMMA AboutIsStep ==
  ASSUME IInv, IInv', NEW d \in Drivers, About(d)
  PROVE  Lifecycle!Next \/ stages' = stages
<1>1. \A e \in Drivers : app[e].status \in Onboarding /\ app'[e].status \in Onboarding
  BY DEF IInv, TablesTyped, Apps
<1>2. \A e \in Drivers \ {d} : Stage(e)' = Stage(e)
  BY DEF About, Stage
<1>3. \/ Stage(d)' = Stage(d)
      \/ Stage(d) \in Lifecycle!Stages \ {"none", "deleted"} /\ Stage(d)' = "deleted"
      \/ Stage(d) \in Lifecycle!Stages \ {"deleted"} /\ Stage(d)' = "contested"
      \/ Stage(d) = "none" /\ Stage(d)' \in {"draft", "approved"}
      \/ Stage(d) = "draft" /\ Stage(d)' \in {"submitted", "rejected"}
      \/ Stage(d) = "submitted" /\ Stage(d)' \in {"review", "approved", "rejected"}
      \/ Stage(d) = "review" /\ Stage(d)' \in {"approved", "rejected"}
      \/ Stage(d) = "rejected" /\ Stage(d)' = "draft"
  <2>1. /\ Stage(d) = IF user[d].status = "DELETED" THEN "deleted" ELSE
                      IF d \in raced THEN "contested" ELSE Named[app[d].status]
        /\ Stage(d)' = IF user'[d].status = "DELETED" THEN "deleted" ELSE
                       IF d \in raced' THEN "contested" ELSE Named[app'[d].status]
    BY DEF Stage
  <2>2. /\ Named[app[d].status] \in {"none", "draft", "submitted", "review", "approved", "rejected"}
        /\ Named[app'[d].status] \in {"none", "draft", "submitted", "review", "approved", "rejected"}
    BY <1>1, StageNamed DEF Onboarding
  <2>3. ASSUME user[d].status # "DELETED", user'[d].status # "DELETED", d \notin raced,
               Advance(app[d].status, app'[d].status), app'[d].status # app[d].status
        PROVE  LET from == Named[app[d].status]
                   to == Named[app'[d].status]
               IN  \/ from = "none" /\ to \in {"draft", "approved"}
                   \/ from = "draft" /\ to \in {"submitted", "rejected"}
                   \/ from = "submitted" /\ to \in {"review", "approved", "rejected"}
                   \/ from = "review" /\ to \in {"approved", "rejected"}
                   \/ from = "rejected" /\ to = "draft"
    BY <1>1, <2>3, StageNamed DEF Advance
  <2>4. CASE user'[d] = user[d] /\ app'[d] = app[d]
    BY <2>1, <2>2, <2>4 DEF About, Lifecycle!Stages
  <2>5. CASE user'[d].status = "DELETED" /\ (user[d].status = "DELETED" \/ app[d].status # "NONE")
    <3>1. app[d].status # "NONE" => Named[app[d].status] # "none"
      BY <1>1, StageNamed DEF Onboarding
    <3> QED BY <2>1, <2>2, <2>5, <3>1 DEF Lifecycle!Stages
  <2>6. CASE /\ user[d].status # "DELETED" /\ user'[d].status # "DELETED"
             /\ d \notin raced => Advance(app[d].status, app'[d].status)
    BY <2>1, <2>2, <2>3, <2>6 DEF About, Lifecycle!Stages
  <2> QED BY <2>4, <2>5, <2>6 DEF About
<1>4. stages' = [stages EXCEPT ![d] = Stage(d)']
  BY <1>2 DEF stages
<1>5. CASE Stage(d)' = Stage(d)
  BY <1>4, <1>5 DEF stages
<1>6. PICK to : to = Stage(d)'
  OBVIOUS
<1>7. \A from : Stage(d) \in from => Lifecycle!Move(d, from, to)
  BY <1>4, <1>6, MoveIs
<1> QED BY <1>3, <1>5, <1>6, <1>7
    DEF Lifecycle!Next, Lifecycle!Open, Lifecycle!Hire, Lifecycle!Submit, Lifecycle!Review,
        Lifecycle!Approve, Lifecycle!Reject, Lifecycle!Reopen, Lifecycle!Delete, Lifecycle!Contest

(* The two shapes of a step: it leaves the rows of drivers alone, or writes *)
(* those of the driver its request is about.                               *)
LEMMA Quiet ==
  ASSUME raced' = raced, \A d \in Drivers : user'[d] = user[d] /\ app'[d] = app[d]
  PROVE  stages' = stages
BY DEF stages, Stage

LEMMA BeginAbout ==
  ASSUME NEW s, NEW label, NEW d, NEW p, NEW r, Begin(s, label, d, p, r)
  PROVE  IF d \in Drivers THEN About(d) ELSE stages' = stages
<1>1. /\ UNCHANGED <<user, app>>
      /\ raced' = raced \cup ({d} \cap {req[x].driver : x \in Slots} \cap Drivers)
  BY DEF Begin, Contested
<1>2. CASE d \in Drivers
  BY <1>1, <1>2 DEF About
<1>3. CASE d \notin Drivers
  BY <1>1, <1>3, Quiet
<1> QED BY <1>2, <1>3

LEMMA BeginsAbout ==
  ASSUME IInv, NEW s \in Slots,
         \/ UpdatePhone(s) \/ PatchProfile(s) \/ SubmitForReview(s) \/ AddDocument(s)
         \/ ApproveDriver(s) \/ RejectDriver(s) \/ SetDriverUnderReview(s) \/ DeleteDriverAccount(s)
         \/ PublicRegister(s) \/ CreateDriverByAdmin(s)
  PROVE  (\E d \in Drivers : About(d)) \/ stages' = stages
<1>1. \E label, d, p, r : Begin(s, label, d, p, r)
  BY Zenon DEF UpdatePhone, PatchProfile, SubmitForReview, AddDocument, ApproveDriver, RejectDriver,
               SetDriverUnderReview, DeleteDriverAccount, PublicRegister, CreateDriverByAdmin
<1> QED BY <1>1, BeginAbout

(* Registration and creation.                                              *)
LEMMA BirthAbout ==
  ASSUME IInv, NEW s \in Slots, RegisterUser(s) \/ RegisterDriver(s) \/ CreateDriverCommit(s)
  PROVE  (\E d \in Drivers : About(d)) \/ stages' = stages
<1>1. user \in [Accounts -> Users] /\ app \in [Drivers -> Apps] /\ Drivers \subseteq Accounts
      /\ raced' = raced
  BY DEF IInv, TablesTyped, Accounts, RegisterUser, RegisterDriver, CreateDriverCommit
<1>2. CASE UNCHANGED <<user, app>>
  BY <1>1, <1>2, Quiet
<1>3. ASSUME NEW d \in Drivers, NEW p, user[d].status = "NONE", UNCHANGED app,
             user' = [user EXCEPT ![d] = [status |-> "PENDING_VERIFICATION", phone |-> p]]
      PROVE  About(d)
  BY <1>1, <1>3 DEF About, Advance
<1>4. ASSUME NEW d \in Drivers, NEW p, NEW c, NEW parts, user[d].status = "NONE",
             user' = [user EXCEPT ![d] = [status |-> "ACTIVE", phone |-> p]],
             app' = [app EXCEPT ![d] = [status |-> "APPROVED", code |-> c, parts |-> parts]]
      PROVE  About(d)
  <2>1. app[d].status = "NONE"
    BY <1>4, Unregistered
  <2> QED BY <1>1, <1>4, <2>1 DEF About, Advance
<1>5. CASE RegisterDriver(s)
  <2>1. PICK d \in Drivers : d = req[s].driver
    BY <1>5, Working DEF RegisterDriver, At, Driverless
  <2>2. CASE Registrable(d)
    <3>1. UNCHANGED user /\ app' = [app EXCEPT ![d].status = "DRAFT"]
      BY <1>5, <2>1, <2>2 DEF RegisterDriver
    <3>2. app'[d].status = "DRAFT" /\ \A e \in Drivers \ {d} : app'[e] = app[e]
      BY <1>1, <3>1 DEF Apps
    <3> QED BY <1>1, <2>2, <3>1, <3>2 DEF About, Advance, Registrable, Present
  <2> QED BY <1>2, <1>5, <2>1, <2>2 DEF RegisterDriver
<1>6. CASE RegisterUser(s)
  BY <1>2, <1>3, <1>6 DEF RegisterUser
<1>7. CASE CreateDriverCommit(s)
  BY <1>2, <1>4, <1>7 DEF CreateDriverCommit
<1> QED BY <1>5, <1>6, <1>7

(* Statements about a driver that has both rows.                           *)
LEMMA AdvanceAbout ==
  ASSUME IInv, NEW d \in Drivers, Present(d), raced' = raced,
         \A e \in Drivers \ {d} : user'[e] = user[e] /\ app'[e] = app[e],
         user'[d].status # "DELETED",
         d \notin raced => Advance(app[d].status, app'[d].status)
  PROVE  About(d)
BY DEF About, Present

LEMMA StatementAbout ==
  ASSUME IInv, NEW s \in Slots,
         \/ UpdatePhoneWrite(s) \/ PatchWrite(s) \/ PatchVehicle(s) \/ AddDocumentWrite(s)
         \/ ApproveCommit(s) \/ WriteStatus(s)
  PROVE  (\E d \in Drivers : About(d)) \/ stages' = stages
<1>1. PICK d \in Drivers :
        /\ d = req[s].driver /\ app[d] \in Apps /\ req[s] \in Requests
        /\ req[s].pc \in {"phone", "patch", "patchVehicle", "document", "approve", "reactivate",
                          "submit", "UNDER_REVIEW", "REJECTED"}
        /\ user \in [Accounts -> Users] /\ app \in [Drivers -> Apps] /\ d \in Accounts
        /\ Drivers \subseteq Accounts
  BY Working DEF UpdatePhoneWrite, PatchWrite, PatchVehicle, AddDocumentWrite, ApproveCommit,
                 WriteStatus, At, Driverless, Accounts
<1>2. raced' = raced /\ (d \notin raced => Fits(req[s]))
  BY <1>1 DEF UpdatePhoneWrite, PatchWrite, PatchVehicle, AddDocumentWrite, ApproveCommit,
              WriteStatus, IInv, Unraced
<1>3. CASE UNCHANGED <<user, app>>
  BY <1>2, <1>3, Quiet DEF Accounts
<1>4. CASE UpdatePhoneWrite(s)
  <2>1. CASE Present(d) /\ user' = [user EXCEPT ![d].phone = req[s].phone] /\ UNCHANGED app
    <3>1. /\ user'[d].status = user[d].status
          /\ \A e \in Drivers \ {d} : user'[e] = user[e]
      BY <1>1, <2>1 DEF Users
    <3> QED BY <1>1, <1>2, <2>1, <3>1, AdvanceAbout DEF Present, Advance
  <2> QED BY <1>1, <1>3, <1>4, <2>1 DEF UpdatePhoneWrite
<1>6. CASE PatchWrite(s)
  <2>1. ASSUME NEW data, IsDriver(d), UNCHANGED user,
               app' = [app EXCEPT ![d].parts = (@ \ {"data"}) \cup data,
                                  ![d].status = IF req[s].rejected THEN "DRAFT" ELSE @]
        PROVE  About(d)
    <3>1. /\ app'[d].status = IF req[s].rejected THEN "DRAFT" ELSE app[d].status
          /\ \A e \in Drivers \ {d} : app'[e] = app[e]
      BY <1>1, <2>1 DEF Apps
    <3>2. req[s].pc = "patch"
      BY <1>6 DEF PatchWrite, At
    <3>3. d \notin raced => Advance(app[d].status, app'[d].status)
      BY <1>1, <1>2, <3>1, <3>2 DEF Fits, Advance
    <3> QED BY <1>2, <2>1, <3>1, <3>3, AdvanceAbout DEF IsDriver, Present
  <2> QED BY <1>1, <1>3, <1>6, <2>1 DEF PatchWrite
<1>7. CASE PatchVehicle(s) \/ AddDocumentWrite(s)
  <2>1. ASSUME NEW part, IsDriver(d), UNCHANGED user, app' = [app EXCEPT ![d].parts = @ \cup {part}]
        PROVE  About(d)
    <3>1. /\ app'[d].status = app[d].status
          /\ \A e \in Drivers \ {d} : app'[e] = app[e]
      BY <1>1, <2>1 DEF Apps
    <3> QED BY <1>2, <2>1, <3>1, AdvanceAbout DEF IsDriver, Present, Advance
  <2> QED BY <1>1, <1>3, <1>7, <2>1 DEF PatchVehicle, AddDocumentWrite
<1>8. CASE ApproveCommit(s)
  <2>1. CASE /\ IsDriver(d) /\ user' = [user EXCEPT ![d].status = "ACTIVE"]
             /\ app' = [app EXCEPT ![d] = IF At(s, "approve") THEN WithCode(d, req[s].code)
                                                             ELSE [@ EXCEPT !.code = req[s].code]]
    <3>1. /\ app'[d].status = IF req[s].pc = "approve" THEN "APPROVED" ELSE app[d].status
          /\ \A e \in Drivers \ {d} : app'[e] = app[e]
      BY <1>1, <2>1 DEF Apps, WithCode, At
    <3>2. user'[d].status = "ACTIVE" /\ \A e \in Drivers \ {d} : user'[e] = user[e]
      BY <1>1, <2>1 DEF Users
    <3>3. d \notin raced => Advance(app[d].status, app'[d].status)
      BY <1>1, <1>2, <3>1 DEF Fits, Advance, Approvable
    <3> QED BY <1>2, <2>1, <3>1, <3>2, <3>3, AdvanceAbout DEF IsDriver
  <2> QED BY <1>1, <1>3, <1>8, <2>1 DEF ApproveCommit
<1>9. CASE WriteStatus(s)
  <2>1. PICK to : to = IF req[s].pc = "submit" THEN "SUBMITTED" ELSE req[s].pc
    OBVIOUS
  <2>2. /\ req[s].pc \in {"submit", "UNDER_REVIEW", "REJECTED"} /\ UNCHANGED user
        /\ app' = IF IsDriver(d) THEN [app EXCEPT ![d].status = to] ELSE app
    BY <1>1, <1>9, <2>1 DEF WriteStatus, At
  <2>3. CASE IsDriver(d)
    <3>1. app'[d].status = to /\ \A e \in Drivers \ {d} : app'[e] = app[e]
      BY <1>1, <2>2, <2>3 DEF Apps
    <3>2. d \notin raced => Advance(app[d].status, app'[d].status)
      BY <1>1, <1>2, <2>1, <2>2, <3>1 DEF Fits, Advance
    <3> QED BY <1>2, <2>2, <2>3, <3>1, <3>2, AdvanceAbout DEF IsDriver, Present
  <2> QED BY <1>3, <2>2, <2>3
<1> QED BY <1>4, <1>6, <1>7, <1>8, <1>9

(* Deletion, and what administrators, trips and operators do.              *)
LEMMA DeleteAbout ==
  ASSUME IInv, NEW s \in Slots, DeleteCommit(s)
  PROVE  \E d \in Drivers : About(d)
<1>1. PICK d \in Drivers : /\ d = req[s].driver /\ req[s].pc = "delete" /\ RequestOK(req[s])
                           /\ user \in [Accounts -> Users] /\ app \in [Drivers -> Apps]
                           /\ Drivers \subseteq Accounts
  BY Working DEF DeleteCommit, At, Driverless, Accounts
<1>2. /\ user' = [user EXCEPT ![d] = [status |-> "DELETED", phone |-> None]]
      /\ app' = [app EXCEPT ![d] = NoApp] /\ raced' = raced
  BY <1>1 DEF DeleteCommit
<1>3. user'[d].status = "DELETED" /\ \A e \in Drivers \ {d} : user'[e] = user[e] /\ app'[e] = app[e]
  BY <1>1, <1>2
<1> QED BY <1>1, <1>2, <1>3 DEF About, RequestOK, Driverless

LEMMA OutsideAbout ==
  ASSUME IInv,
         \/ \E d \in Drivers :
              \/ DevDriver(d) \/ SuspendDriver(d) \/ TripOpens(d) \/ TripEnds(d)
              \/ \E part \in {"vehicle", "documents"} : AdminAddPart(d, part) \/ AdminRemovePart(d, part)
         \/ \E o \in Operators : CreateOperator(o) \/ UpdateOperator(o) \/ DeleteOperator(o)
  PROVE  (\E d \in Drivers : About(d)) \/ stages' = stages
<1>1. user \in [Accounts -> Users] /\ app \in [Drivers -> Apps] /\ Drivers \subseteq Accounts
  BY DEF IInv, TablesTyped, Accounts
<1>2. ASSUME NEW d \in Drivers, SuspendDriver(d)
      PROVE  About(d)
  <2>1. user'[d].status = "SUSPENDED" /\ \A e \in Drivers \ {d} : user'[e] = user[e]
    BY <1>1, <1>2 DEF SuspendDriver, Users
  <2>2. IsDriver(d) /\ UNCHANGED <<app, raced>>
    BY <1>2 DEF SuspendDriver
  <2> QED BY <2>1, <2>2, AdvanceAbout DEF IsDriver, Advance
<1>3. ASSUME NEW d \in Drivers, TripOpens(d)
      PROVE  About(d)
  BY <1>3 DEF TripOpens, Contested, About
<1>4. ASSUME NEW d \in Drivers, TripEnds(d)
      PROVE  stages' = stages
  BY <1>4, Quiet DEF TripEnds
<1>5. ASSUME NEW d \in Drivers, NEW part \in {"vehicle", "documents"},
             AdminAddPart(d, part) \/ AdminRemovePart(d, part)
      PROVE  About(d)
  <2>1. IsDriver(d) /\ UNCHANGED <<user, raced>>
    BY <1>5 DEF AdminAddPart, AdminRemovePart
  <2>2. app'[d].status = app[d].status /\ \A e \in Drivers \ {d} : app'[e] = app[e]
    BY <1>1, <1>5 DEF AdminAddPart, AdminRemovePart, Apps
  <2> QED BY <2>1, <2>2, AdvanceAbout DEF IsDriver, Present, Advance
<1>6. ASSUME NEW o \in Operators, CreateOperator(o) \/ UpdateOperator(o) \/ DeleteOperator(o)
      PROVE  stages' = stages
  <2>1. o \notin Drivers /\ UNCHANGED <<app, raced>>
    BY <1>6, AccountsAssumption DEF CreateOperator, UpdateOperator, DeleteOperator
  <2>2. \A d \in Drivers : user'[d] = user[d]
    BY <1>1, <1>6, <2>1 DEF CreateOperator, UpdateOperator, DeleteOperator
  <2> QED BY <2>1, <2>2, Quiet
<1>7. ASSUME NEW d \in Drivers, DevDriver(d)
      PROVE  About(d)
  <2>1. /\ app[d].status = "NONE" /\ app'[d].status = "APPROVED"
        /\ \A e \in Drivers \ {d} : app'[e] = app[e]
    BY <1>1, <1>7 DEF DevDriver
  <2>2. /\ user[d].status # "DELETED" /\ user'[d].status # "DELETED"
        /\ \A e \in Drivers \ {d} : user'[e] = user[e]
    BY <1>1, <1>7 DEF DevDriver, Present
  <2>3. raced \subseteq raced' /\ raced' \subseteq raced \cup {d}
    BY <1>7 DEF DevDriver, Contested
  <2> QED BY <2>1, <2>2, <2>3 DEF About, Advance
<1> QED BY <1>2, <1>3, <1>4, <1>5, <1>6, <1>7

LEMMA NextAbout ==
  ASSUME IInv, [Next]_vars
  PROVE  (\E d \in Drivers : About(d)) \/ stages' = stages
<1>1. ASSUME UNCHANGED <<user, app, raced>>
      PROVE  stages' = stages
  BY <1>1, Quiet
<1>2. ASSUME NEW s \in Slots,
             \/ NextActivationCode(s, "createCode", "createCommit")
             \/ NextActivationCode(s, "approveCode", "approve")
             \/ NextActivationCode(s, "reactivateCode", "reactivate")
             \/ SubmitDocuments(s) \/ Abort(s)
      PROVE  UNCHANGED <<user, app, raced>>
  BY <1>2 DEF NextActivationCode, SubmitDocuments, Abort
<1>3. UNCHANGED vars => UNCHANGED <<user, app, raced>>
  BY DEF vars
<1>4. ASSUME NEW s \in Slots,
             \/ UpdatePhone(s) \/ PatchProfile(s) \/ SubmitForReview(s) \/ AddDocument(s)
             \/ ApproveDriver(s) \/ RejectDriver(s) \/ SetDriverUnderReview(s)
             \/ DeleteDriverAccount(s) \/ PublicRegister(s) \/ CreateDriverByAdmin(s)
      PROVE  (\E d \in Drivers : About(d)) \/ stages' = stages
  BY <1>4, BeginsAbout
<1>5. ASSUME NEW s \in Slots,
             \/ RegisterUser(s) \/ RegisterDriver(s) \/ CreateDriverCommit(s) \/ UpdatePhoneWrite(s)
             \/ PatchWrite(s) \/ PatchVehicle(s) \/ AddDocumentWrite(s) \/ ApproveCommit(s)
             \/ WriteStatus(s) \/ DeleteCommit(s)
      PROVE  (\E d \in Drivers : About(d)) \/ stages' = stages
  BY <1>5, BirthAbout, StatementAbout, DeleteAbout
<1> QED BY <1>1, <1>2, <1>3, <1>4, <1>5, OutsideAbout DEF Next

(* Whatever number of requests run at once, an application goes through    *)
(* the stages of Application only: none is approved that was not submitted *)
(* or created approved, none is reopened but after a rejection, and a      *)
(* deleted one stays deleted.                                              *)
THEOREM KeepsToStages == Spec => ApplicationImplemented
<1>1. Init => Lifecycle!Init
  BY DEF Init, Lifecycle!Init, Stage, Named, NoUser, NoApp, Accounts
<1>2. IInv /\ IInv' /\ [Next]_vars => [Lifecycle!Next]_stages
  <2> SUFFICES ASSUME IInv, IInv', [Next]_vars
               PROVE  Lifecycle!Next \/ stages' = stages
    OBVIOUS
  <2> QED BY NextAbout, AboutIsStep
<1> QED BY <1>1, <1>2, Inductive, PTL DEF Spec, ApplicationImplemented, Lifecycle!Spec, stages
=============================================================================
