------------------------------ MODULE Accounts ------------------------------
(***************************************************************************)
(* Driver and operator accounts: public registration and the onboarding    *)
(* endpoints of the driver, the review endpoints of administrators and     *)
(* operators (AdminService), operators' own accounts, and deletion.        *)
(*                                                                         *)
(* A request that reads before it writes occupies a slot, one statement a  *)
(* step, and may die between two; a transaction whose reads cannot matter  *)
(* is one step.  raced, stripped, died, codeless and lost are history      *)
(* variables.                                                              *)
(***************************************************************************)
EXTENDS Naturals, FiniteSets

CONSTANTS
  Drivers, Operators,   (* ids of accounts of each role: bounds on them     *)
  Phones,               (* normalised phone numbers                         *)
  Codes,                (* activation codes                                 *)
  Slots,                (* requests that may be in flight at once           *)
  None                  (* SQL NULL                                         *)

ASSUME AccountsAssumption == Drivers \cap Operators = {}
ASSUME NoneAssumption == None \notin Drivers \cup Operators \cup Phones \cup Codes

VARIABLES
  user,       (* User: status and phone                                     *)
  app,        (* Driver: onboardingStatus, activationCode, and which of the *)
              (* required parts (personal data, vehicle, documents) it has  *)
  trip,       (* drivers with a trip that is not over                       *)
  req,        (* requests in flight                                         *)
  raced,      (* history: drivers two requests worked on at once            *)
  stripped,   (* history: drivers an administrator took a vehicle or        *)
              (* document from                                              *)
  died,       (* history: drivers whose registration died half way          *)
  codeless,   (* history: drivers that came approved without a code         *)
  lost        (* history: drivers deleted with their trip still open        *)

vars == <<user, app, trip, req, raced, stripped, died, codeless, lost>>

Parts  == {"data", "vehicle", "documents"}
Status == {"NONE", "PENDING_VERIFICATION", "ACTIVE", "SUSPENDED", "DELETED"}
Onboarding == {"NONE", "DRAFT", "SUBMITTED", "UNDER_REVIEW", "APPROVED", "REJECTED"}
NoUser == [status |-> "NONE", phone |-> None]
NoApp  == [status |-> "NONE", code |-> None, parts |-> {}]
Labels == {"idle", "registerUser", "registerDriver", "createCode", "createCommit", "phone",
           "patch", "patchVehicle", "document", "submitDocuments", "submit", "approveCode",
           "approve", "reactivateCode", "reactivate", "UNDER_REVIEW", "REJECTED", "delete"}
Idle   == [pc |-> "idle", driver |-> None, phone |-> None, code |-> None, rejected |-> FALSE]

Accounts    == Drivers \cup Operators
Present(i)  == user[i].status \notin {"NONE", "DELETED"}
IsDriver(d) == Present(d) /\ app[d].status # "NONE"
TakenPhones == {user[i].phone : i \in Accounts}
TakenCodes  == {app[d].code : d \in Drivers}
At(s, label) == req[s].pc = label
Goto(s, r)   == req' = [req EXCEPT ![s] = r]
Finish(s)    == Goto(s, Idle)
Step(s, label) == Goto(s, [req[s] EXCEPT !.pc = label])

Contested(d) == raced \cup ({d} \cap {req[x].driver : x \in Slots} \cap Drivers)

(* A request about driver d has done its first read.                        *)
Begin(s, label, d, p, r) ==
  /\ At(s, "idle")
  /\ Goto(s, [pc |-> label, driver |-> d, phone |-> p, code |-> None, rejected |-> r])
  /\ raced' = Contested(d)
  /\ UNCHANGED <<user, app, trip, stripped, died, lost, codeless>>

-----------------------------------------------------------------------------
(* Accounts come into being.                                               *)

(* Mutant: phones are compared before they are normalised.                  *)
PhoneUnchecked(p, i) == p \in Phones
PhoneFree(p, i) == \A j \in Accounts \ {i} : user[j].phone # p

PublicRegister(s) ==
  \E p \in Phones \ TakenPhones : Begin(s, "registerUser", None, p, FALSE)

ThenDriver(s, d) == Goto(s, [req[s] EXCEPT !.pc = "registerDriver", !.driver = d])

(* The unique index on User.phone decides between two registrations.        *)
RegisterUser(s) ==
  LET p == req[s].phone
  IN  /\ At(s, "registerUser")
      /\ IF PhoneFree(p, None)
         THEN \E d \in Drivers :
                /\ user[d].status = "NONE"
                /\ user' = [user EXCEPT ![d] = [status |-> "PENDING_VERIFICATION", phone |-> p]]
                /\ ThenDriver(s, d)
         ELSE Finish(s) /\ UNCHANGED user
      /\ UNCHANGED <<app, trip, raced, stripped, died, lost, codeless>>

(* One driver row per user, and none without its user.                      *)
Registrable(d) == Present(d) /\ app[d].status = "NONE"

RegisterDriver(s) ==
  LET d == req[s].driver
  IN  /\ At(s, "registerDriver")
      /\ app' = IF Registrable(d) THEN [app EXCEPT ![d].status = "DRAFT"] ELSE app
      /\ Finish(s)
      /\ UNCHANGED <<user, trip, raced, stripped, died, lost, codeless>>

CreateDriverByAdmin(s) ==
  \E p \in Phones \ TakenPhones : Begin(s, "createCode", None, p, FALSE)

(* Mutant: when no code is found, none is returned.                         *)
CodesOrNone == (Codes \ TakenCodes) \cup {None}
FreeCodes == Codes \ TakenCodes

(* nextActivationCode, or the check of a code given by hand.                *)
NextActivationCode(s, from, to) ==
  /\ At(s, from)
  /\ \E c \in FreeCodes : Goto(s, [req[s] EXCEPT !.pc = to, !.code = c])
  /\ UNCHANGED <<user, app, trip, raced, stripped, died, lost, codeless>>

CreateDriverCommit(s) ==
  LET r == req[s]
  IN  /\ At(s, "createCommit")
      /\ IF PhoneFree(r.phone, None) /\ r.code \notin TakenCodes
         THEN \E d \in Drivers, parts \in {{"data"}, {"data", "vehicle"}} :
                /\ user[d].status = "NONE"
                /\ user' = [user EXCEPT ![d] = [status |-> "ACTIVE", phone |-> r.phone]]
                /\ app' = [app EXCEPT ![d] = [status |-> "APPROVED", code |-> r.code, parts |-> parts]]
         ELSE UNCHANGED <<user, app>>
      /\ Finish(s)
      /\ UNCHANGED <<trip, raced, stripped, died, lost, codeless>>

(* findOrCreateDevDriverForPlaceholder, where the development bypass is on:  *)
(* the phone is nobody's, or of a user without a driver.  Approved rows     *)
(* without a code are also left from before there were codes.               *)
DevDriver(d) ==
  /\ app[d].status = "NONE"
  /\ \/ Present(d) /\ UNCHANGED user
     \/ /\ user[d].status = "NONE"
        /\ \E p \in Phones : /\ PhoneFree(p, None)
                             /\ user' = [user EXCEPT ![d] = [status |-> "ACTIVE", phone |-> p]]
  /\ \E parts \in {{}, Parts} :
       app' = [app EXCEPT ![d] = [status |-> "APPROVED", code |-> None, parts |-> parts]]
  /\ raced' = Contested(d)
  /\ codeless' = codeless \cup {d}
  /\ UNCHANGED <<trip, req, stripped, died, lost>>

(* Operators: one transaction each; the unique index refuses a phone.       *)
CreateOperator(o) ==
  /\ user[o].status = "NONE"
  /\ \E p \in Phones, st \in {"ACTIVE", "SUSPENDED"} :
       PhoneFree(p, o) /\ user' = [user EXCEPT ![o] = [status |-> st, phone |-> p]]
  /\ UNCHANGED <<app, trip, req, raced, stripped, died, lost, codeless>>

UpdateOperator(o) ==
  /\ Present(o)
  /\ \E p \in Phones, st \in {"ACTIVE", "SUSPENDED"} :
       PhoneFree(p, o) /\ user' = [user EXCEPT ![o] = [status |-> st, phone |-> p]]
  /\ UNCHANGED <<app, trip, req, raced, stripped, died, lost, codeless>>

DeleteOperator(o) ==
  /\ Present(o)
  /\ user' = [user EXCEPT ![o] = [status |-> "DELETED", phone |-> None]]
  /\ UNCHANGED <<app, trip, req, raced, stripped, died, lost, codeless>>

(* The driver changes the phone: looked up, then written.                   *)
UpdatePhone(s) ==
  \E d \in Drivers, p \in Phones : IsDriver(d) /\ PhoneFree(p, d) /\ Begin(s, "phone", d, p, FALSE)

UpdatePhoneWrite(s) ==
  LET d == req[s].driver
  IN  /\ At(s, "phone")
      /\ user' = IF Present(d) /\ PhoneFree(req[s].phone, d)
                 THEN [user EXCEPT ![d].phone = req[s].phone] ELSE user
      /\ Finish(s)
      /\ UNCHANGED <<app, trip, raced, stripped, died, lost, codeless>>

-----------------------------------------------------------------------------
(* The application.  Updates are by id: they fail only if the row is gone. *)

Editable(d) == app[d].status \in {"DRAFT", "REJECTED"}

PatchProfile(s) ==
  \E d \in Drivers : /\ IsDriver(d) /\ Editable(d)
                     /\ Begin(s, "patch", d, None, app[d].status = "REJECTED")

(* Personal data may be filled in or emptied; a vehicle in the same request *)
(* is a later statement.                                                    *)
PatchWrite(s) ==
  LET d == req[s].driver
  IN  /\ At(s, "patch")
      /\ IF IsDriver(d)
         THEN /\ \E data \in {{}, {"data"}} :
                   app' = [app EXCEPT ![d].parts = (@ \ {"data"}) \cup data,
                                      ![d].status = IF req[s].rejected THEN "DRAFT" ELSE @]
              /\ Finish(s) \/ Step(s, "patchVehicle")
         ELSE Finish(s) /\ UNCHANGED app
      /\ UNCHANGED <<user, trip, raced, stripped, died, lost, codeless>>

PatchVehicle(s) ==
  LET d == req[s].driver
  IN  /\ At(s, "patchVehicle")
      /\ app' = IF IsDriver(d) THEN [app EXCEPT ![d].parts = @ \cup {"vehicle"}] ELSE app
      /\ Finish(s)
      /\ UNCHANGED <<user, trip, raced, stripped, died, lost, codeless>>

Submittable(d) == app[d].status = "DRAFT" /\ {"data", "vehicle"} \subseteq app[d].parts

SubmitForReview(s) ==
  \E d \in Drivers : IsDriver(d) /\ Submittable(d) /\ Begin(s, "submitDocuments", d, None, FALSE)

SubmitDocuments(s) ==
  /\ At(s, "submitDocuments")
  /\ IF "documents" \in app[req[s].driver].parts THEN Step(s, "submit") ELSE Finish(s)
  /\ UNCHANGED <<user, app, trip, raced, stripped, died, lost, codeless>>

AddDocument(s) ==
  \E d \in Drivers : IsDriver(d) /\ Editable(d) /\ Begin(s, "document", d, None, FALSE)

AddDocumentWrite(s) ==
  LET d == req[s].driver
  IN  /\ At(s, "document")
      /\ app' = IF IsDriver(d) THEN [app EXCEPT ![d].parts = @ \cup {"documents"}] ELSE app
      /\ Finish(s)
      /\ UNCHANGED <<user, trip, raced, stripped, died, lost, codeless>>

(* Administrators add and remove vehicles and documents in any status.      *)
AdminAddPart(d, part) ==
  /\ IsDriver(d)
  /\ app' = [app EXCEPT ![d].parts = @ \cup {part}]
  /\ UNCHANGED <<user, trip, req, raced, stripped, died, lost, codeless>>

AdminRemovePart(d, part) ==
  /\ IsDriver(d) /\ part \in app[d].parts
  /\ app' = [app EXCEPT ![d].parts = @ \ {part}]
  /\ stripped' = stripped \cup {d}
  /\ UNCHANGED <<user, trip, req, raced, died, lost, codeless>>

-----------------------------------------------------------------------------
(* The review.                                                             *)

(* Mutant: a rejected application may be approved without a new submission. *)
ApprovableRejected(d) == app[d].status \in {"SUBMITTED", "UNDER_REVIEW", "REJECTED"}
Approvable(d) == app[d].status \in {"SUBMITTED", "UNDER_REVIEW"}

ApproveDriver(s) ==
  \E d \in Drivers :
     /\ IsDriver(d)
     /\ \/ Approvable(d) /\ Begin(s, "approveCode", d, None, FALSE)
        \/ /\ app[d].status = "APPROVED" /\ user[d].status = "SUSPENDED"
           /\ Begin(s, "reactivateCode", d, None, FALSE)

WithCode(d, c) == [app[d] EXCEPT !.status = "APPROVED", !.code = c]

ApproveCommit(s) ==
  LET d == req[s].driver
      c == req[s].code
  IN  /\ At(s, "approve") \/ At(s, "reactivate")
      /\ IF IsDriver(d) /\ c \notin TakenCodes
         THEN /\ user' = [user EXCEPT ![d].status = "ACTIVE"]
              /\ app' = [app EXCEPT ![d] =
                           IF At(s, "approve") THEN WithCode(d, c) ELSE [@ EXCEPT !.code = c]]
         ELSE UNCHANGED <<user, app>>
      /\ Finish(s)
      /\ UNCHANGED <<trip, raced, stripped, died, lost, codeless>>

(* Mutant: an approved driver may be rejected.                              *)
RejectableAny(d) == app[d].status # "NONE"
Rejectable(d) == app[d].status # "APPROVED"

RejectDriver(s) ==
  \E d \in Drivers : IsDriver(d) /\ Rejectable(d) /\ Begin(s, "REJECTED", d, None, FALSE)

SetDriverUnderReview(s) ==
  \E d \in Drivers :
     IsDriver(d) /\ app[d].status = "SUBMITTED" /\ Begin(s, "UNDER_REVIEW", d, None, FALSE)

(* The last statement of submit, review and reject.                         *)
WriteStatus(s) ==
  LET d == req[s].driver
      to == IF At(s, "submit") THEN "SUBMITTED" ELSE req[s].pc
  IN  /\ req[s].pc \in {"submit", "UNDER_REVIEW", "REJECTED"}
      /\ app' = IF IsDriver(d) THEN [app EXCEPT ![d].status = to] ELSE app
      /\ Finish(s)
      /\ UNCHANGED <<user, trip, raced, stripped, died, lost, codeless>>

SuspendDriver(d) ==
  /\ IsDriver(d)
  /\ user' = [user EXCEPT ![d].status = "SUSPENDED"]
  /\ UNCHANGED <<app, trip, req, raced, stripped, died, lost, codeless>>

Deletable(d) == IsDriver(d) /\ d \notin trip

DeleteDriverAccount(s) ==
  \E d \in Drivers : Deletable(d) /\ Begin(s, "delete", d, None, FALSE)

(* Orders, then the user; everything that refers to it goes with it.        *)
DeleteCommit(s) ==
  LET d == req[s].driver
  IN  /\ At(s, "delete")
      /\ user' = [user EXCEPT ![d] = [status |-> "DELETED", phone |-> None]]
      /\ app' = [app EXCEPT ![d] = NoApp]
      /\ trip' = trip \ {d}
      /\ lost' = lost \cup (trip \cap {d})
      /\ Finish(s)
      /\ UNCHANGED <<raced, stripped, died, codeless>>

(* Dispatch, as far as deletion looks at it.                                *)
TripOpens(d) ==
  /\ app[d].status = "APPROVED" /\ user[d].status = "ACTIVE"
  /\ trip' = trip \cup {d}
  /\ raced' = Contested(d)
  /\ UNCHANGED <<user, app, req, stripped, died, lost, codeless>>

TripEnds(d) ==
  /\ d \in trip
  /\ trip' = trip \ {d}
  /\ UNCHANGED <<user, app, req, raced, stripped, died, lost, codeless>>

Abort(s) ==
  /\ ~At(s, "idle")
  /\ died' = died \cup (IF At(s, "registerDriver") THEN {req[s].driver} ELSE {})
  /\ Finish(s)
  /\ UNCHANGED <<user, app, trip, raced, stripped, lost, codeless>>

Init ==
  /\ user = [i \in Accounts |-> NoUser]
  /\ app = [d \in Drivers |-> NoApp]
  /\ trip = {}
  /\ req = [s \in Slots |-> Idle]
  /\ raced = {} /\ stripped = {} /\ died = {} /\ lost = {} /\ codeless = {}

Next ==
  \/ \E s \in Slots :
       \/ PublicRegister(s) \/ RegisterUser(s) \/ RegisterDriver(s)
       \/ CreateDriverByAdmin(s) \/ CreateDriverCommit(s)
       \/ NextActivationCode(s, "createCode", "createCommit")
       \/ NextActivationCode(s, "approveCode", "approve")
       \/ NextActivationCode(s, "reactivateCode", "reactivate")
       \/ UpdatePhone(s) \/ UpdatePhoneWrite(s)
       \/ PatchProfile(s) \/ PatchWrite(s) \/ PatchVehicle(s)
       \/ SubmitForReview(s) \/ SubmitDocuments(s) \/ AddDocument(s) \/ AddDocumentWrite(s)
       \/ ApproveDriver(s) \/ ApproveCommit(s) \/ RejectDriver(s) \/ SetDriverUnderReview(s)
       \/ WriteStatus(s) \/ DeleteDriverAccount(s) \/ DeleteCommit(s) \/ Abort(s)
  \/ \E d \in Drivers :
       \/ DevDriver(d) \/ SuspendDriver(d) \/ TripOpens(d) \/ TripEnds(d)
       \/ \E part \in {"vehicle", "documents"} : AdminAddPart(d, part) \/ AdminRemovePart(d, part)
  \/ \E o \in Operators : CreateOperator(o) \/ UpdateOperator(o) \/ DeleteOperator(o)

Spec == Init /\ [][Next]_vars

-----------------------------------------------------------------------------
(* Properties.                                                             *)

(* Rows and requests are well formed.                                      *)
TypeOK ==
  /\ user \in [Accounts -> [status : Status, phone : Phones \cup {None}]]
  /\ app \in [Drivers -> [status : Onboarding, code : Codes \cup {None}, parts : SUBSET Parts]]
  /\ req \in [Slots -> [pc : Labels, driver : Drivers \cup {None}, phone : Phones \cup {None},
                        code : Codes \cup {None}, rejected : BOOLEAN]]
  /\ \A s \in Slots : req[s].pc \in {"createCommit", "approve", "reactivate"} => req[s].code # None
  /\ trip \subseteq Drivers /\ raced \subseteq Drivers /\ stripped \subseteq Drivers
  /\ died \subseteq Drivers /\ lost \subseteq Drivers /\ codeless \subseteq Drivers

(* Nobody else answers to a present account's phone, driver or operator,   *)
(* however registration, administrators and changes of phone interleave.   *)
PhonesDistinct ==
  \A i, j \in Accounts : i # j /\ Present(i) => user[i].phone # user[j].phone

(* No two drivers have the same activation code, whoever chose it.         *)
CodesDistinct ==
  \A d, e \in Drivers : d # e /\ app[d].code # None => app[d].code # app[e].code

(* An approved driver has an activation code and an account that is        *)
(* neither pending nor missing, whatever ran at the same time, unless it   *)
(* came without one.                                                       *)
ApprovedHasCode ==
  \A d \in Drivers \ codeless : app[d].status = "APPROVED" =>
     app[d].code # None /\ user[d].status \in {"ACTIVE", "SUSPENDED"}

(* Unless two requests worked on a driver at once, only an approved driver *)
(* has an active account.                                                  *)
ActiveMeansApproved ==
  \A d \in Drivers \ raced : user[d].status = "ACTIVE" => app[d].status = "APPROVED"

(* What a reviewer sees is complete, unless two requests worked on it at   *)
(* once or an administrator took something away.                           *)
ReviewedIsComplete ==
  \A d \in Drivers \ (raced \cup stripped) :
     app[d].status \in {"SUBMITTED", "UNDER_REVIEW"} => app[d].parts = Parts

(* A user without a driver row is a registration under way or one that     *)
(* died between its two statements; it keeps its phone either way.         *)
HalfRegistered ==
  \A d \in Drivers : Present(d) /\ app[d].status = "NONE" =>
     d \in died \/ \E s \in Slots : At(s, "registerDriver") /\ req[s].driver = d

(* Whatever runs at the same time and dies half way, the rows of an account *)
(* go together: phone, code, user and driver.                              *)
RowsAgree == PhonesDistinct /\ CodesDistinct /\ ApprovedHasCode /\ HalfRegistered

(* A driver is deleted with an open trip only if the trip was opened while *)
(* the deletion was under way, after it had looked.                        *)
TripNotLost == lost \subseteq raced

(* What the checks of the endpoints secure as long as no two requests work *)
(* on the same driver at once.                                             *)
UncontestedIsSound == ActiveMeansApproved /\ ReviewedIsComplete /\ TripNotLost

(* The application keeps to its stages, until the account is deleted or two *)
(* requests work on it at once.                                            *)
Named == [NONE |-> "none", DRAFT |-> "draft", SUBMITTED |-> "submitted",
          UNDER_REVIEW |-> "review", APPROVED |-> "approved", REJECTED |-> "rejected"]

Stage(d) == IF user[d].status = "DELETED" THEN "deleted"
            ELSE IF d \in raced THEN "contested" ELSE Named[app[d].status]

Lifecycle == INSTANCE Application WITH stage <- [d \in Drivers |-> Stage(d)]
ApplicationImplemented == Lifecycle!Spec
=============================================================================
