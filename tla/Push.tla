-------------------------------- MODULE Push --------------------------------
(***************************************************************************)
(* PushService.notifyDriver with PUSH_MODE=fcm, and the endpoint by which  *)
(* the driver's app registers its device.  A push reads the device token,  *)
(* awaits FCM, and clears the token of the driver if FCM disowns it.       *)
(***************************************************************************)
EXTENDS Fleet, FiniteSets

CONSTANTS
  Devices,      (* FCM registration tokens                                  *)
  Pushes        (* ids of NotificationLog rows: a bound                     *)

ASSUME PushAssumption == NoValue \notin Devices

VARIABLES
  fcmToken,   (* Driver.fcmToken                                            *)
  push,       (* NotificationLog rows with the call that sends each         *)
  alive,      (* environment: tokens FCM delivers to                        *)
  device,     (* history: the token each driver's app registered last       *)
  swapped     (* history: drivers whose token changed with a push in flight *)

pushVars == <<fcmToken, push, alive, device, swapped>>

NoPush == [pc |-> "none", status |-> "none", driver |-> NoValue, token |-> NoValue]

(* Reads the token and logs the row.                                        *)
NotifyDriver(q, d) ==
  /\ push[q].pc = "none"
  /\ push' = [push EXCEPT ![q] = [pc |-> "send", status |-> "QUEUED", driver |-> d,
                                  token |-> fcmToken[d]]]
  /\ UNCHANGED <<fcmToken, alive, device, swapped>>

PushDone(q, st) == push' = [push EXCEPT ![q].pc = "done", ![q].status = st]

PushSent(q) ==
  /\ push[q].pc = "send" /\ push[q].token \in alive
  /\ PushDone(q, "SENT")
  /\ UNCHANGED <<fcmToken, alive, device, swapped>>

(* Mutant: any failure clears the token.                                    *)
ForgetsOnAnyError(q) == TRUE
ForgetsToken(q) == push[q].token # NoValue /\ push[q].token \notin alive

(* No token, FCM not configured, an error of FCM, or a token it disowns.    *)
PushFailed(q) ==
  /\ push[q].pc = "send"
  /\ \/ ForgetsToken(q) /\ push' = [push EXCEPT ![q].pc = "forget"]
     \/ PushDone(q, "FAILED")
  /\ UNCHANGED <<fcmToken, alive, device, swapped>>

(* By driver id: whatever token the driver has now.  A failing update is    *)
(* ignored.                                                                 *)
ForgetToken(q) ==
  /\ push[q].pc = "forget"
  /\ UNCHANGED fcmToken \/ fcmToken' = [fcmToken EXCEPT ![push[q].driver] = NoValue]
  /\ PushDone(q, "FAILED")
  /\ UNCHANGED <<alive, device, swapped>>

SetDevice(d, t) ==
  /\ t \in alive \cup {NoValue}
  /\ fcmToken' = [fcmToken EXCEPT ![d] = t]
  /\ device' = [device EXCEPT ![d] = t]
  /\ swapped' = IF \E q \in Pushes : push[q].pc \in {"send", "forget"} /\ push[q].driver = d
                THEN swapped \cup {d} ELSE swapped
  /\ UNCHANGED <<alive, push>>

(* The app is uninstalled or its data wiped.                                *)
DeviceDies(t) ==
  /\ t \in alive
  /\ alive' = alive \ {t}
  /\ UNCHANGED <<fcmToken, push, device, swapped>>

(* The process dies: the row stays QUEUED.                                  *)
PushDies(q) ==
  /\ push[q].pc \in {"send", "forget"}
  /\ push' = [push EXCEPT ![q].pc = "done"]
  /\ UNCHANGED <<fcmToken, alive, device, swapped>>

PushInit ==
  /\ fcmToken = [d \in Drivers |-> NoValue]
  /\ push = [q \in Pushes |-> NoPush]
  /\ alive = Devices
  /\ device = [d \in Drivers |-> NoValue]
  /\ swapped = {}

PushNext ==
  \/ \E q \in Pushes : PushSent(q) \/ PushFailed(q) \/ ForgetToken(q) \/ PushDies(q)
                       \/ \E d \in Drivers : NotifyDriver(q, d)
  \/ \E d \in Drivers, t \in Devices \cup {NoValue} : SetDevice(d, t)
  \/ \E t \in Devices : DeviceDies(t)

PushSpec == PushInit /\ [][PushNext]_pushVars

-----------------------------------------------------------------------------
(* Properties.                                                             *)

(* Rows are well formed, and a row that was settled has no call at work.   *)
PushTypeOK ==
  /\ fcmToken \in [Drivers -> Devices \cup {NoValue}] /\ device \in [Drivers -> Devices \cup {NoValue}]
  /\ push \in [Pushes -> [pc : {"none", "send", "forget", "done"},
                          status : {"none", "QUEUED", "SENT", "FAILED"},
                          driver : Drivers \cup {NoValue}, token : Devices \cup {NoValue}]]
  /\ \A q \in Pushes : push[q].status \in {"SENT", "FAILED"} => push[q].pc = "done"
  /\ alive \subseteq Devices /\ swapped \subseteq Drivers

(* A driver whose device FCM delivers to keeps its token, unless the app   *)
(* registered while a push to that driver was in flight: that push may     *)
(* clear the new token for the fault of the old.                           *)
DeviceReachable ==
  \A d \in Drivers \ swapped : device[d] \in alive => fcmToken[d] = device[d]
=============================================================================
