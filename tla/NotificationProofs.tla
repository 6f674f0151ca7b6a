------------------------- MODULE NotificationProofs -------------------------
(***************************************************************************)
(* Proofs about Sms, Push, News and Chat, for any messages, retries,       *)
(* devices, drivers, zones and news: what each tells somebody is so.       *)
(***************************************************************************)
EXTENDS MCNotifications, FiniteSetTheorems, TLAPS

-----------------------------------------------------------------------------
(* The inductive invariants.                                               *)

(* A message whose acceptance is not in doubt has at most one copy, and is  *)
(* not tried again once it has it.                                         *)
CopyOK(m) ==
  /\ copies[m] > 1 => doubt[m]
  /\ copies[m] > 0 /\ ~doubt[m] => sending[m].pc \in {"mark", "done", "idle"}
  /\ sending[m].pc = "mark" => copies[m] > 0

(* A request has a row, is of the mode, and has told its caller nothing yet. *)
RowOK(m) ==
  /\ smsLog[m] = "none" => /\ sending[m].pc = "idle" /\ verdict[m] = "none"
                           /\ copies[m] = 0 /\ fate[m] = {}
  /\ sending[m].pc \in {"log", "blind"} => sending[m].pc = mode
  /\ sending[m].pc = "bearer" => mode = "eskiz"
  /\ verdict[m] = "ok" /\ sending[m].must => copies[m] > 0 \/ mode = "blind"

(* The provider settles no more than it accepted, and a row says FAILED     *)
(* because it reports so or because the sender gave up.                    *)
FateOK(m) ==
  /\ "DELIVERED" \in fate[m] \/ "FAILED" \in fate[m] => copies[m] > 0
  /\ "DELIVERED" \in fate[m] /\ "FAILED" \in fate[m] => copies[m] > 1
  /\ smsLog[m] = "FAILED" =>
       doubt[m] \/ "FAILED" \in fate[m] \/ (copies[m] = 0 /\ sending[m].pc = "done")

(* Every attempt was spent on a fault or on a revocation of the bearer; one *)
(* that is lost already, or will be to a bearer revoked, is accounted for.  *)
AttemptOK(m) ==
  /\ sending[m].pc = "fail" => sending[m].attempt = MaxRetries
  /\ IF \/ sending[m].pc = "fail" \/ bearer = "dead"
        \/ sending[m].pc = "send" /\ sending[m].bearer = "dead"
     THEN sending[m].attempt < faults[m] + deaths
     ELSE sending[m].attempt <= faults[m] + deaths
  /\ mode # "eskiz" => bearer = "none" /\ sending[m].bearer = "none"

MessageOK(m) == CopyOK(m) /\ RowOK(m) /\ FateOK(m) /\ AttemptOK(m)
SmsIInv == SmsTypeOK /\ \A m \in Messages : MessageOK(m)

(* The row has the token the app registered or none, and so, unless the     *)
(* app registered meanwhile, has every call in flight; a call that is about *)
(* to clear it has been disowned.                                          *)
InFlight(q) == push[q].pc \in {"send", "forget"}

CallOK(q) ==
  /\ InFlight(q) => push[q].driver \in Drivers
  /\ InFlight(q) /\ push[q].driver \notin swapped =>
       push[q].token \in {device[push[q].driver], NoValue}
  /\ push[q].pc = "forget" => push[q].token # NoValue /\ push[q].token \notin alive

PushIInv ==
  /\ PushTypeOK /\ DeviceReachable
  /\ \A d \in Drivers : fcmToken[d] \in {device[d], NoValue}
  /\ \A q \in Pushes : CallOK(q)

(* Who is told, or about to be, is of the broadcast's audience, and the row *)
(* that is stored has that audience; what is on a list is recorded so.  A   *)
(* request to mark news read looks for it with the driver's zone, or the    *)
(* driver's move is recorded.                                              *)
Told(b, d) == <<b, d>> \in notified

BroadcastOK(b) ==
  /\ cast[b].pc = "none" => \A d \in Drivers : ~Told(b, d)
  /\ cast[b].pc # "done" => news[b].state = "none"
  /\ cast[b].pc # "sending" => cast[b].todo = {}
  /\ cast[b].pc = "sending" => \A d \in Drivers \ altered :
       d \in cast[b].todo \/ Told(b, d) => Matches(cast[b].audience, cast[b].key, d)
  /\ cast[b].pc = "done" /\ b \notin aborted \cup altered /\ news[b].state # "gone" =>
       /\ news[b].state = "posted"
       /\ \A d \in Drivers \ altered : Told(b, d) => Matches(news[b].audience, news[b].key, d)

Addressed(d) ==
  /\ \A b \in News : Visible(b, d) => <<b, d>> \in addressed
  /\ marking[d].pc = "insert" => \A b \in marking[d].ids : <<b, d>> \in addressed \cup moved
  /\ marking[d].pc = "find" =>
       \/ marking[d].zone = driver[d].zone
       \/ \A b \in marking[d].ids : <<b, d>> \in moved

Audiences == {"all_approved", "zone", "single_driver"}
Keys == Zones \cup Drivers \cup {NoValue}
NewsTyped ==
  /\ NewsTypeOK
  /\ cast \in [News -> [pc : {"none", "sending", "done"}, audience : Audiences, key : Keys,
                        todo : SUBSET Drivers]]
  /\ news \in [News -> [state : {"none", "posted", "gone"}, audience : Audiences, key : Keys]]

NewsIInv ==
  /\ NewsTyped /\ ReadWasAddressed
  /\ \A b \in News : BroadcastOK(b)
  /\ \A d \in Drivers : Addressed(d)

(* Every message that has its time stamp and was neither listed nor marked  *)
(* unseen is newer than the last reading.                                  *)
StampOK(m) ==
  LET c == message[m].channel
  IN  message[m].pc \in {"store", "stored"} /\ message[m].at # 0 /\ m \notin seen \cup slipped =>
        message[m].at > thread[c].readAt

(* In a channel where no two sends overlapped there is one send at most; it *)
(* creates the thread only if there is none, and stamps its message last.   *)
ChannelOK(c) ==
  /\ thread[c].last <= now /\ thread[c].readAt <= now
  /\ c \notin overlapped =>
       /\ thread[c].last \in Newest(c)
       /\ \A m, n \in Sending(c) : m = n
       /\ \A m \in Sending(c) :
            /\ message[m].pc = "create" => ~thread[c].exists
            /\ message[m].at # 0 => message[m].at >= thread[c].last

ChatIInv ==
  /\ ChatTypeOK /\ RefusedOnlyInRace
  /\ \A m \in ChatMessages : /\ StampOK(m)
                             /\ message[m].pc = "stored" => message[m].at # 0
                             /\ message[m].pc \in {"none", "find", "create"} => message[m].at = 0
  /\ \A c \in Channels : ChannelOK(c)

-----------------------------------------------------------------------------
(* SMS.                                                                    *)

Sendings == [pc : {"idle", "log", "blind", "bearer", "send", "mark", "fail", "done"},
             attempt : 0..MaxRetries, must : BOOLEAN, bearer : {"none", "good", "dead"}]

LEMMA MessageRows ==
  ASSUME SmsIInv, NEW m \in Messages
  PROVE  /\ sending[m] \in Sendings /\ copies[m] \in 0..(MaxRetries + 1)
         /\ faults[m] \in 0..(MaxRetries + 1) /\ deaths \in Nat /\ MaxRetries \in Nat
         /\ sending[m].attempt \in 0..MaxRetries /\ MessageOK(m)
         /\ fate[m] \in SUBSET {"SENT", "DELIVERED", "FAILED"}
BY SmsAssumption DEF SmsIInv, SmsTypeOK, Sendings

(* A step about one message, which revokes no bearer.                      *)
LEMMA OneMessage ==
  ASSUME SmsIInv, SmsTypeOK', NEW m \in Messages, MessageOK(m)', UNCHANGED <<mode, deaths>>,
         bearer' = "dead" => bearer = "dead",
         \A n \in Messages \ {m} :
           /\ smsLog'[n] = smsLog[n] /\ sending'[n] = sending[n] /\ verdict'[n] = verdict[n]
           /\ copies'[n] = copies[n] /\ fate'[n] = fate[n] /\ doubt'[n] = doubt[n]
           /\ faults'[n] = faults[n]
  PROVE  SmsIInv'
<1>1. ASSUME NEW n \in Messages \ {m}
      PROVE  MessageOK(n)'
  <2>1. MessageOK(n) /\ sending[n].attempt \in Nat /\ faults[n] \in Nat /\ deaths \in Nat
    BY MessageRows
  <2>2. CopyOK(n)' /\ RowOK(n)' /\ FateOK(n)'
    BY <2>1 DEF MessageOK, CopyOK, RowOK, FateOK
  <2>3. mode # "eskiz" => bearer' = "none"
    BY DEF MessageOK, AttemptOK
  <2>4. AttemptOK(n)'
    BY <2>1, <2>3 DEF MessageOK, AttemptOK
  <2> QED BY <2>2, <2>4 DEF MessageOK
<1> QED BY <1>1 DEF SmsIInv

(* What the steps of a request do to the row of the request.               *)
LEMMA SteppedTo ==
  ASSUME SmsIInv, NEW m \in Messages,
         NEW label \in {"idle", "log", "blind", "bearer", "send", "mark", "fail", "done"},
         SmsStep(m, label)
  PROVE  /\ sending' \in [Messages -> Sendings]
         /\ sending'[m].pc = label /\ sending'[m].attempt = sending[m].attempt
         /\ sending'[m].must = sending[m].must /\ sending'[m].bearer = sending[m].bearer
         /\ \A n \in Messages \ {m} : sending'[n] = sending[n]
<1>1. sending \in [Messages -> Sendings]
  BY DEF SmsIInv, SmsTypeOK, Sendings
<1> DEFINE r == [sending[m] EXCEPT !.pc = label]
<1>2. /\ r \in Sendings /\ r.pc = label /\ r.attempt = sending[m].attempt
      /\ r.must = sending[m].must /\ r.bearer = sending[m].bearer
      /\ sending' = [sending EXCEPT ![m] = r]
  BY <1>1 DEF Sendings, SmsStep
<1> HIDE DEF r
<1> QED BY <1>1, <1>2

LEMMA Caught ==
  ASSUME SmsIInv, NEW m \in Messages, NEW why \in {"fault", "bearer"}, CatchAttempt(m, why)
  PROVE  /\ sending' \in [Messages -> Sendings] /\ faults' \in [Messages -> 0..(MaxRetries + 1)]
         /\ sending'[m].must = sending[m].must /\ sending'[m].bearer = sending[m].bearer
         /\ IF sending[m].attempt < MaxRetries
            THEN /\ sending'[m].attempt = sending[m].attempt + 1
                 /\ sending'[m].pc = IF mode = "eskiz" THEN "bearer" ELSE "send"
            ELSE sending'[m].attempt = sending[m].attempt /\ sending'[m].pc = "fail"
         /\ faults'[m] >= faults[m]
         /\ why = "fault" => faults'[m] = faults[m] + 1 \/ faults'[m] > MaxRetries
         /\ \A n \in Messages \ {m} : sending'[n] = sending[n] /\ faults'[n] = faults[n]
<1>1. /\ sending \in [Messages -> Sendings] /\ faults \in [Messages -> 0..(MaxRetries + 1)]
      /\ MaxRetries \in Nat
  BY SmsAssumption DEF SmsIInv, SmsTypeOK, Sendings
<1>2. /\ Again(m) \in Sendings /\ Again(m).must = sending[m].must /\ Again(m).bearer = sending[m].bearer
      /\ IF sending[m].attempt < MaxRetries
         THEN /\ Again(m).attempt = sending[m].attempt + 1
              /\ Again(m).pc = IF mode = "eskiz" THEN "bearer" ELSE "send"
         ELSE Again(m).attempt = sending[m].attempt /\ Again(m).pc = "fail"
  <2>1. sending[m].attempt \in 0..MaxRetries
    BY <1>1 DEF Sendings
  <2>2. CASE sending[m].attempt < MaxRetries
    <3>1. Again(m) = [sending[m] EXCEPT !.attempt = @ + 1, !.pc = IF mode = "eskiz" THEN "bearer" ELSE "send"]
      BY <2>2 DEF Again
    <3>2. sending[m].attempt + 1 \in 0..MaxRetries /\ sending[m] \in Sendings
      BY <1>1, <2>1, <2>2
    <3> QED BY <2>2, <3>1, <3>2 DEF Sendings
  <2>3. CASE ~(sending[m].attempt < MaxRetries)
    <3>1. Again(m) = [sending[m] EXCEPT !.pc = "fail"]
      BY <2>3 DEF Again
    <3> QED BY <1>1, <2>3, <3>1 DEF Sendings
  <2> QED BY <2>2, <2>3
<1>3. sending' = [sending EXCEPT ![m] = Again(m)]
  BY DEF CatchAttempt
<1>4. /\ sending' \in [Messages -> Sendings] /\ sending'[m] = Again(m)
      /\ \A n \in Messages \ {m} : sending'[n] = sending[n]
  BY <1>1, <1>2, <1>3
<1>5. /\ faults' \in [Messages -> 0..(MaxRetries + 1)] /\ faults'[m] >= faults[m]
      /\ why = "fault" => faults'[m] = faults[m] + 1 \/ faults'[m] > MaxRetries
      /\ \A n \in Messages \ {m} : faults'[n] = faults[n]
  <2>1. CASE why = "fault" /\ faults[m] <= MaxRetries
    BY <1>1, <2>1 DEF CatchAttempt
  <2>2. CASE ~(why = "fault" /\ faults[m] <= MaxRetries)
    BY <1>1, <2>2 DEF CatchAttempt
  <2> QED BY <2>1, <2>2
<1> QED BY <1>2, <1>4, <1>5

(* After a caught failure: the copies in doubt, if any, and the attempt are *)
(* accounted for.                                                          *)
LEMMA CaughtOK ==
  ASSUME SmsIInv, NEW m \in Messages, NEW why \in {"fault", "bearer"}, CatchAttempt(m, why),
         UNCHANGED <<mode, smsLog, verdict, deaths>>, SmsTypeOK',
         sending[m].pc \in {"bearer", "send", "mark"},
         bearer' \in {bearer, "none"},
         why = "bearer" => sending[m].bearer = "dead" /\ sending[m].pc = "send" /\ bearer' = "none",
         \/ UNCHANGED <<copies, fate, doubt>> /\ sending[m].pc # "mark"
         \/ /\ doubt' = [doubt EXCEPT ![m] = TRUE]
            /\ UNCHANGED <<copies, fate>> \/ Accepted(m)
  PROVE  SmsIInv'
<1>1. /\ sending[m] \in Sendings /\ copies[m] \in Nat /\ faults[m] \in Nat /\ deaths \in Nat
      /\ MaxRetries \in Nat /\ sending[m].attempt \in 0..MaxRetries /\ MessageOK(m)
      /\ copies \in [Messages -> 0..(MaxRetries + 1)] /\ doubt \in [Messages -> BOOLEAN]
      /\ fate \in [Messages -> SUBSET {"SENT", "DELIVERED", "FAILED"}]
  BY MessageRows DEF SmsIInv, SmsTypeOK
<1>2. /\ sending'[m].must = sending[m].must /\ sending'[m].bearer = sending[m].bearer
      /\ sending'[m].pc \in {"bearer", "send", "fail"}
      /\ sending'[m].pc = "bearer" => mode = "eskiz"
      /\ faults'[m] \in Nat /\ faults'[m] >= faults[m]
  BY Caught, <1>1
<1>3. /\ copies'[m] >= copies[m] /\ copies'[m] \in Nat /\ (fate'[m] = fate[m] \/ fate'[m] = fate[m] \cup {"SENT"})
      /\ \A n \in Messages \ {m} : copies'[n] = copies[n] /\ fate'[n] = fate[n] /\ doubt'[n] = doubt[n]
      /\ doubt'[m] \/ (doubt'[m] = doubt[m] /\ copies'[m] = copies[m] /\ sending[m].pc # "mark")
      /\ fate'[m] \cap {"DELIVERED", "FAILED"} = fate[m] \cap {"DELIVERED", "FAILED"}
  BY <1>1 DEF Accepted
<1>4. CopyOK(m)'
  BY <1>1, <1>2, <1>3 DEF MessageOK, CopyOK
<1>5. RowOK(m)'
  BY <1>1, <1>2, <1>3 DEF MessageOK, RowOK
<1>6. FateOK(m)'
  BY <1>1, <1>2, <1>3 DEF MessageOK, FateOK
<1>7. AttemptOK(m)'
  <2>1. mode # "eskiz" => bearer' = "none" /\ sending'[m].bearer = "none"
    BY <1>1, <1>2 DEF MessageOK, AttemptOK
  <2>2. sending'[m].pc = "send" => sending'[m].bearer = "none"
    BY <1>1, <1>2, <2>1, Caught DEF MessageOK, AttemptOK
  <2>3. sending'[m].attempt \in 0..MaxRetries /\ (sending'[m].pc = "fail" => sending'[m].attempt = MaxRetries)
    BY <1>1, Caught
  <2>4. CASE why = "fault"
    <3>1. faults'[m] = faults[m] + 1 \/ faults'[m] > MaxRetries
      BY <2>4, Caught
    <3>2. IF bearer' = "dead" \/ sending'[m].pc = "fail" THEN sending'[m].attempt < faults'[m] + deaths
                                                        ELSE sending'[m].attempt <= faults'[m] + deaths
      BY <1>1, <1>2, <2>3, <3>1, Caught DEF MessageOK, AttemptOK
    <3> QED BY <2>1, <2>2, <2>3, <3>2 DEF AttemptOK
  <2>5. CASE why = "bearer"
    <3>1. sending[m].attempt < faults[m] + deaths
      BY <1>1, <2>5 DEF MessageOK, AttemptOK
    <3>2. IF sending'[m].pc = "fail" THEN sending'[m].attempt < faults'[m] + deaths
                                     ELSE sending'[m].attempt <= faults'[m] + deaths
      BY <1>1, <1>2, <3>1, Caught
    <3> QED BY <2>1, <2>2, <2>3, <2>5, <3>2 DEF AttemptOK
  <2> QED BY <2>4, <2>5
<1>8. MessageOK(m)'
  BY <1>4, <1>5, <1>6, <1>7 DEF MessageOK
<1> QED BY <1>3, <1>8, Caught, OneMessage

LEMMA SendToCustomerStep ==
  ASSUME SmsIInv, NEW m \in Messages, SendToCustomer(m)
  PROVE  SmsIInv'
<1>1. /\ smsLog[m] = "none" /\ smsLog' = [smsLog EXCEPT ![m] = "QUEUED"] /\ SmsTypeOK
      /\ UNCHANGED <<mode, verdict, bearer, copies, fate, doubt, faults, deaths, died>>
      /\ MessageOK(m) /\ sending \in [Messages -> Sendings] /\ faults[m] \in Nat /\ deaths \in Nat
      /\ MaxRetries \in Nat
  BY MessageRows DEF SendToCustomer, SmsIInv, SmsTypeOK, Sendings
<1>2. PICK must \in BOOLEAN :
        sending' = [sending EXCEPT ![m] =
         [NotSending EXCEPT !.must = must,
            !.pc = IF mode \in {"log", "blind"} THEN mode
                   ELSE IF mode = "eskiz" THEN "bearer" ELSE "send"]]
  BY DEF SendToCustomer
<1>3. PICK r \in Sendings :
        /\ sending' = [sending EXCEPT ![m] = r] /\ r.attempt = 0 /\ r.bearer = "none"
        /\ r.pc = IF mode \in {"log", "blind"} THEN mode
                  ELSE IF mode = "eskiz" THEN "bearer" ELSE "send"
  <2> DEFINE to == IF mode \in {"log", "blind"} THEN mode ELSE IF mode = "eskiz" THEN "bearer" ELSE "send"
             r  == [NotSending EXCEPT !.must = must, !.pc = to]
  <2>1. to \in {"log", "blind", "bearer", "send"}
    OBVIOUS
  <2> HIDE DEF to
  <2>2. r \in Sendings /\ r.attempt = 0 /\ r.bearer = "none" /\ r.pc = to
    <3>1. NotSending \in Sendings /\ NotSending.attempt = 0 /\ NotSending.bearer = "none"
      BY <1>1 DEF Sendings, NotSending
    <3> QED BY <2>1, <3>1 DEF Sendings
  <2>3. sending' = [sending EXCEPT ![m] = r]
    BY <1>2 DEF to
  <2> QED BY <2>2, <2>3 DEF to
<1>4. /\ sending' \in [Messages -> Sendings] /\ sending'[m] = r
      /\ \A n \in Messages \ {m} : sending'[n] = sending[n] /\ smsLog'[n] = smsLog[n]
      /\ smsLog'[m] = "QUEUED"
  BY <1>1, <1>3 DEF SmsTypeOK
<1>5. SmsTypeOK'
  BY <1>1, <1>4 DEF SmsTypeOK, Sendings
<1>6. r.pc \in {"log", "blind", "bearer", "send"} /\ (r.pc \in {"log", "blind"} => r.pc = mode)
      /\ (r.pc = "bearer" => mode = "eskiz") /\ (bearer = "dead" => 0 < faults[m] + deaths)
  BY <1>1, <1>3 DEF MessageOK, AttemptOK, RowOK, SmsTypeOK, Modes
<1>7. MessageOK(m)'
  BY <1>1, <1>3, <1>4, <1>6 DEF MessageOK, CopyOK, RowOK, FateOK, AttemptOK
<1> QED BY <1>1, <1>4, <1>5, <1>7, OneMessage

(* The last write of a request, or its loss.                               *)
LEMMA RequestEnds ==
  ASSUME SmsIInv, NEW m \in Messages, SmsStep(m, "done"),
         sending[m].pc \in {"log", "blind", "mark", "fail"},
         NEW st \in {"SENT", "FAILED"}, UNCHANGED smsLog \/ smsLog' = [smsLog EXCEPT ![m] = st],
         NEW v \in {"ok", "refused"}, verdict' = [verdict EXCEPT ![m] = v],
         v = "ok" => ~sending[m].must \/ sending[m].pc \in {"blind", "mark"},
         st = "FAILED" => sending[m].pc = "fail",
         died' \subseteq Messages,
         UNCHANGED <<mode, bearer, copies, fate, doubt, faults, deaths>>
  PROVE  SmsIInv'
<1>1. /\ SmsTypeOK /\ MessageOK(m) /\ copies[m] \in Nat /\ faults[m] \in Nat /\ deaths \in Nat
      /\ sending[m].attempt \in Nat
  BY MessageRows DEF SmsIInv
<1>2. /\ sending' \in [Messages -> Sendings]
      /\ sending'[m].pc = "done" /\ sending'[m].attempt = sending[m].attempt
      /\ sending'[m].must = sending[m].must /\ sending'[m].bearer = sending[m].bearer
      /\ \A n \in Messages \ {m} : sending'[n] = sending[n]
  BY SteppedTo
<1>3. /\ smsLog' \in [Messages -> {"none", "QUEUED", "SENT", "DELIVERED", "FAILED"}]
      /\ smsLog'[m] = smsLog[m] \/ smsLog'[m] = st
      /\ \A n \in Messages \ {m} : smsLog'[n] = smsLog[n]
      /\ verdict' \in [Messages -> {"none", "ok", "refused"}] /\ verdict'[m] = v
      /\ \A n \in Messages \ {m} : verdict'[n] = verdict[n]
  BY <1>1 DEF SmsTypeOK
<1>4. SmsTypeOK'
  BY <1>1, <1>2, <1>3 DEF SmsTypeOK, Sendings
<1>5. CopyOK(m)'
  BY <1>1, <1>2 DEF MessageOK, CopyOK
<1>6. RowOK(m)'
  BY <1>1, <1>2, <1>3 DEF MessageOK, RowOK, CopyOK
<1>7. FateOK(m)'
  BY <1>1, <1>2, <1>3 DEF MessageOK, FateOK, CopyOK
<1>8. AttemptOK(m)'
  BY <1>1, <1>2 DEF MessageOK, AttemptOK
<1> QED BY <1>2, <1>3, <1>4, <1>5, <1>6, <1>7, <1>8, OneMessage DEF MessageOK

LEMMA RequestEndsStep ==
  ASSUME SmsIInv, NEW m \in Messages,
         SendNowhere(m) \/ MarkSent(m) \/ MarkFailed(m) \/ WriteLost(m)
  PROVE  SmsIInv'
<1>1. \A failed : Answer(m, failed) = [verdict EXCEPT ![m] = IF failed /\ sending[m].must THEN "refused" ELSE "ok"]
  BY Zenon DEF Answer
<1>2. died \subseteq Messages
  BY DEF SmsIInv, SmsTypeOK
<1>3. CASE SendNowhere(m)
  <2>1. CASE sending[m].pc = "log"
    <3>1. PICK v \in {"ok", "refused"} :
            verdict' = [verdict EXCEPT ![m] = v] /\ (v = "ok" => ~sending[m].must)
      BY <1>3, <2>1 DEF SendNowhere, Answer, SmsAt
    <3>2. /\ SmsStep(m, "done") /\ smsLog' = [smsLog EXCEPT ![m] = "SENT"] /\ died' \subseteq Messages
          /\ UNCHANGED <<mode, bearer, copies, fate, doubt, faults, deaths>>
      BY <1>2, <1>3 DEF SendNowhere
    <3>3. v = "ok" => ~sending[m].must \/ sending[m].pc \in {"blind", "mark"}
      BY <3>1
    <3> QED BY <2>1, <3>1, <3>2, <3>3, RequestEnds
  <2>2. CASE sending[m].pc = "blind"
    <3>1. verdict' = [verdict EXCEPT ![m] = "ok"]
      BY <1>3, <2>2 DEF SendNowhere, Answer, SmsAt
    <3> QED BY <1>2, <1>3, <2>2, <3>1, RequestEnds DEF SendNowhere
  <2> QED BY <1>3, <2>1, <2>2 DEF SendNowhere, SmsAt
<1>4. CASE MarkSent(m)
  <2>1. verdict' = [verdict EXCEPT ![m] = "ok"]
    BY <1>4 DEF MarkSent, Answer
  <2> QED BY <1>2, <1>4, <2>1, RequestEnds DEF MarkSent, AfterMark, SmsAt
<1>5. CASE MarkFailed(m)
  <2>1. PICK v \in {"ok", "refused"} :
            verdict' = [verdict EXCEPT ![m] = v] /\ (v = "ok" => ~sending[m].must)
    BY <1>5 DEF MarkFailed, Answer
  <2>2. /\ SmsStep(m, "done") /\ smsLog' = [smsLog EXCEPT ![m] = "FAILED"] /\ died' \subseteq Messages
        /\ UNCHANGED <<mode, bearer, copies, fate, doubt, faults, deaths>>
        /\ sending[m].pc = "fail"
    BY <1>2, <1>5 DEF MarkFailed, SmsAt
  <2>3. v = "ok" => ~sending[m].must \/ sending[m].pc \in {"blind", "mark"}
    BY <2>1
  <2> QED BY <2>1, <2>2, <2>3, RequestEnds
<1>6. CASE WriteLost(m)
  BY <1>2, <1>6, RequestEnds DEF WriteLost
<1> QED BY <1>3, <1>4, <1>5, <1>6

LEMMA EnsureEskizBearerStep ==
  ASSUME SmsIInv, NEW m \in Messages, EnsureEskizBearer(m)
  PROVE  SmsIInv'
<1>1. /\ SmsTypeOK /\ MessageOK(m) /\ copies[m] \in Nat /\ faults[m] \in Nat /\ deaths \in Nat
      /\ sending[m].attempt \in Nat /\ sending \in [Messages -> Sendings]
      /\ sending[m].pc = "bearer" /\ mode = "eskiz"
      /\ UNCHANGED <<mode, smsLog, verdict, copies, fate, doubt, deaths, died>>
  BY MessageRows DEF SmsIInv, SmsTypeOK, Sendings, EnsureEskizBearer, SmsAt, MessageOK, RowOK
<1>2. ASSUME NEW b \in {"good", "dead"}, bearer' = b, b = "dead" => bearer = "dead",
             sending' = [sending EXCEPT ![m].pc = "send", ![m].bearer = b], UNCHANGED faults
      PROVE  SmsIInv'
  <2>1. /\ sending' \in [Messages -> Sendings]
        /\ sending'[m].pc = "send" /\ sending'[m].bearer = b /\ sending'[m].must = sending[m].must
        /\ sending'[m].attempt = sending[m].attempt
        /\ \A n \in Messages \ {m} : sending'[n] = sending[n]
    <3> DEFINE r == [sending[m] EXCEPT !.pc = "send"]
               q == [r EXCEPT !.bearer = b]
               f == [sending EXCEPT ![m] = r]
    <3>1. r \in Sendings /\ r.must = sending[m].must /\ r.attempt = sending[m].attempt /\ r.pc = "send"
      BY <1>1 DEF Sendings
    <3>2. f \in [Messages -> Sendings] /\ f[m] = r /\ \A n \in Messages \ {m} : f[n] = sending[n]
      BY <1>1, <3>1
    <3>3. sending' = [f EXCEPT ![m].bearer = b]
      BY <1>2
    <3> HIDE DEF r, f
    <3>4. q \in Sendings /\ q.must = r.must /\ q.attempt = r.attempt /\ q.pc = r.pc /\ q.bearer = b
      BY <3>1 DEF Sendings
    <3>5. sending' = [f EXCEPT ![m] = q]
      BY <3>2, <3>3
    <3> HIDE DEF q
    <3> QED BY <3>1, <3>2, <3>4, <3>5
  <2>2. SmsTypeOK'
    BY <1>1, <1>2, <2>1 DEF SmsTypeOK, Sendings
  <2>3. MessageOK(m)'
    BY <1>1, <1>2, <2>1 DEF MessageOK, CopyOK, RowOK, FateOK, AttemptOK
  <2> QED BY <1>1, <1>2, <2>1, <2>2, <2>3, OneMessage
<1>3. CASE CatchAttempt(m, "fault") /\ UNCHANGED bearer
  <2>1. SmsTypeOK'
    BY <1>1, <1>3, Caught DEF SmsTypeOK, Sendings
  <2> QED BY <1>1, <1>3, <2>1, CaughtOK
<1>4. bearer \in {"none", "good", "dead"}
  BY <1>1 DEF SmsTypeOK
<1>5. CASE bearer # "none" /\ sending' = [sending EXCEPT ![m].pc = "send", ![m].bearer = bearer] /\ UNCHANGED <<bearer, faults>>
  BY <1>2, <1>4, <1>5
<1>6. CASE bearer' = "good" /\ sending' = [sending EXCEPT ![m].pc = "send", ![m].bearer = "good"] /\ UNCHANGED faults
  BY <1>2, <1>6
<1> QED BY <1>3, <1>5, <1>6 DEF EnsureEskizBearer

LEMMA SendRefusedStep ==
  ASSUME SmsIInv, NEW m \in Messages, SendRefused(m)
  PROVE  SmsIInv'
<1>1. /\ SmsTypeOK /\ MessageOK(m) /\ sending[m].pc = "send"
      /\ UNCHANGED <<mode, smsLog, verdict, copies, fate, doubt, deaths, died>>
      /\ bearer' = IF mode = "eskiz" THEN "none" ELSE bearer
  BY MessageRows DEF SmsIInv, SendRefused, SmsAt, DroppedBearer
<1>2. PICK why \in {"fault", "bearer"} :
        CatchAttempt(m, why) /\ (why = "bearer" => sending[m].bearer = "dead")
  BY DEF SendRefused
<1>3. SmsTypeOK'
  BY <1>1, <1>2, Caught DEF SmsTypeOK, Sendings
<1>4. bearer' \in {bearer, "none"} /\ (why = "bearer" => bearer' = "none")
  BY <1>1, <1>2 DEF MessageOK, AttemptOK
<1> QED BY <1>1, <1>2, <1>3, <1>4, CaughtOK

LEMMA AcceptedRows ==
  ASSUME SmsIInv, NEW m \in Messages, Accepted(m)
  PROVE  /\ copies' \in [Messages -> 0..(MaxRetries + 1)]
         /\ fate' \in [Messages -> SUBSET {"SENT", "DELIVERED", "FAILED"}]
         /\ copies'[m] = copies[m] + 1
         /\ fate'[m] = fate[m] \/ fate'[m] = fate[m] \cup {"SENT"}
         /\ \A n \in Messages \ {m} : copies'[n] = copies[n] /\ fate'[n] = fate[n]
BY SmsAssumption DEF SmsIInv, SmsTypeOK, Accepted

LEMMA AcceptedStep ==
  ASSUME SmsIInv, NEW m \in Messages, SendAccepted(m) \/ AnswerLost(m) \/ MarkLost(m)
  PROVE  SmsIInv'
<1>1. /\ SmsTypeOK /\ MessageOK(m) /\ copies[m] \in Nat /\ faults[m] \in Nat /\ deaths \in Nat
      /\ sending[m].attempt \in Nat /\ doubt \in [Messages -> BOOLEAN]
      /\ UNCHANGED <<mode, smsLog, verdict, bearer, deaths, died>>
  BY MessageRows DEF SmsIInv, SmsTypeOK, SendAccepted, AnswerLost, MarkLost
<1>2. CASE SendAccepted(m)
  <2>1. /\ Accepted(m) /\ SmsStep(m, "mark") /\ UNCHANGED <<doubt, faults>>
        /\ sending[m].pc = "send" /\ sending[m].bearer # "dead"
    BY <1>2 DEF SendAccepted, Accepted, SmsAt
  <2>2. SmsTypeOK'
    BY <1>1, <2>1, AcceptedRows, SteppedTo DEF SmsTypeOK, Sendings
  <2>3. copies[m] > 0 => doubt[m]
    BY <1>1, <2>1 DEF MessageOK, CopyOK
  <2>4. smsLog[m] # "none"
    BY <1>1, <2>1 DEF MessageOK, RowOK
  <2>5. fate'[m] \cap {"DELIVERED", "FAILED"} = fate[m] \cap {"DELIVERED", "FAILED"}
    BY <2>1, AcceptedRows
  <2>6. /\ sending'[m].pc = "mark" /\ sending'[m].attempt = sending[m].attempt
        /\ sending'[m].must = sending[m].must /\ sending'[m].bearer = sending[m].bearer
        /\ copies'[m] = copies[m] + 1
    BY <2>1, AcceptedRows, SteppedTo
  <2>7. MessageOK(m)'
    BY <1>1, <2>1, <2>3, <2>4, <2>5, <2>6 DEF MessageOK, CopyOK, RowOK, FateOK, AttemptOK
  <2> QED BY <1>1, <2>1, <2>2, <2>7, AcceptedRows, SteppedTo, OneMessage
<1>3. CASE AnswerLost(m) \/ MarkLost(m)
  <2>1. /\ CatchAttempt(m, "fault") /\ doubt' = [doubt EXCEPT ![m] = TRUE]
        /\ UNCHANGED <<copies, fate>> \/ Accepted(m)
        /\ sending[m].pc \in {"send", "mark"}
    BY <1>3 DEF AnswerLost, MarkLost, Accepted, SmsAt
  <2>2. SmsTypeOK'
    BY <1>1, <2>1, AcceptedRows, Caught DEF SmsTypeOK, Sendings
  <2> QED BY <1>1, <2>1, <2>2, CaughtOK
<1> QED BY <1>2, <1>3

LEMMA ReportStep ==
  ASSUME SmsIInv, NEW m \in Messages, DeliveryReport(m)
  PROVE  SmsIInv'
<1>1. /\ SmsTypeOK /\ MessageOK(m) /\ fate[m] \in SUBSET {"SENT", "DELIVERED", "FAILED"}
      /\ UNCHANGED <<mode, sending, verdict, bearer, copies, fate, doubt, faults, deaths, died>>
  BY MessageRows DEF SmsIInv, DeliveryReport
<1>2. PICK st \in fate[m] : smsLog' = [smsLog EXCEPT ![m] = st]
  BY DEF DeliveryReport
<1>3. /\ smsLog' \in [Messages -> {"none", "QUEUED", "SENT", "DELIVERED", "FAILED"}]
      /\ smsLog'[m] = st /\ st # "none"
      /\ \A n \in Messages \ {m} : smsLog'[n] = smsLog[n]
  BY <1>1, <1>2 DEF SmsTypeOK
<1>4. SmsTypeOK'
  BY <1>1, <1>3 DEF SmsTypeOK
<1>5. MessageOK(m)'
  BY <1>1, <1>2, <1>3 DEF MessageOK, CopyOK, RowOK, FateOK, AttemptOK
<1> QED BY <1>1, <1>3, <1>4, <1>5, OneMessage

LEMMA CopySettlesStep ==
  ASSUME SmsIInv, NEW m \in Messages, CopySettles(m)
  PROVE  SmsIInv'
<1>1. /\ SmsTypeOK /\ MessageOK(m) /\ fate[m] \in SUBSET {"SENT", "DELIVERED", "FAILED"}
      /\ copies[m] \in Nat
      /\ UNCHANGED <<mode, smsLog, sending, verdict, bearer, copies, doubt, faults, deaths, died>>
      /\ Cardinality(fate[m] \ {"SENT"}) < copies[m]
  BY MessageRows DEF SmsIInv, CopySettles
<1>2. PICK st \in {"DELIVERED", "FAILED"} : fate' = [fate EXCEPT ![m] = @ \cup {st}]
  BY DEF CopySettles
<1>3. /\ fate' \in [Messages -> SUBSET {"SENT", "DELIVERED", "FAILED"}]
      /\ fate'[m] = fate[m] \cup {st}
      /\ \A n \in Messages \ {m} : fate'[n] = fate[n]
  BY <1>1, <1>2 DEF SmsTypeOK
<1>4. SmsTypeOK'
  BY <1>1, <1>3 DEF SmsTypeOK
<1>5. IsFiniteSet(fate[m] \ {"SENT"}) /\ Cardinality(fate[m] \ {"SENT"}) \in Nat
  <2>1. IsFiniteSet({}) /\ IsFiniteSet({"DELIVERED"}) /\ IsFiniteSet({"FAILED"})
        /\ IsFiniteSet({"DELIVERED"} \cup {"FAILED"})
    BY FS_EmptySet, FS_Singleton, FS_Union
  <2>2. fate[m] \ {"SENT"} \in {{}, {"DELIVERED"}, {"FAILED"}, {"DELIVERED"} \cup {"FAILED"}}
    BY <1>1
  <2>3. IsFiniteSet(fate[m] \ {"SENT"})
    BY <2>1, <2>2
  <2> QED BY <2>3, FS_CardinalityType
<1>6. copies[m] > 0
  BY <1>1, <1>5
<1>7. ASSUME NEW x \in {"DELIVERED", "FAILED"}, x \in fate[m], x # st
      PROVE  copies[m] > 1
  <2>1. CASE st \in fate[m]
    BY <1>1, <1>7, <2>1 DEF MessageOK, FateOK
  <2>2. CASE st \notin fate[m]
    <3>1. fate[m] \ {"SENT"} = {x}
      BY <1>1, <1>7, <2>2
    <3>2. Cardinality({x}) = 1
      BY FS_Singleton
    <3> QED BY <1>1, <3>1, <3>2
  <2> QED BY <2>1, <2>2
<1>8. MessageOK(m)'
  <2>1. "DELIVERED" \in fate'[m] /\ "FAILED" \in fate'[m] => copies[m] > 1
    BY <1>3, <1>7
  <2> QED BY <1>1, <1>3, <1>6, <2>1 DEF MessageOK, CopyOK, RowOK, FateOK, AttemptOK
<1> QED BY <1>1, <1>3, <1>4, <1>8, OneMessage

LEMMA BearerRevokedStep ==
  ASSUME SmsIInv, BearerRevoked
  PROVE  SmsIInv'
<1>1. /\ SmsTypeOK /\ bearer = "good" /\ bearer' = "dead" /\ deaths' = deaths + 1 /\ deaths < MaxDeaths
      /\ sending' = [n \in Messages |-> [sending[n] EXCEPT !.bearer = IF @ = "good" THEN "dead" ELSE @]]
      /\ UNCHANGED <<mode, smsLog, verdict, copies, fate, doubt, faults, died>>
  BY DEF SmsIInv, BearerRevoked
<1>2. ASSUME NEW n \in Messages
      PROVE  /\ sending'[n] \in Sendings /\ sending'[n].pc = sending[n].pc
             /\ sending'[n].attempt = sending[n].attempt /\ sending'[n].must = sending[n].must
  BY <1>1, MessageRows DEF SmsIInv, Sendings
<1>3. SmsTypeOK'
  <2>1. sending' \in [Messages -> Sendings]
    BY <1>1, <1>2
  <2> QED BY <1>1, <2>1, SmsAssumption DEF SmsTypeOK, Sendings
<1>4. ASSUME NEW n \in Messages
      PROVE  MessageOK(n)'
  BY <1>1, <1>2, MessageRows DEF MessageOK, CopyOK, RowOK, FateOK, AttemptOK
<1> QED BY <1>3, <1>4 DEF SmsIInv

LEMMA SmsCrashStep ==
  ASSUME SmsIInv, SmsCrash
  PROVE  SmsIInv'
<1>1. /\ SmsTypeOK /\ bearer' = "none" /\ died' \subseteq Messages
      /\ sending' = [n \in Messages |-> IF SmsAt(n, "done") THEN sending[n] ELSE NotSending]
      /\ UNCHANGED <<mode, smsLog, verdict, copies, fate, doubt, faults, deaths>>
  BY DEF SmsIInv, SmsCrash, SmsTypeOK
<1>2. /\ NotSending \in Sendings /\ NotSending.pc = "idle" /\ NotSending.attempt = 0
      /\ NotSending.bearer = "none" /\ NotSending.must = FALSE
  BY SmsAssumption DEF NotSending, Sendings
<1>3. \A n \in Messages : sending'[n] = IF sending[n].pc = "done" THEN sending[n] ELSE NotSending
  BY <1>1 DEF SmsAt
<1>4. SmsTypeOK'
  <2>1. sending' \in [Messages -> Sendings]
    BY <1>1, <1>2, <1>3 DEF SmsTypeOK, Sendings
  <2> QED BY <1>1, <2>1 DEF SmsTypeOK, Sendings
<1>5. ASSUME NEW n \in Messages
      PROVE  MessageOK(n)'
  <2>1. CASE sending[n].pc = "done"
    <3>1. sending'[n] = sending[n]
      BY <1>3, <2>1
    <3> QED BY <1>1, <2>1, <3>1, MessageRows DEF MessageOK, CopyOK, RowOK, FateOK, AttemptOK
  <2>2. CASE sending[n].pc # "done"
    <3>1. sending'[n] = NotSending
      BY <1>3, <2>2
    <3> QED BY <1>1, <1>2, <2>2, <3>1, MessageRows DEF MessageOK, CopyOK, RowOK, FateOK, AttemptOK
  <2> QED BY <2>1, <2>2
<1> QED BY <1>4, <1>5 DEF SmsIInv

LEMMA SmsInitIInv == SmsInit => SmsIInv
<1> SUFFICES ASSUME SmsInit PROVE SmsIInv
  OBVIOUS
<1>1. /\ NotSending \in Sendings /\ NotSending.pc = "idle" /\ NotSending.attempt = 0
      /\ NotSending.bearer = "none"
  BY SmsAssumption DEF NotSending, Sendings
<1>2. SmsTypeOK
  BY <1>1, SmsAssumption DEF SmsInit, SmsTypeOK, Sendings
<1>3. ASSUME NEW m \in Messages
      PROVE  MessageOK(m)
  BY <1>1 DEF SmsInit, MessageOK, CopyOK, RowOK, FateOK, AttemptOK
<1> QED BY <1>2, <1>3 DEF SmsIInv

LEMMA SmsNextIInv == SmsIInv /\ [SmsNext]_smsVars => SmsIInv'
<1> SUFFICES ASSUME SmsIInv, [SmsNext]_smsVars PROVE SmsIInv'
  OBVIOUS
<1>1. ASSUME NEW m \in Messages,
             \/ SendToCustomer(m) \/ DeliveryReport(m) \/ CopySettles(m)
             \/ SendNowhere(m) \/ EnsureEskizBearer(m) \/ SendRefused(m) \/ SendAccepted(m)
             \/ AnswerLost(m) \/ MarkSent(m) \/ MarkLost(m) \/ MarkFailed(m) \/ WriteLost(m)
      PROVE  SmsIInv'
  BY <1>1, SendToCustomerStep, ReportStep, CopySettlesStep, RequestEndsStep, EnsureEskizBearerStep,
     SendRefusedStep, AcceptedStep
<1>2. CASE UNCHANGED smsVars
  BY <1>2 DEF smsVars, SmsIInv, SmsTypeOK, MessageOK, CopyOK, RowOK, FateOK, AttemptOK
<1> QED BY <1>1, <1>2, BearerRevokedStep, SmsCrashStep DEF SmsNext, SmsProgress

LEMMA SmsInductive == SmsInit /\ [][SmsNext]_smsVars => []SmsIInv
BY SmsInitIInv, SmsNextIInv, PTL

(* With any number of messages, retries and revocations, whatever the      *)
(* provider answers and whenever the process dies: a second copy, or a     *)
(* FAILED row of a message that arrived, needs a lost acceptance, "ok" to a *)
(* caller that insists means accepted, and nothing is given up early.      *)
THEOREM SmsOutcome == SmsSpec => []OutcomeIsTrue
<1>1. ASSUME SmsIInv
      PROVE  OutcomeIsTrue
  <2>1. ASSUME NEW m \in Messages
        PROVE  MessageOK(m) /\ faults[m] \in Nat /\ deaths \in Nat /\ MaxRetries \in Nat
    BY <1>1, MessageRows
  <2>2. SecondCopyNeedsDoubt
    BY <2>1 DEF SecondCopyNeedsDoubt, MessageOK, CopyOK
  <2>3. OkMeansAccepted
    BY <2>1 DEF OkMeansAccepted, MessageOK, RowOK
  <2>4. FailedMeansNotArrived
    BY <2>1, <1>1 DEF FailedMeansNotArrived, MessageOK, FateOK, CopyOK, SmsIInv, SmsTypeOK
  <2>5. GivenUpForCause
    BY <2>1 DEF GivenUpForCause, MessageOK, AttemptOK, SmsAt
  <2> QED BY <2>2, <2>3, <2>4, <2>5 DEF OutcomeIsTrue
<1> QED BY <1>1, SmsInductive, PTL DEF SmsSpec

-----------------------------------------------------------------------------
(* Push.                                                                   *)

Calls == [pc : {"none", "send", "forget", "done"}, status : {"none", "QUEUED", "SENT", "FAILED"},
          driver : Drivers \cup {NoValue}, token : Devices \cup {NoValue}]

(* A step about one call, by which no device dies and no driver's app       *)
(* registers; the call may take a token away.                              *)
LEMMA OneCall ==
  ASSUME PushIInv, NEW q \in Pushes, NEW r \in Calls, push' = [push EXCEPT ![q] = r],
         UNCHANGED <<alive, device, swapped>>,
         fcmToken' \in [Drivers -> Devices \cup {NoValue}],
         \A d \in Drivers :
            \/ fcmToken'[d] = fcmToken[d]
            \/ fcmToken'[d] = NoValue /\ (d \notin swapped /\ device[d] \in alive => FALSE),
         r.status \in {"SENT", "FAILED"} => r.pc = "done",
         r.pc \in {"send", "forget"} => r.driver \in Drivers,
         r.pc \in {"send", "forget"} /\ r.driver \notin swapped => r.token \in {device[r.driver], NoValue},
         r.pc = "forget" => r.token # NoValue /\ r.token \notin alive
  PROVE  PushIInv'
<1>1. /\ push' \in [Pushes -> Calls] /\ push'[q] = r
      /\ \A p \in Pushes \ {q} : push'[p] = push[p]
  BY DEF PushIInv, PushTypeOK, Calls
<1>2. PushTypeOK'
  BY <1>1 DEF PushIInv, PushTypeOK, Calls
<1>3. DeviceReachable'
  BY DEF PushIInv, DeviceReachable
<1>4. \A d \in Drivers : fcmToken'[d] \in {device'[d], NoValue}
  BY DEF PushIInv
<1>5. ASSUME NEW p \in Pushes
      PROVE  CallOK(p)'
  <2>1. CASE p = q
    BY <1>1, <2>1 DEF CallOK, InFlight
  <2>2. CASE p # q
    BY <1>1, <2>2 DEF PushIInv, CallOK, InFlight
  <2> QED BY <2>1, <2>2
<1> QED BY <1>2, <1>3, <1>4, <1>5 DEF PushIInv

LEMMA CallRow ==
  ASSUME PushIInv, NEW q \in Pushes
  PROVE  push[q] \in Calls /\ CallOK(q) /\ push \in [Pushes -> Calls]
BY DEF PushIInv, PushTypeOK, Calls

LEMMA NotifyDriverStep ==
  ASSUME PushIInv, NEW q \in Pushes, NEW d \in Drivers, NotifyDriver(q, d)
  PROVE  PushIInv'
<1> DEFINE r == [pc |-> "send", status |-> "QUEUED", driver |-> d, token |-> fcmToken[d]]
<1>1. /\ push' = [push EXCEPT ![q] = r] /\ UNCHANGED <<fcmToken, alive, device, swapped>>
      /\ fcmToken \in [Drivers -> Devices \cup {NoValue}]
      /\ fcmToken[d] \in {device[d], NoValue}
  BY DEF NotifyDriver, PushIInv, PushTypeOK
<1>2. r \in Calls /\ r.pc = "send" /\ r.status = "QUEUED" /\ r.driver = d /\ r.token = fcmToken[d]
  BY <1>1 DEF Calls
<1> HIDE DEF r
<1> QED BY <1>1, <1>2, OneCall

LEMMA PushEnds ==
  ASSUME PushIInv, NEW q \in Pushes, NEW st \in {"SENT", "FAILED"}, PushDone(q, st),
         UNCHANGED <<alive, device, swapped>>,
         fcmToken' \in [Drivers -> Devices \cup {NoValue}],
         \A d \in Drivers :
            \/ fcmToken'[d] = fcmToken[d]
            \/ fcmToken'[d] = NoValue /\ (d \notin swapped /\ device[d] \in alive => FALSE)
  PROVE  PushIInv'
<1> DEFINE p == [push[q] EXCEPT !.pc = "done"]
           r == [p EXCEPT !.status = st]
           f == [push EXCEPT ![q] = p]
<1>1. p \in Calls /\ p.pc = "done" /\ push \in [Pushes -> Calls]
  BY CallRow DEF Calls
<1>2. f[q] = p /\ f \in [Pushes -> Calls]
  BY <1>1
<1>3. push' = [f EXCEPT ![q].status = st]
  BY DEF PushDone
<1>4. f = [push EXCEPT ![q] = p]
  OBVIOUS
<1> HIDE DEF p, f
<1>5. r \in Calls /\ r.pc = "done"
  BY <1>1 DEF Calls
<1>6. push' = [push EXCEPT ![q] = r]
  BY <1>1, <1>2, <1>3, <1>4
<1> HIDE DEF r
<1> QED BY <1>5, <1>6, OneCall

LEMMA PushMoves ==
  ASSUME PushIInv, NEW q \in Pushes, NEW label \in {"forget", "done"},
         push' = [push EXCEPT ![q].pc = label],
         UNCHANGED <<fcmToken, alive, device, swapped>>,
         push[q].pc \in {"send", "forget"},
         label = "forget" => ForgetsToken(q)
  PROVE  PushIInv'
<1> DEFINE r == [push[q] EXCEPT !.pc = label]
<1>1. /\ push[q] \in Calls /\ CallOK(q) /\ fcmToken \in [Drivers -> Devices \cup {NoValue}]
      /\ push[q].status \notin {"SENT", "FAILED"}
  BY CallRow DEF PushIInv, PushTypeOK
<1>2. /\ r \in Calls /\ r.pc = label /\ r.status = push[q].status /\ r.driver = push[q].driver
      /\ r.token = push[q].token /\ push' = [push EXCEPT ![q] = r]
  BY <1>1 DEF Calls
<1> HIDE DEF r
<1>3. /\ r.driver \in Drivers
      /\ r.driver \notin swapped => r.token \in {device[r.driver], NoValue}
      /\ r.pc = "forget" => r.token # NoValue /\ r.token \notin alive
  BY <1>1, <1>2 DEF CallOK, InFlight, ForgetsToken
<1> QED BY <1>1, <1>2, <1>3, OneCall

LEMMA ForgetTokenStep ==
  ASSUME PushIInv, NEW q \in Pushes, ForgetToken(q)
  PROVE  PushIInv'
<1>1. /\ push[q].pc = "forget" /\ PushDone(q, "FAILED") /\ UNCHANGED <<alive, device, swapped>>
      /\ CallOK(q) /\ fcmToken \in [Drivers -> Devices \cup {NoValue}]
      /\ UNCHANGED fcmToken \/ fcmToken' = [fcmToken EXCEPT ![push[q].driver] = NoValue]
  BY CallRow DEF ForgetToken, PushIInv, PushTypeOK
<1>2. /\ push[q].driver \in Drivers
      /\ push[q].driver \notin swapped /\ device[push[q].driver] \in alive => FALSE
  BY <1>1 DEF CallOK, InFlight
<1>3. /\ fcmToken' \in [Drivers -> Devices \cup {NoValue}]
      /\ \A d \in Drivers :
            \/ fcmToken'[d] = fcmToken[d]
            \/ fcmToken'[d] = NoValue /\ (d \notin swapped /\ device[d] \in alive => FALSE)
  BY <1>1, <1>2
<1> QED BY <1>1, <1>3, PushEnds

LEMMA SetDeviceStep ==
  ASSUME PushIInv, NEW d \in Drivers, NEW t \in Devices \cup {NoValue}, SetDevice(d, t)
  PROVE  PushIInv'
<1>1. /\ fcmToken' = [fcmToken EXCEPT ![d] = t] /\ device' = [device EXCEPT ![d] = t]
      /\ UNCHANGED <<alive, push>> /\ PushTypeOK /\ swapped \subseteq swapped'
      /\ swapped' \subseteq swapped \cup {d}
      /\ \A q \in Pushes : InFlight(q) /\ push[q].driver = d => d \in swapped'
  BY DEF SetDevice, PushIInv, InFlight
<1>2. PushTypeOK'
  BY <1>1 DEF PushTypeOK
<1>3. DeviceReachable' /\ \A e \in Drivers : fcmToken'[e] \in {device'[e], NoValue}
  BY <1>1 DEF PushIInv, PushTypeOK, DeviceReachable
<1>4. ASSUME NEW q \in Pushes
      PROVE  CallOK(q)'
  BY <1>1 DEF PushIInv, PushTypeOK, CallOK, InFlight
<1> QED BY <1>2, <1>3, <1>4 DEF PushIInv

LEMMA PushNextIInv == PushIInv /\ [PushNext]_pushVars => PushIInv'
<1> SUFFICES ASSUME PushIInv, [PushNext]_pushVars PROVE PushIInv'
  OBVIOUS
<1>1. ASSUME NEW q \in Pushes, PushSent(q)
      PROVE  PushIInv'
  BY <1>1, PushEnds DEF PushSent, PushIInv, PushTypeOK
<1>2. ASSUME NEW q \in Pushes, PushFailed(q)
      PROVE  PushIInv'
  <2>1. CASE ForgetsToken(q) /\ push' = [push EXCEPT ![q].pc = "forget"]
    BY <1>2, <2>1, PushMoves DEF PushFailed
  <2>2. CASE PushDone(q, "FAILED")
    BY <1>2, <2>2, PushEnds DEF PushFailed, PushIInv, PushTypeOK
  <2> QED BY <1>2, <2>1, <2>2 DEF PushFailed
<1>3. ASSUME NEW q \in Pushes, PushDies(q)
      PROVE  PushIInv'
  BY <1>3, PushMoves DEF PushDies
<1>4. ASSUME NEW t \in Devices, DeviceDies(t)
      PROVE  PushIInv'
  BY <1>4 DEF DeviceDies, PushIInv, PushTypeOK, DeviceReachable, CallOK, InFlight
<1>5. CASE UNCHANGED pushVars
  BY <1>5 DEF pushVars, PushIInv, PushTypeOK, DeviceReachable, CallOK, InFlight
<1> QED BY <1>1, <1>2, <1>3, <1>4, <1>5, NotifyDriverStep, ForgetTokenStep, SetDeviceStep DEF PushNext

LEMMA PushInductive == PushInit /\ [][PushNext]_pushVars => []PushIInv
<1>1. PushInit => PushIInv
  BY PushAssumption DEF PushInit, NoPush, PushIInv, PushTypeOK, DeviceReachable, CallOK, InFlight
<1> QED BY <1>1, PushNextIInv, PTL

(* With any number of pushes, drivers and devices: a working device loses   *)
(* its token only if the app registered while a push was in flight.        *)
THEOREM PushReaches == PushSpec => []DeviceReachable
<1>1. PushIInv => DeviceReachable
  BY DEF PushIInv
<1> QED BY <1>1, PushInductive, PTL DEF PushSpec

-----------------------------------------------------------------------------
(* News.                                                                   *)

Casts == [pc : {"none", "sending", "done"}, audience : Audiences, key : Keys, todo : SUBSET Drivers]
Marks == [pc : {"idle", "find", "insert"}, zone : Zones \cup {NoValue}, ids : SUBSET News]
Rows  == [state : {"none", "posted", "gone"}, audience : Audiences, key : Keys]

LEMMA NewsRows ==
  ASSUME NewsIInv, NEW b \in News
  PROVE  /\ cast \in [News -> Casts] /\ news \in [News -> Rows]
         /\ cast[b] \in Casts /\ news[b] \in Rows /\ BroadcastOK(b)
         /\ <<news[b].audience, news[b].key>> \in Targets
         /\ <<cast[b].audience, cast[b].key>> \in Targets
BY DEF NewsIInv, NewsTyped, NewsTypeOK, Casts, Rows

LEMMA TargetsTyped ==
  ASSUME NEW t \in Targets
  PROVE  t[1] \in Audiences /\ t[2] \in Keys /\ t = <<t[1], t[2]>>
BY DEF Targets, Audiences, Keys

(* A broadcast that no step is about stays in order, unless a driver it     *)
(* concerns moves without being recorded.                                  *)
LEMMA BroadcastStands ==
  ASSUME NEW b \in News, BroadcastOK(b), cast'[b] = cast[b], news'[b] = news[b],
         \A d \in Drivers : Told(b, d)' => Told(b, d),
         altered \subseteq altered', aborted \subseteq aborted',
         \A d \in Drivers \ altered' : driver'[d].zone = driver[d].zone
  PROVE  BroadcastOK(b)'
BY DEF BroadcastOK, Matches, Meant

LEMMA AddressedStands ==
  ASSUME NEW d \in Drivers, Addressed(d), marking'[d] = marking[d],
         addressed \subseteq addressed', moved \subseteq moved',
         \/ driver'[d].zone = driver[d].zone
         \/ marking[d].pc = "find" => \A b \in marking[d].ids : <<b, d>> \in moved',
         \A b \in News : Visible(b, d)' => Visible(b, d) \/ <<b, d>> \in addressed'
  PROVE  Addressed(d)'
BY DEF Addressed

(* The steps of broadcasts that change no row.                             *)
LEMMA CastStep ==
  ASSUME NewsIInv, NEW b \in News, NEW r \in Casts, cast' = [cast EXCEPT ![b] = r],
         <<r.audience, r.key>> \in Targets,
         UNCHANGED <<driver, listVars>>, aborted \subseteq aborted',
         \A n \in News \ {b}, d \in Drivers : Told(n, d)' => Told(n, d),
         BroadcastOK(b)'
  PROVE  NewsIInv'
<1>1. /\ cast' \in [News -> Casts] /\ cast'[b] = r
      /\ \A n \in News \ {b} : cast'[n] = cast[n]
      /\ UNCHANGED <<news, read, marking, addressed, altered, moved>>
  BY NewsRows DEF listVars
<1>2. NewsTyped'
  <2>1. \A n \in News : /\ <<news'[n].audience, news'[n].key>> \in Targets
                        /\ <<cast'[n].audience, cast'[n].key>> \in Targets
                        /\ cast'[n].todo \subseteq Drivers
    BY <1>1, NewsRows DEF Casts
  <2>2. NewsTypeOK'
    BY <1>1, <2>1 DEF NewsIInv, NewsTyped, NewsTypeOK, Targets
  <2> QED BY <1>1, <2>2 DEF NewsIInv, NewsTyped, Casts, Audiences, Keys
<1>3. ASSUME NEW n \in News
      PROVE  BroadcastOK(n)'
  <2>1. CASE n = b
    BY <2>1
  <2>2. CASE n # b
    BY <1>1, <2>2, NewsRows, BroadcastStands
  <2> QED BY <2>1, <2>2
<1>4. ASSUME NEW d \in Drivers
      PROVE  Addressed(d)'
  BY <1>1 DEF NewsIInv, Addressed, Visible, Matches, Meant
<1>5. ReadWasAddressed'
  BY <1>1 DEF NewsIInv, ReadWasAddressed
<1> QED BY <1>2, <1>3, <1>4, <1>5 DEF NewsIInv

LEMMA SendDriverBroadcastStep ==
  ASSUME NewsIInv, NEW b \in News, SendDriverBroadcast(b)
  PROVE  NewsIInv'
<1>1. PICK t \in Targets, listOnly \in BOOLEAN :
        /\ cast[b].pc = "none" /\ news[b].state = "none"
        /\ cast' = [cast EXCEPT ![b] = [pc |-> "sending", audience |-> t[1], key |-> t[2],
                        todo |-> IF listOnly THEN {} ELSE ResolveBroadcastDriverIds(t[1], t[2])]]
        /\ UNCHANGED <<notified, aborted, listVars, driver>>
  BY DEF SendDriverBroadcast
<1> DEFINE r == [pc |-> "sending", audience |-> t[1], key |-> t[2],
                 todo |-> IF listOnly THEN {} ELSE ResolveBroadcastDriverIds(t[1], t[2])]
<1>2. /\ r \in Casts /\ r.pc = "sending" /\ <<r.audience, r.key>> \in Targets
      /\ \A d \in r.todo : d \in Drivers /\ Matches(r.audience, r.key, d)
  BY TargetsTyped DEF Casts, ResolveBroadcastDriverIds
<1>3. cast' = [cast EXCEPT ![b] = r]
  BY <1>1
<1> HIDE DEF r
<1>4. cast'[b] = r /\ UNCHANGED <<notified, aborted, news, altered, driver>>
  BY <1>1, <1>3, NewsRows DEF listVars
<1>5. BroadcastOK(b)'
  <2>1. ASSUME NEW d \in Drivers
        PROVE  /\ ~Told(b, d)'
               /\ d \in r.todo => Matches(r.audience, r.key, d)
    BY <1>1, <1>2, <1>4, NewsRows DEF BroadcastOK, Told
  <2>2. cast'[b].pc = "sending" /\ news'[b].state = "none"
    BY <1>1, <1>2, <1>4
  <2> QED BY <1>4, <2>1, <2>2 DEF BroadcastOK, Matches, Meant
<1> QED BY <1>1, <1>2, <1>3, <1>4, <1>5, CastStep DEF Told

LEMMA NotifyStep ==
  ASSUME NewsIInv, NEW b \in News, NEW d \in Drivers, Notify(b, d)
  PROVE  NewsIInv'
<1> DEFINE r == [cast[b] EXCEPT !.todo = @ \ {d}]
<1>1. /\ d \in cast[b].todo /\ cast[b].pc = "sending" /\ cast[b] \in Casts
      /\ <<cast[b].audience, cast[b].key>> \in Targets
      /\ notified' = notified \cup {<<b, d>>} /\ UNCHANGED <<aborted, driver, listVars>>
  BY NewsRows DEF Notify, BroadcastOK
<1>2. /\ r \in Casts /\ r.pc = "sending" /\ r.audience = cast[b].audience /\ r.key = cast[b].key
      /\ r.todo = cast[b].todo \ {d}
      /\ cast' = [cast EXCEPT ![b] = r]
  BY <1>1 DEF Casts, Notify
<1> HIDE DEF r
<1>3. cast'[b] = r /\ UNCHANGED <<news, altered>>
  BY <1>1, <1>2, NewsRows DEF listVars
<1>4. BroadcastOK(b)'
  <2>1. ASSUME NEW e \in Drivers \ altered, e \in r.todo \/ Told(b, e)'
        PROVE  Matches(r.audience, r.key, e)
    <3>1. e \in cast[b].todo \/ Told(b, e)
      BY <1>1, <1>2, <2>1 DEF Told
    <3>2. Matches(cast[b].audience, cast[b].key, e)
      BY <1>1, <2>1, <3>1, NewsRows DEF BroadcastOK
    <3> QED BY <1>2, <3>2
  <2>2. cast'[b].pc = "sending" /\ news'[b].state = "none"
    BY <1>1, <1>2, <1>3, NewsRows DEF BroadcastOK
  <2> QED BY <1>1, <1>3, <2>1, <2>2 DEF BroadcastOK, Matches, Meant
<1>5. \A n \in News \ {b}, e \in Drivers : Told(n, e)' => Told(n, e)
  BY <1>1 DEF Told
<1> QED BY <1>1, <1>2, <1>4, <1>5, CastStep

LEMMA BroadcastDiesStep ==
  ASSUME NewsIInv, NEW b \in News, BroadcastDies(b)
  PROVE  NewsIInv'
<1> DEFINE r == [NoCast EXCEPT !.pc = "done"]
<1>1. /\ cast[b].pc = "sending" /\ cast' = [cast EXCEPT ![b] = r]
      /\ aborted' = aborted \cup {b} /\ UNCHANGED <<notified, listVars, driver>>
  BY DEF BroadcastDies
<1>2. /\ r \in Casts /\ r.pc = "done" /\ r.todo = {} /\ <<r.audience, r.key>> \in Targets
  BY DEF NoCast, Casts, Audiences, Keys, Targets
<1> HIDE DEF r
<1>3. cast'[b] = r /\ UNCHANGED <<news, altered>>
  BY <1>1, NewsRows DEF listVars
<1>4. BroadcastOK(b)'
  BY <1>1, <1>2, <1>3 DEF BroadcastOK
<1> QED BY <1>1, <1>2, <1>4, CastStep DEF Told

(* The steps that change a row.                                            *)
LEMMA RowStep ==
  ASSUME NewsIInv, NEW b \in News, NEW r \in Rows, news' = [news EXCEPT ![b] = r],
         <<r.audience, r.key>> \in Targets,
         cast' \in [News -> Casts], \A n \in News \ {b} : cast'[n] = cast[n],
         <<cast'[b].audience, cast'[b].key>> \in Targets,
         UNCHANGED <<driver, notified, aborted, marking, moved>>,
         altered \subseteq altered', addressed \subseteq addressed',
         read' \subseteq read,
         r.state = "posted" => \A d \in Drivers : Matches(r.audience, r.key, d) => <<b, d>> \in addressed',
         BroadcastOK(b)'
  PROVE  NewsIInv'
<1>1. /\ news' \in [News -> Rows] /\ news'[b] = r /\ \A n \in News \ {b} : news'[n] = news[n]
  BY NewsRows
<1>2. NewsTyped'
  <2>1. \A n \in News : /\ <<news'[n].audience, news'[n].key>> \in Targets
                        /\ <<cast'[n].audience, cast'[n].key>> \in Targets
                        /\ cast'[n].todo \subseteq Drivers
    BY <1>1, NewsRows DEF Casts
  <2>2. NewsTypeOK'
    BY <1>1, <2>1 DEF NewsIInv, NewsTyped, NewsTypeOK, Targets
  <2> QED BY <1>1, <2>2 DEF NewsIInv, NewsTyped, Casts, Rows, Audiences, Keys
<1>3. ASSUME NEW n \in News
      PROVE  BroadcastOK(n)'
  <2>1. CASE n = b
    BY <2>1
  <2>2. CASE n # b
    BY <1>1, <2>2, NewsRows, BroadcastStands DEF Told
  <2> QED BY <2>1, <2>2
<1>4. ASSUME NEW d \in Drivers
      PROVE  Addressed(d)'
  <2>1. Addressed(d)
    BY DEF NewsIInv
  <2>2. ASSUME NEW n \in News, Visible(n, d)'
        PROVE  Visible(n, d) \/ <<n, d>> \in addressed'
    BY <1>1, <2>2 DEF Visible, Matches, Meant
  <2> QED BY <2>1, <2>2, AddressedStands
<1>5. ReadWasAddressed'
  BY DEF NewsIInv, ReadWasAddressed
<1> QED BY <1>2, <1>3, <1>4, <1>5 DEF NewsIInv

LEMMA BroadcastStoredStep ==
  ASSUME NewsIInv, NEW b \in News, BroadcastStored(b)
  PROVE  NewsIInv'
<1> DEFINE k == [cast[b] EXCEPT !.pc = "done"]
           r == Row(cast[b].audience, cast[b].key)
<1>1. /\ cast[b].pc = "sending" /\ cast[b].todo = {} /\ news' = [news EXCEPT ![b] = r]
      /\ addressed' = addressed \cup ({b} \X List(cast[b].audience, cast[b].key))
      /\ cast' = [cast EXCEPT ![b] = k]
      /\ UNCHANGED <<notified, aborted, read, marking, altered, moved, driver>>
  BY DEF BroadcastStored
<1>2. /\ cast[b] \in Casts /\ <<cast[b].audience, cast[b].key>> \in Targets /\ BroadcastOK(b)
      /\ cast \in [News -> Casts] /\ news \in [News -> Rows]
  BY NewsRows
<1>3. /\ k \in Casts /\ k.pc = "done" /\ k.todo = {} /\ k.audience = cast[b].audience /\ k.key = cast[b].key
      /\ r \in Rows /\ r.state = "posted" /\ r.audience = cast[b].audience /\ r.key = cast[b].key
  BY <1>1, <1>2 DEF Casts, Rows, Row
<1> HIDE DEF k, r
<1>4. /\ cast' \in [News -> Casts] /\ cast'[b] = k /\ \A n \in News \ {b} : cast'[n] = cast[n]
      /\ news'[b] = r
  BY <1>1, <1>2, <1>3
<1>5. \A d \in Drivers : Matches(r.audience, r.key, d) => <<b, d>> \in addressed'
  BY <1>1, <1>3 DEF List
<1>6. BroadcastOK(b)'
  BY <1>1, <1>2, <1>3, <1>4 DEF BroadcastOK, Told, Matches, Meant
<1>7. <<r.audience, r.key>> \in Targets /\ <<cast'[b].audience, cast'[b].key>> \in Targets
  BY <1>2, <1>3, <1>4
<1> QED BY <1>1, <1>3, <1>4, <1>5, <1>6, <1>7, RowStep

LEMMA UpdateAdminDriverNewsStep ==
  ASSUME NewsIInv, NEW b \in News, UpdateAdminDriverNews(b)
  PROVE  NewsIInv'
<1>1. PICK t \in Targets :
        /\ news' = [news EXCEPT ![b] = Row(t[1], t[2])]
        /\ addressed' = addressed \cup ({b} \X List(t[1], t[2]))
  BY DEF UpdateAdminDriverNews
<1>2. /\ news[b].state = "posted" /\ altered' = altered \cup {b}
      /\ UNCHANGED <<read, marking, moved, cast, notified, aborted, driver>>
  BY DEF UpdateAdminDriverNews, castVars
<1> DEFINE r == Row(t[1], t[2])
<1>3. r \in Rows /\ r.state = "posted" /\ r.audience = t[1] /\ r.key = t[2] /\ <<r.audience, r.key>> \in Targets
  BY TargetsTyped DEF Row, Rows
<1>4. news' = [news EXCEPT ![b] = r]
  BY <1>1
<1>5. \A d \in Drivers : Matches(r.audience, r.key, d) => <<b, d>> \in addressed'
  BY <1>1, <1>3 DEF List
<1> HIDE DEF r
<1>6. BroadcastOK(b)'
  BY <1>2, <1>3, <1>4, NewsRows DEF BroadcastOK, Told, Matches, Meant
<1> QED BY <1>1, <1>2, <1>3, <1>4, <1>5, <1>6, NewsRows, RowStep

LEMMA DeleteAdminDriverNewsStep ==
  ASSUME NewsIInv, NEW b \in News, DeleteAdminDriverNews(b)
  PROVE  NewsIInv'
<1> DEFINE r == [NoNews EXCEPT !.state = "gone"]
<1>1. /\ news[b].state = "posted" /\ news' = [news EXCEPT ![b] = r] /\ read' \subseteq read
      /\ UNCHANGED <<marking, addressed, altered, moved, cast, notified, aborted, driver>>
  BY DEF DeleteAdminDriverNews, castVars
<1>2. r \in Rows /\ r.state = "gone" /\ <<r.audience, r.key>> \in Targets
  BY DEF NoNews, Rows, Audiences, Keys, Targets
<1> HIDE DEF r
<1>3. BroadcastOK(b)'
  BY <1>1, <1>2, NewsRows DEF BroadcastOK, Told, Matches, Meant
<1> QED BY <1>1, <1>2, <1>3, NewsRows, RowStep

(* The steps that change neither broadcasts nor rows.                      *)
LEMMA DriverStep ==
  ASSUME NewsIInv, UNCHANGED <<cast, news, notified, aborted>>, altered \subseteq altered',
         driver' \in [Drivers -> [zone : Zones \cup {NoValue}, live : BOOLEAN]],
         \A d \in Drivers \ altered' : driver'[d].zone = driver[d].zone,
         marking' \in [Drivers -> Marks], read' \subseteq addressed' \cup moved',
         read' \subseteq News \X Drivers, moved' \subseteq News \X Drivers,
         \A d \in Drivers : Addressed(d)'
  PROVE  NewsIInv'
<1>1. NewsTyped'
  BY DEF NewsIInv, NewsTyped, NewsTypeOK, Targets, Audiences, Keys, Marks
<1>2. ASSUME NEW b \in News
      PROVE  BroadcastOK(b)'
  BY NewsRows, BroadcastStands DEF Told
<1> QED BY <1>1, <1>2 DEF NewsIInv, ReadWasAddressed

(* A request to mark news read goes on, and may mark some.                  *)
LEMMA MarkingStep ==
  ASSUME NewsIInv, NEW d \in Drivers, NEW m \in Marks, marking' = [marking EXCEPT ![d] = m],
         UNCHANGED <<news, addressed, altered, moved, cast, notified, aborted, driver>>,
         m.pc = "insert" => \A b \in m.ids : <<b, d>> \in addressed \cup moved,
         m.pc = "find" => m.zone = driver[d].zone,
         read' \subseteq addressed \cup moved, read' \subseteq News \X Drivers
  PROVE  NewsIInv'
<1>1. NewsTypeOK /\ \A e \in Drivers : Addressed(e)
  BY DEF NewsIInv, NewsTyped
<1>2. /\ marking' \in [Drivers -> Marks] /\ marking'[d] = m
      /\ \A e \in Drivers \ {d} : marking'[e] = marking[e]
  BY <1>1 DEF NewsTypeOK, Marks
<1>3. ASSUME NEW e \in Drivers
      PROVE  Addressed(e)'
  BY <1>1, <1>2 DEF Addressed, Visible, Matches, Meant
<1> QED BY <1>1, <1>2, <1>3, DriverStep DEF NewsTypeOK, Marks

LEMMA MarkReadStep ==
  ASSUME NewsIInv, NEW d \in Drivers, MarkRead(d)
  PROVE  NewsIInv'
<1>1. /\ UNCHANGED <<news, read, addressed, altered, moved, cast, notified, aborted, driver>>
      /\ NewsTypeOK /\ ReadWasAddressed
  BY DEF MarkRead, castVars, NewsIInv, NewsTyped
<1>2. PICK sent \in SUBSET News :
        marking' = [marking EXCEPT ![d] = [pc |-> "find", zone |-> driver[d].zone, ids |-> sent]]
  BY DEF MarkRead
<1> DEFINE m == [pc |-> "find", zone |-> driver[d].zone, ids |-> sent]
<1>3. m \in Marks /\ m.pc = "find" /\ m.zone = driver[d].zone
  BY <1>1 DEF NewsTypeOK, Marks
<1> HIDE DEF m
<1>4. marking' = [marking EXCEPT ![d] = m]
  BY <1>2 DEF m
<1> QED BY <1>1, <1>3, <1>4, MarkingStep DEF NewsTypeOK, ReadWasAddressed

LEMMA MarkReadFindStep ==
  ASSUME NewsIInv, NEW d \in Drivers, MarkReadFind(d)
  PROVE  NewsIInv'
<1> DEFINE m == IF Allowed(d) = {} THEN NoMark
                ELSE [marking[d] EXCEPT !.pc = "insert", !.ids = Allowed(d)]
<1>1. /\ UNCHANGED <<news, read, addressed, altered, moved, cast, notified, aborted, driver>>
      /\ marking[d].pc = "find" /\ marking[d] \in Marks
      /\ NewsTypeOK /\ ReadWasAddressed /\ Addressed(d)
  BY DEF MarkReadFind, castVars, NewsIInv, NewsTyped, NewsTypeOK, Marks
<1>2. marking' = [marking EXCEPT ![d] = m]
  BY DEF MarkReadFind
<1>3. Allowed(d) \in SUBSET News
  BY <1>1 DEF Allowed, Marks
<1>4. ASSUME NEW b \in Allowed(d)
      PROVE  <<b, d>> \in addressed \cup moved
  <2>1. b \in News /\ b \in marking[d].ids
    BY <1>3, <1>4 DEF Allowed
  <2>2. CASE marking[d].zone = driver[d].zone
    BY <1>1, <1>4, <2>1, <2>2 DEF Allowed, Addressed, Visible, Matches, Meant
  <2> QED BY <1>1, <2>1, <2>2 DEF Addressed
<1>5. m \in Marks /\ m.pc # "find"
      /\ (m.pc = "insert" => m.ids = Allowed(d))
  BY <1>1, <1>3 DEF Marks, NoMark
<1> HIDE DEF m
<1> QED BY <1>1, <1>2, <1>4, <1>5, MarkingStep DEF NewsTypeOK, ReadWasAddressed

LEMMA MarkReadInsertStep ==
  ASSUME NewsIInv, NEW d \in Drivers, MarkReadInsert(d)
  PROVE  NewsIInv'
<1>1. /\ UNCHANGED <<news, addressed, altered, moved, cast, notified, aborted, driver>>
      /\ marking' = [marking EXCEPT ![d] = NoMark]
      /\ read' \subseteq read \cup (marking[d].ids \X {d})
      /\ marking[d].pc = "insert" /\ marking[d] \in Marks
      /\ NewsTypeOK /\ ReadWasAddressed /\ Addressed(d)
  BY DEF MarkReadInsert, castVars, NewsIInv, NewsTyped, NewsTypeOK, Marks
<1>2. NoMark \in Marks /\ NoMark.pc = "idle"
  BY DEF NoMark, Marks
<1>3. marking[d].ids \subseteq News
  BY <1>1 DEF Marks
<1>4. read' \subseteq addressed \cup moved /\ read' \subseteq News \X Drivers
  BY <1>1, <1>3 DEF ReadWasAddressed, Addressed, NewsTypeOK
<1> QED BY <1>1, <1>2, <1>4, MarkingStep

LEMMA UpdateZoneStep ==
  ASSUME NewsIInv, NEW d \in Drivers, NEW z \in Zones \cup {NoValue}, UpdateZone(d, z)
  PROVE  NewsIInv'
<1>1. /\ UNCHANGED <<news, read, marking, cast, notified, aborted>> /\ altered' = altered \cup {d}
      /\ addressed \subseteq addressed'
      /\ \A b \in News : news[b].state = "posted" /\ news[b].audience = "zone" /\ news[b].key = z
           => <<b, d>> \in addressed'
      /\ moved' = moved \cup {<<b, d>> : b \in {n \in marking[d].ids : marking[d].pc = "find"}}
      /\ driver' = [driver EXCEPT ![d].zone = z]
      /\ NewsTypeOK /\ ReadWasAddressed
  BY DEF UpdateZone, castVars, NewsIInv, NewsTyped
<1>2. /\ driver' \in [Drivers -> [zone : Zones \cup {NoValue}, live : BOOLEAN]]
      /\ driver'[d].zone = z /\ \A e \in Drivers \ {d} : driver'[e] = driver[e]
      /\ moved' \subseteq News \X Drivers
      /\ marking[d].pc = "find" => \A b \in marking[d].ids : <<b, d>> \in moved'
  BY <1>1 DEF NewsTypeOK
<1>3. ASSUME NEW e \in Drivers
      PROVE  Addressed(e)'
  <2>1. ASSUME NEW b \in News, Visible(b, e)'
        PROVE  Visible(b, e) \/ <<b, e>> \in addressed'
    BY <1>1, <1>2, <2>1 DEF Visible, Matches, Meant
  <2> QED BY <1>1, <1>2, <2>1, AddressedStands DEF NewsIInv
<1> QED BY <1>1, <1>2, <1>3, DriverStep DEF NewsTypeOK, Marks, ReadWasAddressed

LEMMA ChangeStandingStep ==
  ASSUME NewsIInv, NEW d \in Drivers, ChangeStanding(d)
  PROVE  NewsIInv'
<1>1. /\ UNCHANGED <<news, read, marking, addressed, altered, moved, cast, notified, aborted>>
      /\ driver' = [driver EXCEPT ![d].live = ~@] /\ NewsTypeOK /\ ReadWasAddressed
  BY DEF ChangeStanding, castVars, listVars, NewsIInv, NewsTyped
<1>2. /\ driver' \in [Drivers -> [zone : Zones \cup {NoValue}, live : BOOLEAN]]
      /\ \A e \in Drivers : driver'[e].zone = driver[e].zone
  <2> DEFINE r == [driver[d] EXCEPT !.live = ~@]
  <2>1. /\ r \in [zone : Zones \cup {NoValue}, live : BOOLEAN] /\ r.zone = driver[d].zone
        /\ driver' = [driver EXCEPT ![d] = r]
    BY <1>1 DEF NewsTypeOK
  <2> HIDE DEF r
  <2> QED BY <1>1, <2>1 DEF NewsTypeOK
<1>3. ASSUME NEW e \in Drivers
      PROVE  Addressed(e)'
  BY <1>1, <1>2 DEF NewsIInv, Addressed, Visible, Matches, Meant
<1> QED BY <1>1, <1>2, <1>3, DriverStep DEF NewsTypeOK, Marks, ReadWasAddressed

LEMMA NewsInductive == NewsInit /\ [][NewsNext]_newsVars => []NewsIInv
<1>1. NewsInit => NewsIInv
  <2> SUFFICES ASSUME NewsInit PROVE NewsIInv
    OBVIOUS
  <2>1. NewsTyped /\ ReadWasAddressed
    BY DEF NewsInit, NewsTyped, NewsTypeOK, NoNews, NoCast, NoMark, Audiences, Keys, Targets, ReadWasAddressed
  <2>2. ASSUME NEW b \in News
        PROVE  BroadcastOK(b)
    BY DEF NewsInit, NoNews, NoCast, BroadcastOK, Told
  <2>3. ASSUME NEW d \in Drivers
        PROVE  Addressed(d)
    BY DEF NewsInit, NoNews, NoMark, Addressed, Visible
  <2> QED BY <2>1, <2>2, <2>3 DEF NewsIInv
<1>2. NewsIInv /\ [NewsNext]_newsVars => NewsIInv'
  <2> SUFFICES ASSUME NewsIInv, [NewsNext]_newsVars PROVE NewsIInv'
    OBVIOUS
  <2>1. CASE UNCHANGED newsVars
    BY <2>1 DEF newsVars, castVars, listVars, NewsIInv, NewsTyped, NewsTypeOK, Targets, Audiences, Keys,
       ReadWasAddressed, BroadcastOK, Told, Addressed, Visible, Matches, Meant
  <2> QED
    BY <2>1, SendDriverBroadcastStep, NotifyStep, BroadcastStoredStep, BroadcastDiesStep,
       UpdateAdminDriverNewsStep, DeleteAdminDriverNewsStep, MarkReadStep, MarkReadFindStep, MarkReadInsertStep, UpdateZoneStep,
       ChangeStandingStep DEF NewsNext
<1> QED BY <1>1, <1>2, PTL

(* With any number of broadcasts, zones and drivers: whom a broadcast tells *)
(* finds it on the list, and only what was on a driver's list is marked     *)
(* read, however edits, moves, deletions and reading interleave, but for    *)
(* what was asked for while the driver moved.                              *)
THEOREM NewsReachesAudience == NewsSpec => []AudienceRight
<1>1. NewsIInv => AudienceRight
  <2> SUFFICES ASSUME NewsIInv PROVE NotifiedIsListed
    BY DEF AudienceRight, NewsIInv
  <2>1. ASSUME NEW b \in News, NEW d \in Drivers, Told(b, d), cast[b].pc = "done",
               b \notin aborted \cup altered, d \notin altered, news[b].state # "gone"
        PROVE  Visible(b, d)
    BY <2>1, NewsRows DEF BroadcastOK, Visible
  <2> QED BY <2>1 DEF NotifiedIsListed, Told
<1> QED BY <1>1, NewsInductive, PTL DEF NewsSpec

-----------------------------------------------------------------------------
(* Chat.                                                                   *)

Sends   == [pc : {"none", "find", "create", "store", "stored", "failed"},
            channel : Channels, staff : BOOLEAN, at : 0..MaxTime]
Threads == [exists : BOOLEAN, last : 0..MaxTime, readAt : 0..MaxTime]

LEMMA ChatRows ==
  ASSUME ChatIInv
  PROVE  /\ message \in [ChatMessages -> Sends] /\ thread \in [Channels -> Threads]
         /\ now \in 1..MaxTime /\ now \in Nat /\ MaxTime \in Nat
         /\ \A m \in ChatMessages : message[m] \in Sends /\ StampOK(m) /\ message[m].at \in 0..MaxTime
         /\ \A c \in Channels : /\ thread[c] \in Threads /\ ChannelOK(c)
                                /\ thread[c].last \in 0..now /\ thread[c].readAt \in 0..now
BY ChatAssumption DEF ChatIInv, ChatTypeOK, Sends, Threads, ChannelOK

(* A step that stores no message keeps a channel in order if the sends it  *)
(* leaves under way do.                                                    *)
LEMMA ChannelStands ==
  ASSUME NEW c \in Channels, ChannelOK(c), overlapped \subseteq overlapped',
         thread'[c].last = thread[c].last, thread'[c].last <= now', thread'[c].readAt <= now',
         \A m \in ChatMessages :
            /\ m \in InChannel(c)' <=> m \in InChannel(c)
            /\ m \in InChannel(c) => message'[m].at = message[m].at,
         c \notin overlapped' =>
            /\ \A m, n \in Sending(c)' : m = n
            /\ \A m \in Sending(c)' : /\ message'[m].pc = "create" => ~thread'[c].exists
                                      /\ message'[m].at # 0 => message'[m].at >= thread'[c].last
  PROVE  ChannelOK(c)'
<1>1. Newest(c)' = Newest(c)
  <2>1. InChannel(c)' = InChannel(c)
    BY DEF InChannel
  <2>2. \A m \in InChannel(c) : message'[m].at = message[m].at
    BY DEF InChannel
  <2> QED BY <2>1, <2>2 DEF Newest
<1>2. thread'[c].last \in Newest(c)' \/ c \in overlapped'
  BY <1>1 DEF ChannelOK
<1>3. c \notin overlapped' =>
        \A m \in Sending(c)' : /\ message'[m].pc = "create" => ~thread'[c].exists
                               /\ message'[m].at # 0 => message'[m].at >= thread'[c].last
  OBVIOUS
<1>4. c \notin overlapped' => \A m, n \in Sending(c)' : m = n
  OBVIOUS
<1> QED BY <1>2, <1>3, <1>4, Zenon DEF ChannelOK

(* A step about one send, which marks no channel read.                     *)
LEMMA OneSend ==
  ASSUME ChatIInv, NEW m \in ChatMessages, NEW r \in Sends, message' = [message EXCEPT ![m] = r],
         UNCHANGED <<now, seen>>, slipped \subseteq slipped', slipped' \subseteq ChatMessages,
         thread' \in [Channels -> Threads],
         \A c \in Channels : /\ thread'[c].readAt = thread[c].readAt
                             /\ thread[c].exists => thread'[c].exists,
         r.pc \in {"store", "stored"} => thread'[r.channel].exists /\ r.at <= now,
         r.pc = "stored" => r.at # 0, r.pc \in {"none", "find", "create"} => r.at = 0,
         r.pc \in {"store", "stored"} /\ r.at # 0 =>
            m \in seen \cup slipped' \/ r.at > thread[r.channel].readAt,
         overlapped' \subseteq Channels, refused' \subseteq overlapped',
         \A c \in Channels : ChannelOK(c)'
  PROVE  ChatIInv'
<1>1. /\ message' \in [ChatMessages -> Sends] /\ message'[m] = r
      /\ \A n \in ChatMessages \ {m} : message'[n] = message[n]
  BY ChatRows
<1>2. ASSUME NEW n \in ChatMessages
      PROVE  /\ message'[n].pc \in {"store", "stored"} =>
                  thread'[message'[n].channel].exists /\ message'[n].at <= now'
             /\ message'[n].pc = "stored" => message'[n].at # 0
             /\ message'[n].pc \in {"none", "find", "create"} => message'[n].at = 0
             /\ StampOK(n)'
  <2>1. CASE n = m
    <3>1. r.channel \in Channels
      BY DEF Sends
    <3> QED BY <1>1, <2>1, <3>1 DEF StampOK
  <2>2. CASE n # m
    <3>1. message'[n] = message[n] /\ message[n].channel \in Channels
      BY <1>1, <2>2, ChatRows DEF Sends
    <3> QED BY <3>1, <2>2 DEF ChatIInv, ChatTypeOK, StampOK
  <2> QED BY <2>1, <2>2
<1>3. ChatTypeOK'
  BY <1>1, <1>2 DEF ChatIInv, ChatTypeOK, Sends, Threads
<1> QED BY <1>2, <1>3 DEF ChatIInv, RefusedOnlyInRace

(* ... by which the thread is as it was, and no message becomes visible.    *)
LEMMA SendMoves ==
  ASSUME ChatIInv, NEW m \in ChatMessages, NEW r \in Sends, message' = [message EXCEPT ![m] = r],
         UNCHANGED <<now, seen, thread>>, slipped \subseteq slipped', slipped' \subseteq ChatMessages,
         overlapped \subseteq overlapped', overlapped' \subseteq Channels, refused' \subseteq overlapped',
         message[m].pc # "stored", r.pc # "stored",
         r.pc = "store" => thread[r.channel].exists /\ r.at <= now
           /\ (r.at # 0 => m \in slipped' \/ r.at > thread[r.channel].readAt),
         r.pc = "create" => ~thread[r.channel].exists,
         r.pc \in {"none", "find", "create"} => r.at = 0,
         r.pc \in {"find", "create", "store"} =>
           /\ r.channel \notin overlapped' => \A n \in Sending(r.channel) : n = m
           /\ r.at # 0 /\ r.channel \notin overlapped' => r.at >= thread[r.channel].last
  PROVE  ChatIInv'
<1>1. /\ message' \in [ChatMessages -> Sends] /\ message'[m] = r
      /\ \A n \in ChatMessages \ {m} : message'[n] = message[n]
  BY ChatRows
<1>2. ASSUME NEW c \in Channels
      PROVE  ChannelOK(c)'
  <2>1. ASSUME NEW n \in ChatMessages
        PROVE  /\ n \in InChannel(c)' <=> n \in InChannel(c)
               /\ n \in InChannel(c) => message'[n].at = message[n].at
    BY <1>1 DEF InChannel
  <2>2. \A n \in Sending(c)' : n \in ChatMessages /\ (n = m \/ n \in Sending(c))
    BY <1>1 DEF Sending
  <2>3. m \in Sending(c)' => r.pc \in {"find", "create", "store"} /\ r.channel = c
    BY <1>1 DEF Sending
  <2>4. ASSUME c \notin overlapped'
        PROVE  \A i, n \in Sending(c)' : i = n
    BY <2>2, <2>3, <2>4, ChatRows DEF ChannelOK
  <2>5. ASSUME c \notin overlapped', NEW n \in Sending(c)'
        PROVE  /\ message'[n].pc = "create" => ~thread'[c].exists
               /\ message'[n].at # 0 => message'[n].at >= thread'[c].last
    <3>1. CASE n = m
      BY <1>1, <2>3, <2>5, <3>1
    <3>2. CASE n # m
      BY <1>1, <2>2, <2>5, <3>2, ChatRows DEF ChannelOK
    <3> QED BY <3>1, <3>2
  <2>6. thread'[c].last <= now' /\ thread'[c].readAt <= now' /\ thread'[c].last = thread[c].last
    BY ChatRows
  <2> QED BY <2>1, <2>4, <2>5, <2>6, ChatRows, ChannelStands
<1> QED BY <1>2, ChatRows, OneSend

LEMMA SendStep ==
  ASSUME ChatIInv, NEW m \in ChatMessages, Send(m)
  PROVE  ChatIInv'
<1>1. PICK c \in Channels, staff \in BOOLEAN :
        /\ message' = [message EXCEPT ![m] = [pc |-> "find", channel |-> c, staff |-> staff, at |-> 0]]
        /\ overlapped' = IF Sending(c) # {} THEN overlapped \cup {c} ELSE overlapped
  BY DEF Send
<1>2. PICK r \in Sends : /\ message' = [message EXCEPT ![m] = r]
                         /\ r.pc = "find" /\ r.channel = c /\ r.at = 0
  <2> DEFINE r == [pc |-> "find", channel |-> c, staff |-> staff, at |-> 0]
  <2>1. r \in Sends /\ r.pc = "find" /\ r.channel = c /\ r.at = 0 /\ message' = [message EXCEPT ![m] = r]
    BY <1>1, ChatRows DEF Sends
  <2> HIDE DEF r
  <2> QED BY <2>1
<1>3. /\ message[m].pc = "none" /\ UNCHANGED <<thread, now, seen, slipped, refused>>
      /\ overlapped \subseteq overlapped' /\ overlapped' \subseteq Channels /\ refused' \subseteq overlapped'
      /\ slipped' \subseteq ChatMessages
      /\ c \notin overlapped' => Sending(c) = {}
  BY <1>1 DEF Send, ChatIInv, ChatTypeOK, RefusedOnlyInRace
<1> QED BY <1>2, <1>3, SendMoves

LEMMA FindThreadStep ==
  ASSUME ChatIInv, NEW m \in ChatMessages, FindThread(m)
  PROVE  ChatIInv'
<1>1. /\ message[m].pc = "find" /\ message[m] \in Sends /\ message[m].channel \in Channels
      /\ UNCHANGED <<thread, now, seen, slipped, overlapped, refused>>
      /\ overlapped' \subseteq Channels /\ refused' \subseteq overlapped' /\ slipped' \subseteq ChatMessages
      /\ NextAfterFind(message[m].channel) \in {"store", "create"}
  BY ChatRows DEF FindThread, ChatIInv, ChatTypeOK, RefusedOnlyInRace, NextAfterFind, Sends
<1>2. PICK r \in Sends : /\ message' = [message EXCEPT ![m] = r]
                         /\ r.pc = NextAfterFind(message[m].channel)
                         /\ r.channel = message[m].channel /\ r.at = message[m].at
  <2> DEFINE r == [message[m] EXCEPT !.pc = NextAfterFind(message[m].channel)]
  <2>1. message' = [message EXCEPT ![m] = r]
    BY DEF FindThread
  <2>2. r \in Sends /\ r.pc = NextAfterFind(message[m].channel)
        /\ r.channel = message[m].channel /\ r.at = message[m].at
    BY <1>1 DEF Sends
  <2> HIDE DEF r
  <2> QED BY <2>1, <2>2
<1>3. m \in Sending(r.channel)
  BY <1>1, <1>2 DEF Sending
<1>4. /\ r.pc = "store" => thread[r.channel].exists
      /\ r.pc = "create" => ~thread[r.channel].exists
  BY <1>1, <1>2 DEF NextAfterFind
<1>5. r.at = 0
  BY <1>1, <1>2 DEF ChatIInv
<1>6. r.channel \notin overlapped' => \A n \in Sending(r.channel) : n = m
  BY <1>1, <1>2, <1>3, ChatRows DEF ChannelOK
<1>7. r.at <= now /\ r.pc # "stored" /\ message[m].pc # "stored" /\ r.pc # "find"
  BY <1>1, <1>2, <1>5, ChatRows
<1> QED BY <1>1, <1>2, <1>4, <1>5, <1>6, <1>7, SendMoves

LEMMA SendDiesStep ==
  ASSUME ChatIInv, NEW m \in ChatMessages, SendDies(m)
  PROVE  ChatIInv'
<1>1. /\ message[m].pc # "stored" /\ message[m] \in Sends
      /\ UNCHANGED <<thread, now, seen, slipped, overlapped, refused>>
      /\ overlapped' \subseteq Channels /\ refused' \subseteq overlapped' /\ slipped' \subseteq ChatMessages
  BY ChatRows DEF SendDies, ChatIInv, ChatTypeOK, RefusedOnlyInRace
<1>2. PICK r \in Sends : message' = [message EXCEPT ![m] = r] /\ r.pc = "failed"
  <2> DEFINE r == [message[m] EXCEPT !.pc = "failed"]
  <2>1. r \in Sends /\ r.pc = "failed" /\ message' = [message EXCEPT ![m] = r]
    BY <1>1 DEF SendDies, Sends
  <2> HIDE DEF r
  <2> QED BY <2>1
<1> QED BY <1>1, <1>2, SendMoves

LEMMA StampMessageStep ==
  ASSUME ChatIInv, NEW m \in ChatMessages, StampMessage(m)
  PROVE  ChatIInv'
<1>1. /\ message[m].pc = "store" /\ message[m] \in Sends /\ message[m].channel \in Channels
      /\ UNCHANGED <<thread, now, seen, overlapped, refused>>
      /\ slipped' = IF thread[message[m].channel].readAt = now THEN slipped \cup {m} ELSE slipped
      /\ overlapped' \subseteq Channels /\ refused' \subseteq overlapped' /\ slipped' \subseteq ChatMessages
      /\ thread[message[m].channel].exists
  BY ChatRows DEF StampMessage, ChatIInv, ChatTypeOK, RefusedOnlyInRace, Sends
<1>2. PICK r \in Sends : /\ message' = [message EXCEPT ![m] = r] /\ r.pc = "store"
                         /\ r.channel = message[m].channel /\ r.at = now
  <2> DEFINE r == [message[m] EXCEPT !.at = now]
  <2>1. r \in Sends /\ r.pc = "store" /\ r.channel = message[m].channel /\ r.at = now
    BY <1>1, ChatRows DEF Sends
  <2>2. message' = [message EXCEPT ![m] = r]
    BY DEF StampMessage
  <2> HIDE DEF r
  <2> QED BY <2>1, <2>2
<1>3. m \in Sending(r.channel)
  BY <1>1, <1>2 DEF Sending
<1>4. r.channel \notin overlapped' => \A n \in Sending(r.channel) : n = m
  BY <1>1, <1>2, <1>3, ChatRows DEF ChannelOK
<1>5. /\ r.at <= now /\ r.at >= thread[r.channel].last
      /\ m \in slipped' \/ r.at > thread[r.channel].readAt
  BY <1>1, <1>2, ChatRows
<1>6. slipped \subseteq slipped' /\ overlapped \subseteq overlapped'
  BY <1>1
<1> QED BY <1>1, <1>2, <1>4, <1>5, <1>6, SendMoves

(* In a channel where sends overlapped, only the bounds matter.            *)
LEMMA OverlappedChannel ==
  ASSUME NEW c \in Channels, c \in overlapped', thread'[c].last <= now', thread'[c].readAt <= now'
  PROVE  ChannelOK(c)'
BY DEF ChannelOK

LEMMA CreateThreadStep ==
  ASSUME ChatIInv, NEW m \in ChatMessages, CreateThread(m)
  PROVE  ChatIInv'
<1>0. PICK c \in Channels : c = message[m].channel
  BY ChatRows DEF Sends
<1>1. /\ message[m].pc = "create" /\ message[m] \in Sends /\ message[m].at = 0
      /\ UNCHANGED <<now, seen, slipped, overlapped>>
      /\ overlapped \subseteq Channels /\ refused \subseteq overlapped /\ slipped \subseteq ChatMessages
      /\ m \in Sending(c) /\ thread \in [Channels -> Threads]
  BY <1>0, ChatRows DEF CreateThread, ChatIInv, ChatTypeOK, RefusedOnlyInRace, Sends, Sending
<1>2. CASE thread[c].exists
  <2>1. c \in overlapped
    BY <1>1, <1>2, ChatRows DEF ChannelOK
  <2>2. /\ message' = [message EXCEPT ![m].pc = "failed"] /\ refused' = refused \cup {c}
        /\ UNCHANGED thread
    BY <1>0, <1>2 DEF CreateThread
  <2>3. PICK r \in Sends : message' = [message EXCEPT ![m] = r] /\ r.pc = "failed"
    <3> DEFINE r == [message[m] EXCEPT !.pc = "failed"]
    <3>1. r \in Sends /\ r.pc = "failed" /\ message' = [message EXCEPT ![m] = r]
      BY <1>1, <2>2 DEF Sends
    <3> HIDE DEF r
    <3> QED BY <3>1
  <2> QED BY <1>1, <2>1, <2>2, <2>3, SendMoves
<1>3. CASE ~thread[c].exists
  <2>1. /\ thread' = [thread EXCEPT ![c].exists = TRUE]
        /\ message' = [message EXCEPT ![m].pc = "store"] /\ UNCHANGED refused
    BY <1>0, <1>3 DEF CreateThread
  <2>2. PICK r \in Sends : /\ message' = [message EXCEPT ![m] = r] /\ r.pc = "store"
                           /\ r.channel = c /\ r.at = 0
    <3> DEFINE r == [message[m] EXCEPT !.pc = "store"]
    <3>1. r \in Sends /\ r.pc = "store" /\ r.channel = c /\ r.at = 0 /\ message' = [message EXCEPT ![m] = r]
      BY <1>0, <1>1, <2>1 DEF Sends
    <3> HIDE DEF r
    <3> QED BY <3>1
  <2>3. PICK t \in Threads : /\ thread' = [thread EXCEPT ![c] = t] /\ t.exists
                             /\ t.last = thread[c].last /\ t.readAt = thread[c].readAt
    <3> DEFINE t == [thread[c] EXCEPT !.exists = TRUE]
    <3>1. t \in Threads /\ t.exists /\ t.last = thread[c].last /\ t.readAt = thread[c].readAt
          /\ thread' = [thread EXCEPT ![c] = t]
      BY <1>1, <2>1 DEF Threads
    <3> HIDE DEF t
    <3> QED BY <3>1
  <2>4. /\ thread' \in [Channels -> Threads]
        /\ \A b \in Channels : /\ thread'[b].readAt = thread[b].readAt
                               /\ thread'[b].last = thread[b].last
                               /\ b # c => thread'[b].exists = thread[b].exists
                               /\ thread[b].exists => thread'[b].exists
        /\ thread'[c].exists
    BY <1>1, <2>3
  <2>5. /\ message'[m] = r /\ \A n \in ChatMessages \ {m} : message'[n] = message[n]
    BY <2>2, ChatRows
  <2>6. ASSUME NEW b \in Channels
        PROVE  ChannelOK(b)'
    <3>1. /\ ChannelOK(b) /\ thread'[b].last <= now' /\ thread'[b].readAt <= now'
          /\ thread'[b].last = thread[b].last
      BY <1>1, <2>4, ChatRows
    <3>2. \A n \in ChatMessages : /\ n \in InChannel(b)' <=> n \in InChannel(b)
                                  /\ n \in InChannel(b) => message'[n].at = message[n].at
      BY <1>1, <2>2, <2>5 DEF InChannel
    <3>3. \A n \in Sending(b)' : n \in Sending(b) /\ n \in ChatMessages
      BY <1>1, <2>2, <2>5 DEF Sending
    <3>4. ASSUME b \notin overlapped'
          PROVE  \A i, n \in Sending(b)' : i = n
      BY <1>1, <3>1, <3>3, <3>4 DEF ChannelOK
    <3>5. ASSUME b \notin overlapped', NEW n \in Sending(b)'
          PROVE  /\ message'[n].pc = "create" => ~thread'[b].exists
                 /\ message'[n].at # 0 => message'[n].at >= thread'[b].last
      <4>1. CASE n = m
        BY <2>2, <2>5, <4>1
      <4>2. CASE n # m
        <5>1. b # c
          BY <1>1, <3>1, <3>3, <3>5, <4>2 DEF ChannelOK
        <5> QED BY <1>1, <2>4, <2>5, <3>1, <3>3, <3>5, <4>2, <5>1 DEF ChannelOK
      <4> QED BY <4>1, <4>2
    <3> QED BY <1>1, <3>1, <3>2, <3>4, <3>5, ChannelStands
  <2>7. r.at <= now /\ thread'[r.channel].exists /\ refused' \subseteq overlapped'
        /\ slipped \subseteq slipped' /\ slipped' \subseteq ChatMessages
    BY <1>1, <2>1, <2>2, <2>4, ChatRows
  <2>8. \A b \in Channels : /\ thread'[b].readAt = thread[b].readAt
                            /\ thread[b].exists => thread'[b].exists
    BY <2>4
  <2>9. UNCHANGED <<now, seen>> /\ overlapped' \subseteq Channels /\ r.pc # "stored" /\ r.pc # "create"
    BY <1>1, <2>2
  <2> QED BY <2>2, <2>4, <2>6, <2>7, <2>8, <2>9, OneSend
<1> QED BY <1>2, <1>3

LEMMA StoreMessageStep ==
  ASSUME ChatIInv, NEW m \in ChatMessages, StoreMessage(m)
  PROVE  ChatIInv'
<1>1. PICK c \in Channels : c = message[m].channel
  BY ChatRows DEF Sends
<1>2. /\ message[m].pc = "store" /\ message[m].at # 0 /\ message[m] \in Sends
      /\ thread' = [thread EXCEPT ![c].last = message[m].at]
      /\ message' = [message EXCEPT ![m].pc = "stored"]
      /\ UNCHANGED <<now, seen, slipped, overlapped, refused>>
      /\ overlapped \subseteq Channels /\ refused \subseteq overlapped /\ slipped \subseteq ChatMessages
      /\ m \in Sending(c) /\ thread \in [Channels -> Threads]
      /\ thread[c].exists /\ message[m].at <= now /\ message[m].at \in 0..MaxTime
  BY <1>1, ChatRows DEF StoreMessage, Touched, ChatIInv, ChatTypeOK, RefusedOnlyInRace, Sending
<1>3. PICK r \in Sends : /\ message' = [message EXCEPT ![m] = r] /\ r.pc = "stored"
                         /\ r.channel = c /\ r.at = message[m].at
  <2> DEFINE r == [message[m] EXCEPT !.pc = "stored"]
  <2>1. r \in Sends /\ r.pc = "stored" /\ r.channel = c /\ r.at = message[m].at
        /\ message' = [message EXCEPT ![m] = r]
    BY <1>1, <1>2 DEF Sends
  <2> HIDE DEF r
  <2> QED BY <2>1
<1>4. PICK t \in Threads : /\ thread' = [thread EXCEPT ![c] = t] /\ t.exists
                           /\ t.last = message[m].at /\ t.readAt = thread[c].readAt
  <2> DEFINE t == [thread[c] EXCEPT !.last = message[m].at]
  <2>1. t \in Threads /\ t.exists /\ t.last = message[m].at /\ t.readAt = thread[c].readAt
        /\ thread' = [thread EXCEPT ![c] = t]
    BY <1>2 DEF Threads
  <2> HIDE DEF t
  <2> QED BY <2>1
<1>5. /\ thread' \in [Channels -> Threads] /\ thread'[c] = t
      /\ \A b \in Channels : /\ thread'[b].readAt = thread[b].readAt
                             /\ b # c => thread'[b] = thread[b]
                             /\ thread[b].exists => thread'[b].exists
  BY <1>2, <1>4
<1>6. /\ message'[m] = r /\ \A n \in ChatMessages \ {m} : message'[n] = message[n]
  BY <1>3, ChatRows
<1>7. ASSUME NEW b \in Channels \ {c}
      PROVE  ChannelOK(b)'
  <2>1. /\ ChannelOK(b) /\ thread'[b] = thread[b]
        /\ thread'[b].last <= now' /\ thread'[b].readAt <= now'
    BY <1>2, <1>5, ChatRows
  <2>2. \A n \in ChatMessages : /\ n \in InChannel(b)' <=> n \in InChannel(b)
                                /\ n \in InChannel(b) => message'[n].at = message[n].at
    BY <1>1, <1>3, <1>6 DEF InChannel
  <2>3. \A n \in Sending(b)' : n \in Sending(b) /\ n # m /\ message'[n] = message[n]
    BY <1>3, <1>6 DEF Sending
  <2> QED BY <1>2, <2>1, <2>2, <2>3, ChannelStands DEF ChannelOK
<1>8. ChannelOK(c)'
  <2>1. /\ thread'[c].last <= now' /\ thread'[c].readAt <= now'
        /\ thread'[c].last = message[m].at /\ ChannelOK(c)
    BY <1>2, <1>4, <1>5, ChatRows
  <2>2. CASE c \notin overlapped
    <3>1. thread[c].last \in Newest(c) /\ \A n \in Sending(c) : n = m
      BY <1>2, <2>1, <2>2 DEF ChannelOK
    <3>2. message[m].at >= thread[c].last
      BY <1>2, <2>1, <2>2 DEF ChannelOK
    <3>3. \A n \in Sending(c)' : FALSE
      BY <1>3, <1>6, <3>1 DEF Sending
    <3>4. ASSUME NEW n \in InChannel(c)'
          PROVE  message'[n].at <= message[m].at
      <4>1. n = m \/ (n \in InChannel(c) /\ message'[n] = message[n] /\ n \in ChatMessages)
        BY <1>6, <3>4 DEF InChannel
      <4>2. n \in InChannel(c) => message[n].at <= thread[c].last
        BY <3>1 DEF Newest
      <4>3. n \in InChannel(c) /\ n \in ChatMessages => message[n].at \in Nat
        BY ChatRows
      <4> QED BY <1>2, <1>3, <1>6, <3>2, <4>1, <4>2, <4>3, ChatRows
    <3>5. m \in InChannel(c)' /\ message'[m].at = message[m].at
      BY <1>3, <1>6 DEF InChannel
    <3>6. thread'[c].last \in Newest(c)'
      BY <1>2, <2>1, <3>4, <3>5 DEF Newest
    <3> QED BY <2>1, <3>3, <3>6 DEF ChannelOK
  <2>3. CASE c \in overlapped
    BY <1>2, <2>1, <2>3, OverlappedChannel
  <2> QED BY <2>2, <2>3
<1>9. m \in seen \cup slipped' \/ r.at > thread[c].readAt
  BY <1>1, <1>2, <1>3, ChatRows DEF StampOK
<1>10. /\ r.at <= now /\ r.at # 0 /\ thread'[r.channel].exists
       /\ slipped \subseteq slipped' /\ slipped' \subseteq ChatMessages
       /\ overlapped' \subseteq Channels /\ refused' \subseteq overlapped' /\ UNCHANGED <<now, seen>>
       /\ r.pc \notin {"none", "find", "create"}
       /\ m \in seen \cup slipped' \/ r.at > thread[r.channel].readAt
  BY <1>2, <1>3, <1>4, <1>5, <1>9
<1>11. \A b \in Channels : ChannelOK(b)'
  BY <1>7, <1>8
<1> QED BY <1>3, <1>5, <1>10, <1>11, OneSend

LEMMA ListMessagesStep ==
  ASSUME ChatIInv, NEW c \in Channels, ListMessages(c)
  PROVE  ChatIInv'
<1>1. /\ seen' = seen \cup InChannel(c) /\ InChannel(c) \subseteq ChatMessages
      /\ UNCHANGED <<thread, message, now, slipped, overlapped, refused>>
  BY DEF ListMessages, InChannel
<1>2. \A b \in Channels : ChannelOK(b)'
  BY <1>1, ChatRows DEF ChannelOK, Newest, Sending, InChannel
<1> QED BY <1>1, <1>2 DEF ChatIInv, ChatTypeOK, RefusedOnlyInRace, StampOK

LEMMA MarkReadChannelStep ==
  ASSUME ChatIInv, NEW c \in Channels, MarkDriverChannelRead(c)
  PROVE  ChatIInv'
<1>1. /\ thread' = [thread EXCEPT ![c].readAt = now] /\ thread \in [Channels -> Threads]
      /\ slipped' = slipped \cup ((InChannel(c) \cup {m \in Sending(c) : message[m].at # 0}) \ seen)
      /\ UNCHANGED <<message, now, seen, overlapped, refused>>
      /\ slipped' \subseteq ChatMessages
  BY ChatRows DEF MarkDriverChannelRead, InChannel, Sending, ChatIInv, ChatTypeOK
<1>2. PICK t \in Threads : /\ thread' = [thread EXCEPT ![c] = t] /\ t.exists = thread[c].exists
                           /\ t.last = thread[c].last /\ t.readAt = now
  <2> DEFINE t == [thread[c] EXCEPT !.readAt = now]
  <2>1. t \in Threads /\ t.exists = thread[c].exists /\ t.last = thread[c].last /\ t.readAt = now
        /\ thread' = [thread EXCEPT ![c] = t]
    BY <1>1, ChatRows DEF Threads
  <2> HIDE DEF t
  <2> QED BY <2>1
<1>3. /\ thread' \in [Channels -> Threads] /\ thread'[c].readAt = now
      /\ \A b \in Channels : /\ thread'[b].exists = thread[b].exists
                             /\ thread'[b].last = thread[b].last
                             /\ b # c => thread'[b].readAt = thread[b].readAt
  BY <1>1, <1>2
<1>4. ASSUME NEW b \in Channels
      PROVE  ChannelOK(b)'
  <2>1. Newest(b)' = Newest(b) /\ Sending(b)' = Sending(b)
    BY <1>1 DEF Newest, Sending, InChannel
  <2>2. ChannelOK(b) /\ thread'[b].readAt <= now'
    BY <1>1, <1>3, ChatRows
  <2> QED BY <1>1, <1>3, <2>1, <2>2 DEF ChannelOK
<1>5. ASSUME NEW m \in ChatMessages
      PROVE  StampOK(m)'
  <2>1. message[m].channel \in Channels /\ StampOK(m)
    BY ChatRows DEF Sends
  <2>2. CASE message[m].channel # c
    BY <1>1, <1>3, <2>1, <2>2 DEF StampOK
  <2>3. CASE message[m].channel = c
    <3>1. message[m].pc \in {"store", "stored"} /\ message[m].at # 0 => m \in seen \cup slipped'
      BY <1>1, <2>3 DEF InChannel, Sending
    <3> QED BY <1>1, <3>1 DEF StampOK
  <2> QED BY <2>2, <2>3
<1>6. ChatTypeOK'
  <2>1. \A m \in ChatMessages : message[m].channel \in Channels
    BY ChatRows DEF Sends
  <2> QED BY <1>1, <1>3, <2>1 DEF ChatIInv, ChatTypeOK, Threads
<1> QED BY <1>1, <1>4, <1>5, <1>6 DEF ChatIInv, RefusedOnlyInRace

LEMMA TickStep ==
  ASSUME ChatIInv, Tick
  PROVE  ChatIInv'
<1>1. /\ now' = now + 1 /\ now < MaxTime
      /\ UNCHANGED <<thread, message, seen, slipped, overlapped, refused>>
  BY DEF Tick
<1>2. ASSUME NEW c \in Channels
      PROVE  ChannelOK(c)'
  <2>1. Newest(c)' = Newest(c) /\ Sending(c)' = Sending(c)
    BY <1>1 DEF Newest, Sending, InChannel
  <2>2. thread[c].last <= now' /\ thread[c].readAt <= now'
    BY <1>1, ChatRows
  <2> QED BY <1>1, <2>1, <2>2, ChatRows DEF ChannelOK
<1>3. ChatTypeOK'
  <2>1. now' \in 1..MaxTime
    BY <1>1, ChatRows
  <2>2. \A m \in ChatMessages : message[m].at <= now => message[m].at <= now'
    BY <1>1, ChatRows
  <2> QED BY <1>1, <2>1, <2>2 DEF ChatIInv, ChatTypeOK
<1> QED BY <1>1, <1>2, <1>3 DEF ChatIInv, RefusedOnlyInRace, StampOK

LEMMA ChatInductive == ChatInit /\ [][ChatNext]_chatVars => []ChatIInv
<1>1. ChatInit => ChatIInv
  <2> SUFFICES ASSUME ChatInit PROVE ChatIInv
    OBVIOUS
  <2>1. ChatTypeOK /\ RefusedOnlyInRace
    BY ChatAssumption DEF ChatInit, ChatTypeOK, RefusedOnlyInRace, NoMessage, Channels
  <2>2. ASSUME NEW m \in ChatMessages
        PROVE  message[m].pc = "none" /\ message[m].at = 0
    BY DEF ChatInit, NoMessage
  <2>3. ASSUME NEW c \in Channels
        PROVE  ChannelOK(c)
    <3>1. InChannel(c) = {} /\ Sending(c) = {}
      BY <2>2 DEF InChannel, Sending
    <3>2. thread[c].last = 0 /\ thread[c].readAt = 0 /\ now = 1
      BY DEF ChatInit
    <3>3. 0 \in Newest(c)
      BY <3>1, ChatAssumption DEF Newest
    <3> QED BY <3>1, <3>2, <3>3 DEF ChannelOK
  <2> QED BY <2>1, <2>2, <2>3 DEF ChatIInv, StampOK
<1>2. ChatIInv /\ [ChatNext]_chatVars => ChatIInv'
  <2> SUFFICES ASSUME ChatIInv, [ChatNext]_chatVars PROVE ChatIInv'
    OBVIOUS
  <2>1. CASE UNCHANGED chatVars
    BY <2>1 DEF chatVars, ChatIInv, ChatTypeOK, RefusedOnlyInRace, StampOK, ChannelOK, Newest, Sending, InChannel
  <2> QED
    BY <2>1, SendStep, FindThreadStep, CreateThreadStep, StampMessageStep, StoreMessageStep, SendDiesStep,
       ListMessagesStep, MarkReadChannelStep, TickStep DEF ChatNext
<1> QED BY <1>1, <1>2, PTL

(* With any number of messages and any clock: the badge counts what the app *)
(* was not shown, a thread stands where its newest message puts it, and a   *)
(* send is refused only against another first message.                     *)
THEOREM ChatTells == ChatSpec => []ThreadsTell
<1>1. ChatIInv => ThreadsTell
  <2> SUFFICES ASSUME ChatIInv PROVE ThreadsTell
    OBVIOUS
  <2>1. UnseenIsUnread
    BY ChatRows DEF ChatIInv, UnseenIsUnread, InChannel, Unread, StampOK
  <2>2. LastIsNewest
    BY ChatRows DEF LastIsNewest, ChannelOK
  <2> QED BY <2>1, <2>2 DEF ThreadsTell, ChatIInv
<1> QED BY <1>1, ChatInductive, PTL DEF ChatSpec

-----------------------------------------------------------------------------
(* All four together: each step is one component's, and the others' stutter. *)

(* Rows and requests of all four stay well formed, for any constants.      *)
THEOREM NotificationsTyped == Spec => []TypeOK
<1>1. Init => SmsInit /\ PushInit /\ NewsInit /\ ChatInit
  BY DEF Init
<1>2. [Next]_<<part, smsVars, pushVars, newsVars, chatVars>> =>
        [SmsNext]_smsVars /\ [PushNext]_pushVars /\ [NewsNext]_newsVars /\ [ChatNext]_chatVars
  BY DEF Next
<1>3. SmsIInv /\ PushIInv /\ NewsIInv /\ ChatIInv => TypeOK
  BY DEF SmsIInv, PushIInv, NewsIInv, NewsTyped, ChatIInv, TypeOK
<1> QED BY <1>1, <1>2, <1>3, SmsInductive, PushInductive, NewsInductive, ChatInductive, PTL DEF Spec
=============================================================================
