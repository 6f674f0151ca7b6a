--------------------------------- MODULE Sms ---------------------------------
(***************************************************************************)
(* SmsService.sendToCustomer and the provider's delivery reports: a row is *)
(* written, the message is tried up to MaxRetries + 1 times, the row takes *)
(* the outcome, and reports overwrite it.  The provider may refuse, accept *)
(* and lose its answer, report late, twice or out of order; the process    *)
(* may die.  copies, fate, doubt, faults, deaths and died are history      *)
(* and environment: no code reads them.                                    *)
(***************************************************************************)
EXTENDS Naturals, FiniteSets

CONSTANTS
  Messages,     (* ids of SMSLog rows: a bound                              *)
  MaxRetries,   (* SMS_HTTP_MAX_RETRIES                                     *)
  MaxDeaths     (* bound on revocations of the Eskiz bearer                 *)

ASSUME SmsAssumption == MaxRetries \in Nat /\ MaxDeaths \in Nat

VARIABLES
  mode,       (* SMS_MODE; "blind": http without URL, or an unknown mode    *)
  smsLog,     (* SMSLog.status                                              *)
  sending,    (* the request that sends the message                         *)
  verdict,    (* what the caller was told                                   *)
  bearer,     (* eskizBearer: none, or one the provider does or does not    *)
              (* (any more) take                                            *)
  copies,     (* copies the provider accepted                               *)
  fate,       (* reports the provider may make, as often as it likes        *)
  doubt,      (* an acceptance the sender did not get to record             *)
  faults,     (* attempts the provider or the network made fail             *)
  deaths,     (* revocations of the bearer                                  *)
  died        (* messages whose request ended without its last write        *)

smsVars == <<mode, smsLog, sending, verdict, bearer, copies, fate, doubt, faults, deaths, died>>

Modes == {"log", "eskiz", "http", "blind"}
NotSending == [pc |-> "idle", attempt |-> 0, must |-> FALSE, bearer |-> "none"]
SmsAt(m, label) == sending[m].pc = label
SmsStep(m, label) == sending' = [sending EXCEPT ![m].pc = label]

-----------------------------------------------------------------------------
(* The request returns or, when it failed and must not, throws.             *)

Answer(m, failed) ==
  [verdict EXCEPT ![m] = IF failed /\ sending[m].must THEN "refused" ELSE "ok"]

SendToCustomer(m) ==
  /\ smsLog[m] = "none"
  /\ smsLog' = [smsLog EXCEPT ![m] = "QUEUED"]
  /\ \E must \in BOOLEAN :
       sending' = [sending EXCEPT ![m] =
         [NotSending EXCEPT !.must = must,
            !.pc = IF mode \in {"log", "blind"} THEN mode
                   ELSE IF mode = "eskiz" THEN "bearer" ELSE "send"]]
  /\ UNCHANGED <<mode, verdict, bearer, copies, fate, doubt, faults, deaths, died>>

(* No provider: the row says SENT, and only "log" admits that it was not.   *)
SendNowhere(m) ==
  /\ SmsAt(m, "log") \/ SmsAt(m, "blind")
  /\ smsLog' = [smsLog EXCEPT ![m] = "SENT"]
  /\ verdict' = Answer(m, SmsAt(m, "log"))
  /\ SmsStep(m, "done")
  /\ UNCHANGED <<mode, bearer, copies, fate, doubt, faults, deaths, died>>

(* Mutants: one attempt too many; attempts are not counted.                 *)
AgainTooOften(m) ==
  IF sending[m].attempt <= MaxRetries
  THEN [sending[m] EXCEPT !.attempt = @ + 1, !.pc = IF mode = "eskiz" THEN "bearer" ELSE "send"]
  ELSE [sending[m] EXCEPT !.pc = "fail"]
AgainForever(m) == [sending[m] EXCEPT !.pc = IF mode = "eskiz" THEN "bearer" ELSE "send"]
Again(m) ==
  IF sending[m].attempt < MaxRetries
  THEN [sending[m] EXCEPT !.attempt = @ + 1, !.pc = IF mode = "eskiz" THEN "bearer" ELSE "send"]
  ELSE [sending[m] EXCEPT !.pc = "fail"]

(* The catch clause; why: what made the attempt fail, a fault or a bearer.  *)
CatchAttempt(m, why) ==
  /\ sending' = [sending EXCEPT ![m] = Again(m)]
  /\ faults' = IF why = "fault" /\ faults[m] <= MaxRetries
               THEN [faults EXCEPT ![m] = @ + 1] ELSE faults

(* The cached bearer, or a login that stores a new one, which an expired    *)
(* bearer needs too.                                                        *)
EnsureEskizBearer(m) ==
  /\ SmsAt(m, "bearer")
  /\ \/ /\ bearer # "none"
        /\ sending' = [sending EXCEPT ![m].pc = "send", ![m].bearer = bearer]
        /\ UNCHANGED <<bearer, faults>>
     \/ /\ bearer' = "good"
        /\ sending' = [sending EXCEPT ![m].pc = "send", ![m].bearer = "good"]
        /\ UNCHANGED faults
     \/ CatchAttempt(m, "fault") /\ UNCHANGED bearer
  /\ UNCHANGED <<mode, smsLog, verdict, copies, fate, doubt, deaths, died>>

DroppedBearer == "none"

SendRefused(m) ==
  /\ SmsAt(m, "send")
  /\ bearer' = IF mode = "eskiz" THEN DroppedBearer ELSE bearer
  /\ CatchAttempt(m, IF sending[m].bearer = "dead" THEN "bearer" ELSE "fault")
  /\ UNCHANGED <<mode, smsLog, verdict, copies, fate, doubt, deaths, died>>

Accepted(m) ==
  /\ SmsAt(m, "send") /\ sending[m].bearer # "dead"
  /\ copies[m] <= MaxRetries
  /\ copies' = [copies EXCEPT ![m] = @ + 1]
  /\ fate' = IF mode = "http" THEN [fate EXCEPT ![m] = @ \cup {"SENT"}] ELSE fate

SendAccepted(m) ==
  /\ Accepted(m) /\ SmsStep(m, "mark")
  /\ UNCHANGED <<mode, smsLog, verdict, bearer, doubt, faults, deaths, died>>

(* The provider has the message; its answer timed out or was lost.          *)
AnswerLost(m) ==
  /\ Accepted(m) /\ CatchAttempt(m, "fault")
  /\ doubt' = [doubt EXCEPT ![m] = TRUE]
  /\ UNCHANGED <<mode, smsLog, verdict, bearer, deaths, died>>

(* Mutant: no return after the row is written.                              *)
AfterMarkGoOn(m) == sending' = [sending EXCEPT ![m] = Again(m)]
AfterMark(m) == SmsStep(m, "done")

MarkSent(m) ==
  /\ SmsAt(m, "mark")
  /\ smsLog' = [smsLog EXCEPT ![m] = "SENT"]
  /\ verdict' = Answer(m, FALSE)
  /\ AfterMark(m)
  /\ UNCHANGED <<mode, bearer, copies, fate, doubt, faults, deaths, died>>

(* Writing SENT is inside the try: if it fails, the message goes out again. *)
MarkLost(m) ==
  /\ SmsAt(m, "mark") /\ CatchAttempt(m, "fault")
  /\ doubt' = [doubt EXCEPT ![m] = TRUE]
  /\ UNCHANGED <<mode, smsLog, verdict, bearer, copies, fate, deaths, died>>

MarkFailed(m) ==
  /\ SmsAt(m, "fail")
  /\ smsLog' = [smsLog EXCEPT ![m] = "FAILED"]
  /\ verdict' = Answer(m, TRUE)
  /\ SmsStep(m, "done")
  /\ UNCHANGED <<mode, bearer, copies, fate, doubt, faults, deaths, died>>

(* Outside the try a failing write is thrown, and the row stays QUEUED.     *)
WriteLost(m) ==
  /\ sending[m].pc \in {"log", "blind", "fail"}
  /\ verdict' = [verdict EXCEPT ![m] = "refused"]
  /\ died' = died \cup {m}
  /\ SmsStep(m, "done")
  /\ UNCHANGED <<mode, smsLog, bearer, copies, fate, doubt, faults, deaths>>

(* SmsDeliveryWebhookController.delivery: whatever it says, it is written.  *)
DeliveryReport(m) ==
  /\ \E st \in fate[m] : smsLog' = [smsLog EXCEPT ![m] = st]
  /\ UNCHANGED <<mode, sending, verdict, bearer, copies, fate, doubt, faults, deaths, died>>

-----------------------------------------------------------------------------
(* The environment.                                                        *)

(* A copy reaches the customer or is given up.                              *)
CopySettles(m) ==
  /\ mode = "http"
  /\ Cardinality(fate[m] \ {"SENT"}) < copies[m]
  /\ \E st \in {"DELIVERED", "FAILED"} : fate' = [fate EXCEPT ![m] = @ \cup {st}]
  /\ UNCHANGED <<mode, smsLog, sending, verdict, bearer, copies, doubt, faults, deaths, died>>

BearerRevoked ==
  /\ bearer = "good" /\ deaths < MaxDeaths
  /\ deaths' = deaths + 1
  /\ bearer' = "dead"
  /\ sending' = [m \in Messages |-> [sending[m] EXCEPT !.bearer = IF @ = "good" THEN "dead" ELSE @]]
  /\ UNCHANGED <<mode, smsLog, verdict, copies, fate, doubt, faults, died>>

SmsCrash ==
  /\ died' = died \cup {m \in Messages : sending[m].pc \notin {"idle", "done"}}
  /\ died' # died
  /\ sending' = [m \in Messages |-> IF SmsAt(m, "done") THEN sending[m] ELSE NotSending]
  /\ bearer' = "none"
  /\ UNCHANGED <<mode, smsLog, verdict, copies, fate, doubt, faults, deaths>>

SmsInit ==
  /\ mode \in Modes
  /\ smsLog = [m \in Messages |-> "none"]
  /\ sending = [m \in Messages |-> NotSending]
  /\ verdict = [m \in Messages |-> "none"]
  /\ bearer = "none"
  /\ copies = [m \in Messages |-> 0]
  /\ fate = [m \in Messages |-> {}]
  /\ doubt = [m \in Messages |-> FALSE]
  /\ faults = [m \in Messages |-> 0]
  /\ deaths = 0
  /\ died = {}

(* The steps of the request itself, which the event loop does take.         *)
SmsProgress(m) ==
  \/ SendNowhere(m) \/ EnsureEskizBearer(m) \/ SendRefused(m) \/ SendAccepted(m)
  \/ AnswerLost(m) \/ MarkSent(m) \/ MarkLost(m) \/ MarkFailed(m)
  \/ WriteLost(m)

SmsNext ==
  \/ \E m \in Messages : SendToCustomer(m) \/ SmsProgress(m) \/ DeliveryReport(m) \/ CopySettles(m)
  \/ BearerRevoked
  \/ SmsCrash

SmsFairness == \A m \in Messages : WF_smsVars(SmsProgress(m))
SmsSpec == SmsInit /\ [][SmsNext]_smsVars /\ SmsFairness

-----------------------------------------------------------------------------
(* Properties.                                                             *)

(* Rows and requests are well formed, and attempts stay within the limit.  *)
SmsTypeOK ==
  /\ mode \in Modes
  /\ smsLog \in [Messages -> {"none", "QUEUED", "SENT", "DELIVERED", "FAILED"}]
  /\ sending \in [Messages -> [pc : {"idle", "log", "blind", "bearer", "send", "mark", "fail", "done"},
                               attempt : 0..MaxRetries, must : BOOLEAN,
                               bearer : {"none", "good", "dead"}]]
  /\ verdict \in [Messages -> {"none", "ok", "refused"}]
  /\ bearer \in {"none", "good", "dead"}
  /\ copies \in [Messages -> 0..(MaxRetries + 1)]
  /\ fate \in [Messages -> SUBSET {"SENT", "DELIVERED", "FAILED"}]
  /\ doubt \in [Messages -> BOOLEAN]
  /\ faults \in [Messages -> 0..(MaxRetries + 1)]
  /\ deaths \in 0..MaxDeaths
  /\ died \subseteq Messages

(* The customer gets a second copy only if the provider's acceptance was   *)
(* lost on its way into the row, by the network or by the database.        *)
SecondCopyNeedsDoubt == \A m \in Messages : copies[m] > 1 => doubt[m]

(* A caller that insists on delivery is told "ok" only when the provider   *)
(* accepted the message; http without a URL is the exception.              *)
OkMeansAccepted ==
  \A m \in Messages :
     (verdict[m] = "ok" /\ sending[m].must) => copies[m] > 0 \/ mode = "blind"

(* However reports arrive, early, late or twice, a row says FAILED of a    *)
(* message that arrived only if an acceptance was lost.                    *)
FailedMeansNotArrived ==
  \A m \in Messages : smsLog[m] = "FAILED" /\ "DELIVERED" \in fate[m] => doubt[m]

(* A message is given up only after a fault for each attempt; one revoked  *)
(* bearer, shared by all messages in flight, accounts for one at most.     *)
GivenUpForCause ==
  \A m \in Messages : SmsAt(m, "fail") => faults[m] + deaths > MaxRetries

(* What the row says and the caller is told is so, whatever the provider,  *)
(* the network and the database did, but for an acceptance that was lost.  *)
OutcomeIsTrue ==
  SecondCopyNeedsDoubt /\ OkMeansAccepted /\ FailedMeansNotArrived /\ GivenUpForCause

(* A message does not stay queued, unless the process or the database      *)
(* failed its request.                                                     *)
QueuedIsSettled ==
  \A m \in Messages : smsLog[m] = "QUEUED" ~> smsLog[m] # "QUEUED" \/ m \in died
=============================================================================
