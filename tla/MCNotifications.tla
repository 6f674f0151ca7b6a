-------------------------- MODULE MCNotifications --------------------------
(* The four ways the system tells somebody something.  They share no state, *)
(* so each is explored with the other three at rest: the run checks their   *)
(* sum and not their product.                                               *)
EXTENDS Sms, Push, News, Chat

VARIABLE part

Init ==
  /\ part \in {"sms", "push", "news", "chat"}
  /\ SmsInit /\ PushInit /\ NewsInit /\ ChatInit
  /\ part # "sms" => mode = "log"
  /\ part # "news" => \A d \in Drivers : driver[d].zone = NoValue

Next ==
  /\ UNCHANGED part
  /\ \/ part = "sms"  /\ SmsNext  /\ UNCHANGED <<pushVars, newsVars, chatVars>>
     \/ part = "push" /\ PushNext /\ UNCHANGED <<smsVars, newsVars, chatVars>>
     \/ part = "news" /\ NewsNext /\ UNCHANGED <<smsVars, pushVars, chatVars>>
     \/ part = "chat" /\ ChatNext /\ UNCHANGED <<smsVars, pushVars, newsVars>>

Spec == /\ Init
        /\ [][Next]_<<part, smsVars, pushVars, newsVars, chatVars>>
        /\ SmsFairness

(* Rows and requests of all four are well formed.                           *)
TypeOK == SmsTypeOK /\ PushTypeOK /\ NewsTypeOK /\ ChatTypeOK
=============================================================================
