------------------------------ MODULE Sessions ------------------------------
(***************************************************************************)
(* Logging in and staying logged in: refresh tokens (AuthService), one-    *)
(* time codes (OtpService), the driver's activation code, passwords and    *)
(* the exchange endpoint, beside what administrators do to the account.    *)
(*                                                                         *)
(* A request occupies a slot; every database statement is a step, so that  *)
(* requests presenting the same credential interleave, and a request may   *)
(* die between two statements.  raced and closed are history variables:    *)
(* they name what two requests held at once, and the tokens logged out.    *)
(***************************************************************************)
EXTENDS Naturals, FiniteSets

CONSTANTS
  Drivers, Operators, Admins,   (* users of each role                       *)
  Tokens,                       (* ids of AuthRefreshSession rows: a bound  *)
  Codes,                        (* ids of OtpLoginChallenge rows: a bound   *)
  Slots,                        (* requests that may be in flight at once   *)
  OtpLogin,                     (* OTP_LOGIN_ENABLED                        *)
  None                          (* SQL NULL                                 *)

Users == Drivers \cup Operators \cup Admins

ASSUME RolesAssumption ==
  /\ Drivers \cap Operators = {} /\ Drivers \cap Admins = {} /\ Operators \cap Admins = {}
ASSUME CredentialsAssumption ==
  Tokens \cap Codes = {}
ASSUME NoneAssumption == None \notin Users \cup Tokens \cup Codes
ASSUME OtpLoginAssumption == OtpLogin \in BOOLEAN

VARIABLES
  acct,       (* User.status, Driver.onboardingStatus = APPROVED,           *)
              (* activationCode and appActivatedAt set                      *)
  session,    (* AuthRefreshSession rows; via: the token or code one came    *)
              (* from, None for another login                               *)
  challenge,  (* OtpLoginChallenge rows                                     *)
  req,        (* requests in flight                                         *)
  raced,      (* history: credentials held by two requests at once          *)
  closed      (* history: tokens revoked by a logout                        *)

vars == <<acct, session, challenge, req, raced, closed>>

Status  == {"PENDING_VERIFICATION", "ACTIVE", "SUSPENDED", "GONE"}
(* LAPSED: the row is as it was, and its expiresAt has passed.              *)
NoToken == [state |-> "none", user |-> None, via |-> None]
NoCode  == [state |-> "none", user |-> None]
Idle    == [pc |-> "idle", user |-> None, cred |-> None]

Exists(u)  == acct[u].status # "GONE"
Unused     == {t \in Tokens : session[t].state = "none"}
InFlight   == {s \in Slots : req[s].pc # "idle"}
Valid(t)   == session[t].state \in {"live", "lapsed"}   (* revokedAt is null  *)
Finish(s)  == req' = [req EXCEPT ![s] = Idle]

(* A request that will issue a session starts; Tokens bounds them all.      *)
Begin(s, label, u, cred) ==
  /\ req[s].pc = "idle"
  /\ Cardinality(Unused) > Cardinality(InFlight)
  /\ req' = [req EXCEPT ![s] = [pc |-> label, user |-> u, cred |-> cred]]
  /\ raced' = raced \cup ({cred} \cap (Tokens \cup Codes) \cap {req[x].cred : x \in InFlight})
  /\ UNCHANGED <<acct, session, challenge, closed>>

-----------------------------------------------------------------------------
(* Refresh tokens.                                                         *)

(* Mutant: refresh takes a token nobody was given.                          *)
RefreshableUnknown(t) == session[t].state \in {"live", "none"}
Refreshable(t) == session[t].state = "live"

RefreshTokens(s) ==
  \E t \in Tokens : Refreshable(t) /\ Begin(s, "revoke", session[t].user, t)

(* Mutant: the token presented is left valid.                               *)
RevokedNever(t) == session
Revoked(t) == [session EXCEPT ![t].state = "revoked"]

(* The update is by id: it fails only when the row was deleted.             *)
RefreshRevoke(s) ==
  LET t == req[s].cred
  IN  /\ req[s].pc = "revoke"
      /\ IF session[t].state = "gone"
         THEN Finish(s) /\ UNCHANGED session
         ELSE session' = Revoked(t) /\ req' = [req EXCEPT ![s].pc = "issue"]
      /\ UNCHANGED <<acct, challenge, raced, closed>>

LogoutWithRefreshToken(s) ==
  \E t \in Tokens : Valid(t) /\ Begin(s, "logout", session[t].user, t)

LogoutRevoke(s) ==
  LET t == req[s].cred
  IN  /\ req[s].pc = "logout"
      /\ IF session[t].state = "gone"
         THEN UNCHANGED <<session, closed>>
         ELSE session' = Revoked(t) /\ closed' = closed \cup {t}
      /\ Finish(s)
      /\ UNCHANGED <<acct, challenge, raced>>

(* Needs an access token, which outlives the session it came with.          *)
LogoutAllSessions(u) ==
  LET mine == {t \in Tokens : session[t].user = u /\ Valid(t)}
  IN  /\ Exists(u)
      /\ \E t \in Tokens : session[t].user = u
      /\ session' = [t \in Tokens |-> IF t \in mine THEN [session[t] EXCEPT !.state = "revoked"]
                                                    ELSE session[t]]
      /\ closed' = closed \cup mine
      /\ raced' = raced \cup (mine \cap {req[x].cred : x \in InFlight})
      /\ UNCHANGED <<acct, challenge, req>>

(* The foreign key from a session to its user.                              *)
Owner(u) == Exists(u)

(* issueWithNewRefresh: the row of a deleted user is refused.               *)
Issue(s) ==
  LET u == req[s].user
  IN  /\ req[s].pc = "issue"
      /\ IF Owner(u)
         THEN \E t \in Unused :
                session' = [session EXCEPT ![t] =
                              [state |-> "live", user |-> u, via |-> req[s].cred]]
         ELSE UNCHANGED session
      /\ Finish(s)
      /\ UNCHANGED <<acct, challenge, raced, closed>>

-----------------------------------------------------------------------------
(* One-time codes.  The two request endpoints write the same kind of row   *)
(* and the two verify endpoints take either; a code whose SMS was refused  *)
(* stays in the table, but nobody learns its id.                           *)

NewChallenge(u) ==
  \E c \in Codes, sent \in {"open", "unsent"} :
     /\ challenge[c].state = "none"
     /\ challenge' = [challenge EXCEPT ![c] = [state |-> sent, user |-> u]]
     /\ UNCHANGED <<acct, session, req, raced, closed>>

RequestDriverOtp(u) == OtpLogin /\ Exists(u) /\ NewChallenge(u)

RequestRegistrationOtp(u) ==
  /\ Exists(u) /\ acct[u].status # "SUSPENDED" /\ ~acct[u].approved
  /\ NewChallenge(u)

VerifyOtp(s) ==
  \E c \in Codes :
     /\ challenge[c].state = "open"
     /\ Begin(s, "consume", challenge[c].user, c)

(* Mutant: the code is looked up and never consumed.                        *)
ConsumedNever(c) == challenge
Consumed(c) == [challenge EXCEPT ![c].state = "used"]

ConsumeOtp(s) ==
  LET c == req[s].cred
  IN  /\ req[s].pc = "consume"
      /\ IF challenge[c].state = "gone"
         THEN Finish(s) /\ UNCHANGED challenge
         ELSE challenge' = Consumed(c) /\ req' = [req EXCEPT ![s].pc = "issue"]
      /\ UNCHANGED <<acct, session, raced, closed>>

-----------------------------------------------------------------------------
(* Activation code, password and exchange.                                 *)

Admitted(u) == Exists(u) /\ acct[u].status # "SUSPENDED"

(* The code is not cleared: presented again it logs in again.               *)
ActivateDriverWithCode(s, u) ==
  /\ Admitted(u) /\ acct[u].code
  /\ Begin(s, IF acct[u].activated THEN "issue" ELSE "activate", u, None)

ActivateMark(s) ==
  LET u == req[s].user
  IN  /\ req[s].pc = "activate"
      /\ IF Exists(u)
         THEN acct' = [acct EXCEPT ![u].activated = TRUE] /\ req' = [req EXCEPT ![s].pc = "issue"]
         ELSE Finish(s) /\ UNCHANGED acct
      /\ UNCHANGED <<session, challenge, raced, closed>>

LoginOperatorPassword(s, u) == Admitted(u) /\ Begin(s, "issue", u, None)

LoginAdminWebPassword(s, u) == Exists(u) /\ Begin(s, "issue", u, None)

ExchangeDriverToken(s, u) ==
  /\ Exists(u) /\ (acct[u].code => acct[u].activated)
  /\ Begin(s, "issue", u, None)

ExchangeStaffToken(s, u) == Exists(u) /\ Begin(s, "issue", u, None)

-----------------------------------------------------------------------------
(* The account itself, and the environment.                                *)

ApproveDriver(u) ==
  /\ Exists(u)
  /\ acct[u].approved => acct[u].status = "SUSPENDED"
  /\ acct' = [acct EXCEPT ![u].status = "ACTIVE", ![u].approved = TRUE, ![u].code = TRUE]
  /\ UNCHANGED <<session, challenge, req, raced, closed>>

Suspend(u) ==
  /\ Exists(u)
  /\ acct' = [acct EXCEPT ![u].status = "SUSPENDED"]
  /\ UNCHANGED <<session, challenge, req, raced, closed>>

ReactivateOperator(u) ==
  /\ acct[u].status = "SUSPENDED"
  /\ acct' = [acct EXCEPT ![u].status = "ACTIVE"]
  /\ UNCHANGED <<session, challenge, req, raced, closed>>

(* The rows that refer to the user are deleted with it.                     *)
DeleteUser(u) ==
  /\ Exists(u)
  /\ acct' = [acct EXCEPT ![u].status = "GONE"]
  /\ session' = [t \in Tokens |-> IF session[t].user = u THEN [NoToken EXCEPT !.state = "gone"]
                                                         ELSE session[t]]
  /\ challenge' = [c \in Codes |-> IF challenge[c].user = u
                                   THEN [NoCode EXCEPT !.state = "gone"] ELSE challenge[c]]
  /\ UNCHANGED <<req, raced, closed>>

Lapse ==
  /\ \/ /\ \E t \in Tokens : /\ session[t].state = "live"
                             /\ session' = [session EXCEPT ![t].state = "lapsed"]
        /\ UNCHANGED challenge
     \/ /\ \E c \in Codes : /\ challenge[c].state = "open"
                            /\ challenge' = [challenge EXCEPT ![c].state = "lapsed"]
        /\ UNCHANGED session
  /\ UNCHANGED <<acct, req, raced, closed>>

Abort(s) ==
  /\ req[s].pc # "idle"
  /\ Finish(s)
  /\ UNCHANGED <<acct, session, challenge, raced, closed>>

Init ==
  /\ acct = [u \in Users |-> [status |-> IF u \in Drivers THEN "PENDING_VERIFICATION" ELSE "ACTIVE",
                              approved |-> FALSE, code |-> FALSE, activated |-> FALSE]]
  /\ session = [t \in Tokens |-> NoToken]
  /\ challenge = [c \in Codes |-> NoCode]
  /\ req = [s \in Slots |-> Idle]
  /\ raced = {}
  /\ closed = {}

Next ==
  \/ \E s \in Slots :
       \/ RefreshTokens(s) \/ RefreshRevoke(s) \/ LogoutWithRefreshToken(s) \/ LogoutRevoke(s)
       \/ Issue(s) \/ VerifyOtp(s) \/ ConsumeOtp(s) \/ ActivateMark(s) \/ Abort(s)
       \/ \E u \in Drivers : ActivateDriverWithCode(s, u) \/ ExchangeDriverToken(s, u)
       \/ \E u \in Operators : LoginOperatorPassword(s, u)
       \/ \E u \in Admins : LoginAdminWebPassword(s, u)
       \/ \E u \in Operators \cup Admins : ExchangeStaffToken(s, u)
  \/ \E u \in Drivers : RequestDriverOtp(u) \/ RequestRegistrationOtp(u) \/ ApproveDriver(u)
  \/ \E u \in Operators : ReactivateOperator(u)
  \/ \E u \in Drivers \cup Operators : Suspend(u) \/ DeleteUser(u)
  \/ \E u \in Users : LogoutAllSessions(u)
  \/ Lapse

Spec == Init /\ [][Next]_vars

-----------------------------------------------------------------------------
(* Properties.                                                             *)

(* Rows and requests are well formed, and every request in flight acts for *)
(* somebody.                                                               *)
TypeOK ==
  /\ acct \in [Users -> [status : Status, approved : BOOLEAN, code : BOOLEAN, activated : BOOLEAN]]
  /\ session \in [Tokens -> [state : {"none", "live", "lapsed", "revoked", "gone"},
                             user : Users \cup {None}, via : Tokens \cup Codes \cup {None}]]
  /\ challenge \in [Codes -> [state : {"none", "open", "lapsed", "unsent", "used", "gone"},
                              user : Users \cup {None}]]
  /\ req \in [Slots -> [pc : {"idle", "revoke", "logout", "issue", "consume", "activate"},
                        user : Users \cup {None}, cred : Tokens \cup Codes \cup {None}]]
  /\ \A s \in InFlight : req[s].user \in Users
  /\ raced \subseteq Tokens \cup Codes
  /\ closed \subseteq Tokens

(* A refresh token or a one-time code yields at most one session, unless   *)
(* two requests presented it at the same moment: find and revoke, find and *)
(* consume are two statements each.                                        *)
SingleUse ==
  \A c \in (Tokens \cup Codes) \ raced : Cardinality({t \in Tokens : session[t].via = c}) <= 1

(* However refreshes, logouts, crashes and deletions interleave, a session *)
(* that came out of a refresh never coexists with its predecessor: the old *)
(* token is revoked before the new one is stored, so a request that dies   *)
(* in between loses the login rather than doubling it.                     *)
RotatedOut ==
  \A t \in Tokens : session[t].via \in Tokens => session[session[t].via].state # "live"

(* A token ended by logout or by logout-everywhere has no successor,       *)
(* unless a refresh of it was in flight at that moment.                    *)
LogoutIsFinal ==
  \A t \in Tokens : session[t].via \notin closed \ raced

(* Nothing usable is left of a deleted account, whatever was in flight for *)
(* it: no live session, no open code.                                      *)
DeletedLeavesNothing ==
  \A u \in Users : ~Exists(u) =>
    /\ \A t \in Tokens : session[t].user # u
    /\ \A c \in Codes : challenge[c].user # u

(* What has ended stays ended: the session a refresh replaces, the one a   *)
(* logout closes, and all of a deleted account.                            *)
EndedForGood == RotatedOut /\ LogoutIsFinal /\ DeletedLeavesNothing
=============================================================================
