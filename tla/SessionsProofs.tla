--------------------------- MODULE SessionsProofs ---------------------------
(***************************************************************************)
(* Proofs about Sessions, for any users, credentials and number of         *)
(* requests: a credential is used once, and what has ended stays ended.    *)
(***************************************************************************)
EXTENDS Sessions, FiniteSetTheorems, TLAPS

-----------------------------------------------------------------------------
(* The inductive invariant.                                                *)

Credentials == Tokens \cup Codes

(* A credential that can never be presented again.                         *)
Spent(c) ==
  IF c \in Tokens THEN session[c].state \in {"revoked", "gone"}
                  ELSE challenge[c].state \in {"used", "gone"}

Holds(s, c)    == req[s].pc # "idle" /\ req[s].cred = c
Succeeded(c)   == \E t \in Tokens : session[t].via = c

(* Rows in use name their user, and those not in use nobody.               *)
RowsOwned ==
  /\ \A t \in Tokens : IF session[t].state \in {"none", "gone"}
                       THEN session[t].user = None /\ session[t].via = None
                       ELSE session[t].user \in Users
  /\ \A c \in Codes : IF challenge[c].state \in {"none", "gone"}
                      THEN challenge[c].user = None ELSE challenge[c].user \in Users

(* A request holds a row of the kind its next statement is about, and one   *)
(* that is about to issue a session has spent it.                          *)
RequestsOK ==
  \A s \in Slots :
    /\ req[s].pc \in {"revoke", "logout"} =>
         req[s].cred \in Tokens /\ session[req[s].cred].state # "none"
    /\ req[s].pc = "consume" => req[s].cred \in Codes /\ challenge[req[s].cred].state # "none"
    /\ req[s].pc = "activate" => req[s].cred = None
    /\ req[s].pc = "issue" /\ req[s].cred \in Credentials => Spent(req[s].cred)

(* What a session came from is spent.                                      *)
SuccessorsOfSpent == \A t \in Tokens : session[t].via \in Credentials => Spent(session[t].via)

(* Unless it was raced for, a credential is held by one request at most,   *)
(* has one successor at most, and not while a request still holds it.      *)
Unraced ==
  \A c \in Credentials \ raced :
    /\ \A s, x \in Slots : Holds(s, c) /\ Holds(x, c) => s = x
    /\ \A t, u \in Tokens : session[t].via = c /\ session[u].via = c => t = u
    /\ Succeeded(c) => \A s \in Slots : ~Holds(s, c)

(* A token logged out is spent and, unless raced for, in nobody's hands    *)
(* and without successor.                                                  *)
ClosedForGood ==
  \A c \in closed :
    /\ Spent(c)
    /\ c \notin raced => ~Succeeded(c) /\ \A s \in Slots : ~Holds(s, c)

IInv == /\ TypeOK /\ RowsOwned /\ RequestsOK /\ SuccessorsOfSpent /\ Unraced /\ ClosedForGood
        /\ DeletedLeavesNothing

-----------------------------------------------------------------------------
(* Steps by what they change.                                              *)

LEMMA NoneApart == None \notin Users /\ None \notin Credentials
BY NoneAssumption DEF Credentials

(* Most steps bring no session with an origin: they keep what is spent,    *)
(* end or move on requests that have spent theirs, and account for what    *)
(* they close.                                                             *)
LEMMA QuietStep ==
  ASSUME IInv, TypeOK', RowsOwned', DeletedLeavesNothing', raced \subseteq raced',
         \A c \in Credentials : Spent(c) => Spent(c)',
         \A t \in Tokens : /\ session'[t].via \in {session[t].via, None}
                           /\ session[t].state # "none" => session'[t].state # "none",
         \A c \in Codes : challenge[c].state # "none" => challenge'[c].state # "none",
         \A s \in Slots :
           \/ req'[s] = req[s]
           \/ req'[s] = Idle
           \/ /\ req[s].pc # "idle" /\ req'[s].pc = "issue" /\ req'[s].cred = req[s].cred
              /\ req[s].cred \in Credentials => Spent(req[s].cred)',
         \A c \in closed' :
           \/ c \in closed
           \/ /\ Spent(c)'
              /\ c \notin raced' => ~Succeeded(c)' /\ \A s \in Slots : ~Holds(s, c)'
  PROVE  IInv'
<1> USE NoneApart
<1>1. \A s \in Slots : /\ req[s].pc \in {"revoke", "logout", "consume", "issue", "activate", "idle"}
                       /\ req[s] = [pc |-> req[s].pc, user |-> req[s].user, cred |-> req[s].cred]
  BY DEF IInv, TypeOK
<1>2. RequestsOK'
  BY <1>1 DEF IInv, RequestsOK, Idle, Credentials
<1>3. SuccessorsOfSpent'
  BY DEF IInv, SuccessorsOfSpent
<1>4. \A s \in Slots, c \in Credentials : Holds(s, c)' => Holds(s, c)
  BY <1>1 DEF Holds, Idle
<1>5. \A c \in Credentials : Succeeded(c)' => Succeeded(c)
  BY DEF Succeeded
<1>6. Unraced'
  <2> SUFFICES ASSUME NEW c \in Credentials, c \notin raced'
               PROVE  /\ \A s, x \in Slots : Holds(s, c)' /\ Holds(x, c)' => s = x
                      /\ \A t, u \in Tokens : session'[t].via = c /\ session'[u].via = c => t = u
                      /\ Succeeded(c)' => \A s \in Slots : ~Holds(s, c)'
    BY DEF Unraced
  <2>1. c \notin raced
    OBVIOUS
  <2> QED BY <1>4, <1>5, <2>1 DEF IInv, Unraced
<1>7. ClosedForGood'
  <2>1. closed \subseteq Credentials
    BY DEF IInv, TypeOK, Credentials
  <2>2. ASSUME NEW c \in closed
        PROVE  Spent(c)' /\ (c \notin raced' => ~Succeeded(c)' /\ \A s \in Slots : ~Holds(s, c)')
    BY <1>4, <1>5, <2>1, <2>2 DEF IInv, ClosedForGood
  <2> QED BY <2>2 DEF ClosedForGood
<1> QED BY <1>2, <1>3, <1>6, <1>7 DEF IInv

(* A request that presents a credential presents one that is not spent:     *)
(* it has no successor, and who holds it already makes it raced.           *)
LEMMA BeginStep ==
  ASSUME IInv, NEW s \in Slots, NEW label, NEW u \in Users, NEW cred, Begin(s, label, u, cred),
         \/ label \in {"issue", "activate"} /\ cred = None
         \/ /\ label \in {"revoke", "logout"} /\ cred \in Tokens
            /\ session[cred].state # "none" /\ ~Spent(cred)
         \/ /\ label = "consume" /\ cred \in Codes
            /\ challenge[cred].state # "none" /\ ~Spent(cred)
  PROVE  IInv'
<1> USE NoneApart
<1> DEFINE r == [pc |-> label, user |-> u, cred |-> cred]
<1>1. /\ req[s].pc = "idle" /\ req' = [req EXCEPT ![s] = r]
      /\ raced' = raced \cup ({cred} \cap Credentials \cap {req[x].cred : x \in InFlight})
      /\ UNCHANGED <<acct, session, challenge, closed>>
  BY DEF Begin, Credentials
<1>2. /\ req \in [Slots -> [pc : {"idle", "revoke", "logout", "issue", "consume", "activate"},
                           user : Users \cup {None}, cred : Tokens \cup Codes \cup {None}]]
      /\ r.pc = label /\ r.user = u /\ r.cred = cred
  BY DEF IInv, TypeOK
<1>3. /\ r \in [pc : {"idle", "revoke", "logout", "issue", "consume", "activate"},
                user : Users \cup {None}, cred : Tokens \cup Codes \cup {None}]
  OBVIOUS
<1> HIDE DEF r
<1>4. req'[s] = r /\ \A x \in Slots \ {s} : req'[x] = req[x]
  BY <1>1, <1>2
<1>5. TypeOK'
  BY <1>1, <1>2, <1>3, <1>4 DEF IInv, TypeOK, InFlight, Credentials, Exists
<1>6. RowsOwned' /\ DeletedLeavesNothing' /\ SuccessorsOfSpent'
  BY <1>1 DEF IInv, RowsOwned, DeletedLeavesNothing, Exists, SuccessorsOfSpent, Spent
<1>7. RequestsOK'
  BY <1>1, <1>2, <1>4 DEF IInv, RequestsOK, Spent
<1>8. \A x \in Slots, c \in Credentials : Holds(x, c)' <=> (x = s /\ c = cred) \/ (x # s /\ Holds(x, c))
  BY <1>2, <1>4 DEF Holds
<1>9. \A c \in Credentials : Succeeded(c)' <=> Succeeded(c)
  BY <1>1 DEF Succeeded
<1>10. cred \in Credentials => ~Succeeded(cred) /\ cred \notin closed
  BY DEF IInv, SuccessorsOfSpent, ClosedForGood, Succeeded
<1>11. \A x \in Slots : cred \in Credentials /\ cred \notin raced' => ~Holds(x, cred)
  BY <1>1 DEF Holds, InFlight
<1>12. Unraced'
  <2> SUFFICES ASSUME NEW c \in Credentials, c \notin raced'
               PROVE  /\ \A y, x \in Slots : Holds(y, c)' /\ Holds(x, c)' => y = x
                      /\ \A t, v \in Tokens : session'[t].via = c /\ session'[v].via = c => t = v
                      /\ Succeeded(c)' => \A x \in Slots : ~Holds(x, c)'
    BY DEF Unraced
  <2>1. c \in Credentials \ raced /\ session' = session
    BY <1>1
  <2> QED BY <1>8, <1>9, <1>10, <1>11, <2>1 DEF IInv, Unraced
<1>13. ClosedForGood'
  <2>1. closed \subseteq Credentials /\ closed' = closed /\ raced \subseteq raced'
    BY <1>1 DEF IInv, TypeOK, Credentials
  <2>2. \A c : Spent(c)' <=> Spent(c)
    BY <1>1 DEF Spent
  <2> QED BY <1>8, <1>9, <1>10, <2>1, <2>2 DEF IInv, ClosedForGood
<1> QED BY <1>5, <1>6, <1>7, <1>12, <1>13 DEF IInv

(* A request ends; nothing else happens but what its last statement wrote.  *)
LEMMA FinishedIdle ==
  ASSUME TypeOK, NEW s \in Slots, Finish(s)
  PROVE  /\ req' = [req EXCEPT ![s] = Idle]
         /\ req' \in [Slots -> [pc : {"idle", "revoke", "logout", "issue", "consume", "activate"},
                               user : Users \cup {None}, cred : Tokens \cup Codes \cup {None}]]
         /\ \A x \in Slots : req'[x].pc # "idle" => req'[x].user \in Users
         /\ \A x \in Slots : req'[x] = req[x] \/ req'[x] = Idle
<1> DEFINE R == [pc : {"idle", "revoke", "logout", "issue", "consume", "activate"},
                 user : Users \cup {None}, cred : Tokens \cup Codes \cup {None}]
<1>1. Idle \in R /\ Idle.pc = "idle"
  BY DEF Idle
<1>2. req' = [req EXCEPT ![s] = Idle] /\ req \in [Slots -> R]
  BY DEF Finish, TypeOK
<1> HIDE DEF R
<1>3. req' \in [Slots -> R] /\ \A x \in Slots : req'[x] = IF x = s THEN Idle ELSE req[x]
  BY <1>1, <1>2
<1> QED BY <1>1, <1>2, <1>3 DEF TypeOK, InFlight, R

(* A request goes on to issue the session.                                 *)
LEMMA ReadyToIssue ==
  ASSUME TypeOK, NEW s \in Slots, req[s].pc # "idle", req' = [req EXCEPT ![s].pc = "issue"]
  PROVE  /\ req' \in [Slots -> [pc : {"idle", "revoke", "logout", "issue", "consume", "activate"},
                               user : Users \cup {None}, cred : Tokens \cup Codes \cup {None}]]
         /\ \A x \in Slots : req'[x].pc # "idle" => req'[x].user \in Users
         /\ req'[s].pc = "issue" /\ req'[s].cred = req[s].cred
         /\ \A x \in Slots \ {s} : req'[x] = req[x]
BY DEF TypeOK, InFlight

-----------------------------------------------------------------------------
(* Refresh tokens.                                                         *)

LEMMA RefreshTokensStep ==
  ASSUME IInv, NEW s \in Slots, RefreshTokens(s) \/ LogoutWithRefreshToken(s)
  PROVE  IInv'
<1>1. PICK t \in Tokens, label \in {"revoke", "logout"} :
        session[t].state \in {"live", "lapsed"} /\ Begin(s, label, session[t].user, t)
  BY DEF RefreshTokens, LogoutWithRefreshToken, Refreshable, Valid
<1>2. session[t].user \in Users /\ ~Spent(t)
  BY <1>1 DEF IInv, RowsOwned, Spent
<1> QED BY <1>1, <1>2, BeginStep

(* Revoking a token: its row is in use.                                    *)
LEMMA RevokedRow ==
  ASSUME IInv, NEW t \in Tokens, session[t].state # "gone", session[t].state # "none",
         session' = Revoked(t), UNCHANGED <<acct, challenge>>
  PROVE  /\ session' \in [Tokens -> [state : {"none", "live", "lapsed", "revoked", "gone"},
                                     user : Users \cup {None}, via : Tokens \cup Codes \cup {None}]]
         /\ RowsOwned' /\ DeletedLeavesNothing' /\ Spent(t)'
         /\ \A c \in Credentials : Spent(c) => Spent(c)'
         /\ \A x \in Tokens : /\ session'[x].via = session[x].via
                              /\ session[x].state # "none" => session'[x].state # "none"
<1>1. /\ session' = [session EXCEPT ![t].state = "revoked"]
      /\ session \in [Tokens -> [state : {"none", "live", "lapsed", "revoked", "gone"},
                                 user : Users \cup {None}, via : Tokens \cup Codes \cup {None}]]
  BY DEF Revoked, IInv, TypeOK
<1>2. /\ session' \in [Tokens -> [state : {"none", "live", "lapsed", "revoked", "gone"},
                                  user : Users \cup {None}, via : Tokens \cup Codes \cup {None}]]
      /\ session'[t].state = "revoked"
      /\ \A x \in Tokens : /\ session'[x].via = session[x].via /\ session'[x].user = session[x].user
                           /\ x # t => session'[x].state = session[x].state
  BY <1>1
<1>3. RowsOwned'
  BY <1>2 DEF IInv, RowsOwned
<1>4. DeletedLeavesNothing'
  BY <1>2 DEF IInv, DeletedLeavesNothing, Exists
<1> QED BY <1>2, <1>3, <1>4 DEF Spent, Credentials

LEMMA RefreshRevokeStep ==
  ASSUME IInv, NEW s \in Slots, RefreshRevoke(s)
  PROVE  IInv'
<1> DEFINE t == req[s].cred
<1>1. /\ req[s].pc = "revoke" /\ t \in Tokens /\ session[t].state # "none"
      /\ UNCHANGED <<acct, challenge, raced, closed>>
  BY DEF RefreshRevoke, IInv, RequestsOK
<1>2. CASE Finish(s) /\ UNCHANGED session
  <2>1. TypeOK'
    BY <1>1, <1>2, FinishedIdle DEF IInv, TypeOK, InFlight
  <2>2. RowsOwned' /\ DeletedLeavesNothing'
    BY <1>1, <1>2 DEF IInv, RowsOwned, DeletedLeavesNothing, Exists
  <2>3. \A c : Spent(c)' <=> Spent(c)
    BY <1>1, <1>2 DEF Spent
  <2> QED BY <1>1, <1>2, <2>1, <2>2, <2>3, FinishedIdle, QuietStep DEF IInv
<1>3. CASE session[t].state # "gone" /\ session' = Revoked(t) /\ req' = [req EXCEPT ![s].pc = "issue"]
  <2>1. TypeOK'
    BY <1>1, <1>3, RevokedRow, ReadyToIssue DEF IInv, TypeOK, InFlight
  <2> QED BY <1>1, <1>3, <2>1, RevokedRow, ReadyToIssue, QuietStep DEF IInv
<1> QED BY <1>2, <1>3 DEF RefreshRevoke

LEMMA LogoutRevokeStep ==
  ASSUME IInv, NEW s \in Slots, LogoutRevoke(s)
  PROVE  IInv'
<1>1. PICK t \in Tokens :
        /\ req[s].pc = "logout" /\ t = req[s].cred /\ session[t].state # "none" /\ Finish(s)
        /\ UNCHANGED <<acct, challenge, raced>>
  BY DEF LogoutRevoke, IInv, RequestsOK
<1>2. CASE UNCHANGED <<session, closed>>
  <2>1. TypeOK'
    BY <1>1, <1>2, FinishedIdle DEF IInv, TypeOK, InFlight
  <2>2. RowsOwned' /\ DeletedLeavesNothing'
    BY <1>1, <1>2 DEF IInv, RowsOwned, DeletedLeavesNothing, Exists
  <2>3. \A c : Spent(c)' <=> Spent(c)
    BY <1>1, <1>2 DEF Spent
  <2> QED BY <1>1, <1>2, <2>1, <2>2, <2>3, FinishedIdle, QuietStep DEF IInv
<1>3. CASE session[t].state # "gone" /\ session' = Revoked(t) /\ closed' = closed \cup {t}
  <2>1. TypeOK'
    BY <1>1, <1>3, RevokedRow, FinishedIdle DEF IInv, TypeOK, InFlight
  <2>2. ASSUME t \notin raced
        PROVE  ~Succeeded(t)' /\ \A x \in Slots : ~Holds(x, t)'
    <3>1. ~Succeeded(t) /\ \A x \in Slots \ {s} : ~Holds(x, t)
      BY <1>1, <2>2 DEF IInv, Unraced, Holds, Credentials
    <3>2. \A x \in Tokens : session'[x].via = session[x].via
      BY <1>1, <1>3, RevokedRow
    <3>3. \A x \in Slots : req'[x] = IF x = s THEN Idle ELSE req[x]
      BY <1>1 DEF Finish, IInv, TypeOK
    <3> QED BY <3>1, <3>2, <3>3 DEF Holds, Succeeded, Idle
  <2>3. Spent(t)' /\ \A c \in closed' : c \in closed \/ c = t
    BY <1>1, <1>3, RevokedRow
  <2>4. \A c \in closed' :
          \/ c \in closed
          \/ /\ Spent(c)'
             /\ c \notin raced' => ~Succeeded(c)' /\ \A x \in Slots : ~Holds(x, c)'
    BY <1>1, <2>2, <2>3
  <2>5. \A x \in Slots : req'[x] = req[x] \/ req'[x] = Idle
    BY <1>1, FinishedIdle DEF IInv
  <2>6. /\ RowsOwned' /\ DeletedLeavesNothing'
        /\ \A c \in Credentials : Spent(c) => Spent(c)'
        /\ \A x \in Tokens : /\ session'[x].via = session[x].via
                             /\ session[x].state # "none" => session'[x].state # "none"
    BY <1>1, <1>3, RevokedRow
  <2> QED BY <1>1, <2>1, <2>4, <2>5, <2>6, QuietStep
<1> QED BY <1>1, <1>2, <1>3 DEF LogoutRevoke

(* The tokens it closes were valid, so nothing has come of them; a request  *)
(* that holds one makes it raced.                                          *)
LEMMA LogoutAllSessionsStep ==
  ASSUME IInv, NEW u \in Users, LogoutAllSessions(u)
  PROVE  IInv'
<1> USE NoneApart
<1>1. PICK mine \in SUBSET Tokens :
        /\ mine = {t \in Tokens : session[t].user = u /\ Valid(t)}
        /\ session' = [t \in Tokens |-> IF t \in mine THEN [session[t] EXCEPT !.state = "revoked"]
                                                      ELSE session[t]]
        /\ closed' = closed \cup mine
        /\ raced' = raced \cup (mine \cap {req[x].cred : x \in InFlight})
        /\ UNCHANGED <<acct, challenge, req>>
  BY DEF LogoutAllSessions
<1>2. /\ session' \in [Tokens -> [state : {"none", "live", "lapsed", "revoked", "gone"},
                                  user : Users \cup {None}, via : Tokens \cup Codes \cup {None}]]
      /\ \A t \in Tokens : /\ session'[t].via = session[t].via /\ session'[t].user = session[t].user
                           /\ session'[t].state = IF t \in mine THEN "revoked" ELSE session[t].state
  BY <1>1 DEF IInv, TypeOK
<1>3. TypeOK'
  BY <1>1, <1>2 DEF IInv, TypeOK, InFlight
<1>4. \A t \in mine : session[t].state \in {"live", "lapsed"} /\ session[t].user = u
  BY <1>1 DEF Valid
<1>5. RowsOwned' /\ DeletedLeavesNothing'
  BY <1>1, <1>2, <1>4 DEF IInv, RowsOwned, DeletedLeavesNothing, Exists
<1>6. \A c \in Credentials : Spent(c) => Spent(c)'
  BY <1>1, <1>2 DEF Spent, Credentials
<1>7. ASSUME NEW c \in mine
      PROVE  Spent(c)' /\ (c \notin raced' => ~Succeeded(c)' /\ \A s \in Slots : ~Holds(s, c)')
  <2>1. ~Spent(c) /\ c \in Credentials
    BY <1>4, <1>7 DEF Spent, Credentials
  <2>2. ~Succeeded(c)
    BY <2>1 DEF IInv, SuccessorsOfSpent, Succeeded
  <2>3. ~Succeeded(c)' /\ Spent(c)'
    BY <1>2, <1>7, <2>2 DEF Succeeded, Spent
  <2>4. c \notin raced' => \A s \in Slots : ~Holds(s, c)'
    BY <1>1, <1>7 DEF Holds, InFlight
  <2> QED BY <2>3, <2>4
<1>8. \A c \in closed' :
        \/ c \in closed
        \/ /\ Spent(c)'
           /\ c \notin raced' => ~Succeeded(c)' /\ \A s \in Slots : ~Holds(s, c)'
  BY <1>1, <1>7
<1> QED BY <1>1, <1>2, <1>3, <1>5, <1>6, <1>8, QuietStep

(* The one step that gives a credential a successor: the credential is      *)
(* spent, and if it is not raced, nobody else holds it and nothing came of  *)
(* it.                                                                     *)
LEMMA IssueStep ==
  ASSUME IInv, NEW s \in Slots, Issue(s)
  PROVE  IInv'
<1> USE NoneApart
<1>1. PICK u \in Users, cred \in Credentials \cup {None} :
        /\ u = req[s].user /\ cred = req[s].cred /\ req[s].pc = "issue" /\ Finish(s)
        /\ UNCHANGED <<acct, challenge, raced, closed>>
        /\ cred \in Credentials => Spent(cred)
  BY DEF Issue, IInv, TypeOK, InFlight, Credentials, RequestsOK
<1>2. CASE UNCHANGED session
  <2>1. TypeOK'
    BY <1>1, <1>2, FinishedIdle DEF IInv, TypeOK, InFlight
  <2>2. RowsOwned' /\ DeletedLeavesNothing'
    BY <1>1, <1>2 DEF IInv, RowsOwned, DeletedLeavesNothing, Exists
  <2>3. \A c : Spent(c)' <=> Spent(c)
    BY <1>1, <1>2 DEF Spent
  <2> QED BY <1>1, <1>2, <2>1, <2>2, <2>3, FinishedIdle, QuietStep DEF IInv
<1>3. ASSUME Exists(u), NEW n \in Unused,
             session' = [session EXCEPT ![n] = [state |-> "live", user |-> u, via |-> cred]]
      PROVE  IInv'
  <2> DEFINE row == [state |-> "live", user |-> u, via |-> cred]
  <2>1. /\ n \in Tokens /\ session[n].state = "none"
        /\ session' \in [Tokens -> [state : {"none", "live", "lapsed", "revoked", "gone"},
                                    user : Users \cup {None}, via : Tokens \cup Codes \cup {None}]]
        /\ session'[n] = row /\ \A t \in Tokens \ {n} : session'[t] = session[t]
    BY <1>3 DEF IInv, TypeOK, Unused, Credentials
  <2>2. row.state = "live" /\ row.user = u /\ row.via = cred
    OBVIOUS
  <2> HIDE DEF row
  <2>3. /\ \A x \in Slots : req'[x] = IF x = s THEN Idle ELSE req[x]
        /\ Idle.pc = "idle"
    BY <1>1 DEF Finish, IInv, TypeOK, Idle
  <2>4. TypeOK'
    BY <1>1, <2>1, FinishedIdle DEF IInv, TypeOK, InFlight
  <2>5. RowsOwned'
    BY <1>1, <2>1, <2>2 DEF IInv, RowsOwned
  <2>6. DeletedLeavesNothing'
    BY <1>1, <1>3, <2>1, <2>2 DEF IInv, DeletedLeavesNothing, Exists
  <2>7. \A c \in Credentials : Spent(c)' <=> Spent(c)
    BY <1>1, <2>1, <2>2 DEF Spent, Credentials
  <2>8. RequestsOK'
    <3> SUFFICES ASSUME NEW x \in Slots, x # s
                 PROVE  /\ req[x].pc \in {"revoke", "logout"} =>
                             req[x].cred \in Tokens /\ session'[req[x].cred].state # "none"
                        /\ req[x].pc = "consume" =>
                             req[x].cred \in Codes /\ challenge'[req[x].cred].state # "none"
                        /\ req[x].pc = "activate" => req[x].cred = None
                        /\ req[x].pc = "issue" /\ req[x].cred \in Credentials => Spent(req[x].cred)'
      BY <2>3 DEF RequestsOK, Spent
    <3>1. req'[x] = req[x]
      BY <2>3
    <3>2. req[x].cred \in Credentials => (Spent(req[x].cred)' <=> Spent(req[x].cred))
      BY <2>7, <3>1
    <3> QED BY <1>1, <2>1, <2>2, <3>2 DEF IInv, RequestsOK
  <2>9. SuccessorsOfSpent'
    BY <1>1, <2>1, <2>2, <2>7 DEF IInv, SuccessorsOfSpent
  <2>10. \A x \in Slots, c \in Credentials : Holds(x, c)' <=> x # s /\ Holds(x, c)
    BY <2>3 DEF Holds
  <2>11. \A c \in Credentials : Succeeded(c)' => c = cred \/ Succeeded(c)
    BY <2>1, <2>2 DEF Succeeded
  <2>12. cred \in Credentials => Holds(s, cred)
    BY <1>1 DEF Holds
  <2>13. Unraced'
    <3> SUFFICES ASSUME NEW c \in Credentials, c \notin raced
                 PROVE  /\ \A y, x \in Slots : Holds(y, c)' /\ Holds(x, c)' => y = x
                        /\ \A t, v \in Tokens : session'[t].via = c /\ session'[v].via = c => t = v
                        /\ Succeeded(c)' => \A x \in Slots : ~Holds(x, c)'
      BY <1>1 DEF Unraced
    <3>1. /\ \A y, x \in Slots : Holds(y, c) /\ Holds(x, c) => y = x
          /\ \A t, v \in Tokens : session[t].via = c /\ session[v].via = c => t = v
          /\ Succeeded(c) => \A x \in Slots : ~Holds(x, c)
      BY DEF IInv, Unraced
    <3>2. c = cred => \A t \in Tokens : session[t].via # c
      BY <2>12, <3>1 DEF Succeeded
    <3> QED BY <2>1, <2>2, <2>10, <2>11, <2>12, <3>1, <3>2
  <2>14. ClosedForGood'
    <3>1. closed \subseteq Credentials
      BY DEF IInv, TypeOK, Credentials
    <3> QED BY <1>1, <2>7, <2>10, <2>11, <2>12, <3>1 DEF IInv, ClosedForGood
  <2> QED BY <2>4, <2>5, <2>6, <2>8, <2>9, <2>13, <2>14 DEF IInv
<1> QED BY <1>1, <1>2, <1>3 DEF Issue, Owner

-----------------------------------------------------------------------------
(* One-time codes.                                                         *)

LEMMA NewChallengeStep ==
  ASSUME IInv, NEW u \in Users, Exists(u), NewChallenge(u)
  PROVE  IInv'
<1>1. PICK c \in Codes, sent \in {"open", "unsent"} :
        /\ challenge[c].state = "none"
        /\ challenge' = [challenge EXCEPT ![c] = [state |-> sent, user |-> u]]
        /\ UNCHANGED <<acct, session, req, raced, closed>>
  BY DEF NewChallenge
<1> DEFINE row == [state |-> sent, user |-> u]
<1>2. /\ challenge' \in [Codes -> [state : {"none", "open", "lapsed", "unsent", "used", "gone"},
                                   user : Users \cup {None}]]
      /\ challenge'[c] = row /\ \A x \in Codes \ {c} : challenge'[x] = challenge[x]
  BY <1>1 DEF IInv, TypeOK
<1>3. row.state = sent /\ row.user = u
  OBVIOUS
<1> HIDE DEF row
<1>4. TypeOK' /\ RowsOwned' /\ DeletedLeavesNothing'
  BY <1>1, <1>2, <1>3 DEF IInv, TypeOK, InFlight, RowsOwned, DeletedLeavesNothing, Exists
<1>5. \A x \in Credentials : Spent(x) => Spent(x)'
  BY <1>1, <1>2, <1>3 DEF Spent, Credentials
<1> QED BY <1>1, <1>2, <1>3, <1>4, <1>5, QuietStep

LEMMA VerifyOtpStep ==
  ASSUME IInv, NEW s \in Slots, VerifyOtp(s)
  PROVE  IInv'
<1>1. PICK c \in Codes : challenge[c].state = "open" /\ Begin(s, "consume", challenge[c].user, c)
  BY DEF VerifyOtp
<1>2. challenge[c].user \in Users /\ ~Spent(c)
  BY <1>1, CredentialsAssumption DEF IInv, RowsOwned, Spent
<1> QED BY <1>1, <1>2, BeginStep

(* A statement that leaves sessions and codes alone, and deletes nobody.    *)
LEMMA RowsStandStill ==
  ASSUME IInv, TypeOK', UNCHANGED <<session, challenge, raced, closed>>,
         \A u \in Users : Exists(u) => Exists(u)',
         \A s \in Slots :
           \/ req'[s] = req[s] \/ req'[s] = Idle
           \/ /\ req[s].pc # "idle" /\ req'[s].pc = "issue" /\ req'[s].cred = req[s].cred
              /\ req[s].cred \notin Credentials
  PROVE  IInv'
<1>1. RowsOwned' /\ DeletedLeavesNothing'
  BY DEF IInv, RowsOwned, DeletedLeavesNothing
<1>2. \A c : Spent(c)' <=> Spent(c)
  BY DEF Spent
<1> QED BY <1>1, <1>2, QuietStep

LEMMA FinishStep ==
  ASSUME IInv, NEW s \in Slots, Finish(s), UNCHANGED <<acct, session, challenge, raced, closed>>
  PROVE  IInv'
<1>1. TypeOK'
  BY FinishedIdle DEF IInv, TypeOK, InFlight
<1> QED BY <1>1, FinishedIdle, RowsStandStill DEF IInv, Exists

LEMMA ConsumeOtpStep ==
  ASSUME IInv, NEW s \in Slots, ConsumeOtp(s)
  PROVE  IInv'
<1>1. PICK c \in Codes :
        /\ req[s].pc = "consume" /\ c = req[s].cred /\ challenge[c].state # "none"
        /\ UNCHANGED <<acct, session, raced, closed>>
  BY DEF ConsumeOtp, IInv, RequestsOK
<1>2. CASE Finish(s) /\ UNCHANGED challenge
  BY <1>1, <1>2, FinishStep
<1>3. CASE /\ challenge[c].state # "gone"
           /\ challenge' = Consumed(c) /\ req' = [req EXCEPT ![s].pc = "issue"]
  <2>1. /\ challenge' \in [Codes -> [state : {"none", "open", "lapsed", "unsent", "used", "gone"},
                                     user : Users \cup {None}]]
        /\ challenge'[c].state = "used" /\ challenge'[c].user = challenge[c].user
        /\ \A x \in Codes \ {c} : challenge'[x] = challenge[x]
    BY <1>3 DEF IInv, TypeOK, Consumed
  <2>2. TypeOK'
    BY <1>1, <1>3, <2>1, ReadyToIssue DEF IInv, TypeOK, InFlight
  <2>3. RowsOwned' /\ DeletedLeavesNothing'
    BY <1>1, <1>3, <2>1 DEF IInv, RowsOwned, DeletedLeavesNothing, Exists
  <2>4. Spent(c)' /\ \A x \in Credentials : Spent(x) => Spent(x)'
    BY <1>1, <2>1, CredentialsAssumption DEF Spent, Credentials
  <2>5. \A x \in Slots :
          \/ req'[x] = req[x]
          \/ x = s /\ req'[x].pc = "issue" /\ req'[x].cred = req[x].cred
    BY <1>1, <1>3, ReadyToIssue DEF IInv
  <2>6. \A x \in Codes : challenge[x].state # "none" => challenge'[x].state # "none"
    BY <2>1
  <2>7. req[s].cred = c => Spent(req[s].cred)'
    BY <1>1, <1>3, <2>4, <2>1, ReadyToIssue, CredentialsAssumption DEF IInv, Spent
  <2>8. /\ req'[s].cred = c
        /\ \A t \in Tokens : /\ session'[t].via \in {session[t].via, None}
                             /\ session[t].state # "none" => session'[t].state # "none"
        /\ \A x \in closed' : x \in closed
    BY <1>1, <1>3, ReadyToIssue DEF IInv
  <2>9. \A x \in Slots :
           \/ req'[x] = req[x]
           \/ /\ req[x].pc # "idle" /\ req'[x].pc = "issue" /\ req'[x].cred = req[x].cred
              /\ req[x].cred \in Credentials => Spent(req[x].cred)'
    BY <1>1, <2>5, <2>7
  <2> QED BY <1>1, <2>2, <2>3, <2>4, <2>6, <2>8, <2>9, QuietStep
<1> QED BY <1>1, <1>2, <1>3 DEF ConsumeOtp

-----------------------------------------------------------------------------
(* Logins without a credential that is spent.                              *)

LEMMA LoginStep ==
  ASSUME IInv, NEW s \in Slots,
         \/ \E u \in Drivers : ActivateDriverWithCode(s, u) \/ ExchangeDriverToken(s, u)
         \/ \E u \in Operators : LoginOperatorPassword(s, u)
         \/ \E u \in Admins : LoginAdminWebPassword(s, u)
         \/ \E u \in Operators \cup Admins : ExchangeStaffToken(s, u)
  PROVE  IInv'
<1>1. PICK u \in Users, label \in {"issue", "activate"} : Begin(s, label, u, None)
  BY DEF Users, ActivateDriverWithCode, ExchangeDriverToken, LoginOperatorPassword,
         LoginAdminWebPassword, ExchangeStaffToken
<1> QED BY <1>1, BeginStep

LEMMA ActivateMarkStep ==
  ASSUME IInv, NEW s \in Slots, ActivateMark(s)
  PROVE  IInv'
<1>1. PICK u \in Users :
        /\ req[s].pc = "activate" /\ u = req[s].user /\ req[s].cred = None
        /\ UNCHANGED <<session, challenge, raced, closed>>
  BY DEF ActivateMark, IInv, TypeOK, InFlight, RequestsOK
<1>2. CASE Finish(s) /\ UNCHANGED acct
  BY <1>1, <1>2, FinishStep
<1>3. CASE acct' = [acct EXCEPT ![u].activated = TRUE] /\ req' = [req EXCEPT ![s].pc = "issue"]
  <2>1. /\ acct' \in [Users -> [status : Status, approved : BOOLEAN, code : BOOLEAN,
                                activated : BOOLEAN]]
        /\ \A x \in Users : acct'[x].status = acct[x].status
    <3>1. acct \in [Users -> [status : Status, approved : BOOLEAN, code : BOOLEAN,
                             activated : BOOLEAN]]
      BY DEF IInv, TypeOK
    <3>2. \A x \in Users : acct'[x] = IF x = u THEN [acct[u] EXCEPT !.activated = TRUE] ELSE acct[x]
      BY <1>3, <3>1
    <3>3. DOMAIN acct' = Users /\ acct' = [x \in Users |-> acct'[x]]
      BY <1>3, <3>1
    <3>4. \A x \in Users :
            /\ acct'[x] \in [status : Status, approved : BOOLEAN, code : BOOLEAN, activated : BOOLEAN]
            /\ acct'[x].status = acct[x].status
      BY <3>1, <3>2
    <3> QED BY <3>3, <3>4
  <2>2. TypeOK'
    BY <1>1, <1>3, <2>1, ReadyToIssue DEF IInv, TypeOK, InFlight
  <2>3. \A x \in Slots :
           \/ req'[x] = req[x]
           \/ /\ req[x].pc # "idle" /\ req'[x].pc = "issue" /\ req'[x].cred = req[x].cred
              /\ req[x].cred \notin Credentials
    BY <1>1, <1>3, ReadyToIssue, NoneApart DEF IInv
  <2> QED BY <1>1, <2>1, <2>2, <2>3, RowsStandStill DEF Exists
<1> QED BY <1>1, <1>2, <1>3 DEF ActivateMark

-----------------------------------------------------------------------------
(* The account and the environment.                                        *)

LEMMA StandingStep ==
  ASSUME IInv, NEW u \in Users, ApproveDriver(u) \/ Suspend(u) \/ ReactivateOperator(u)
  PROVE  IInv'
<1>1. UNCHANGED <<session, challenge, req, raced, closed>>
  BY DEF ApproveDriver, Suspend, ReactivateOperator
<1>2. PICK a \in [status : Status \ {"GONE"}, approved : BOOLEAN, code : BOOLEAN, activated : BOOLEAN] :
        acct' = [acct EXCEPT ![u] = a]
  BY DEF ApproveDriver, Suspend, ReactivateOperator, IInv, TypeOK, Status
<1>3. /\ acct' \in [Users -> [status : Status, approved : BOOLEAN, code : BOOLEAN,
                              activated : BOOLEAN]]
      /\ \A x \in Users : Exists(x) => Exists(x)'
  BY <1>2 DEF IInv, TypeOK, Exists
<1>4. TypeOK'
  BY <1>1, <1>3 DEF IInv, TypeOK, InFlight
<1> QED BY <1>1, <1>3, <1>4, RowsStandStill

(* Deleting a user takes every row of theirs, and spends it.               *)
LEMMA DeleteUserStep ==
  ASSUME IInv, NEW u \in Users, DeleteUser(u)
  PROVE  IInv'
<1> USE NoneApart
<1>1. /\ acct' = [acct EXCEPT ![u].status = "GONE"]
      /\ session' = [t \in Tokens |-> IF session[t].user = u THEN [NoToken EXCEPT !.state = "gone"]
                                                             ELSE session[t]]
      /\ challenge' = [c \in Codes |-> IF challenge[c].user = u
                                       THEN [NoCode EXCEPT !.state = "gone"] ELSE challenge[c]]
      /\ UNCHANGED <<req, raced, closed>>
  BY DEF DeleteUser
<1>2. /\ acct' \in [Users -> [status : Status, approved : BOOLEAN, code : BOOLEAN,
                              activated : BOOLEAN]]
      /\ \A x \in Users : ~Exists(x)' => x = u \/ ~Exists(x)
  BY <1>1 DEF IInv, TypeOK, Exists, Status
<1>3. /\ session' \in [Tokens -> [state : {"none", "live", "lapsed", "revoked", "gone"},
                                  user : Users \cup {None}, via : Tokens \cup Codes \cup {None}]]
      /\ \A t \in Tokens : IF session[t].user = u
           THEN session'[t].state = "gone" /\ session'[t].user = None /\ session'[t].via = None
           ELSE session'[t] = session[t]
  BY <1>1 DEF IInv, TypeOK, NoToken
<1>4. /\ challenge' \in [Codes -> [state : {"none", "open", "lapsed", "unsent", "used", "gone"},
                                   user : Users \cup {None}]]
      /\ \A c \in Codes : IF challenge[c].user = u
           THEN challenge'[c].state = "gone" /\ challenge'[c].user = None
           ELSE challenge'[c] = challenge[c]
  BY <1>1 DEF IInv, TypeOK, NoCode
<1>5. TypeOK'
  BY <1>1, <1>2, <1>3, <1>4 DEF IInv, TypeOK, InFlight
<1>6. RowsOwned'
  BY <1>3, <1>4 DEF IInv, RowsOwned
<1>7. DeletedLeavesNothing'
  BY <1>2, <1>3, <1>4 DEF IInv, DeletedLeavesNothing
<1>8. \A c \in Credentials : Spent(c) => Spent(c)'
  BY <1>3, <1>4 DEF Spent, Credentials
<1> QED BY <1>1, <1>3, <1>4, <1>5, <1>6, <1>7, <1>8, QuietStep

LEMMA LapseStep ==
  ASSUME IInv, Lapse
  PROVE  IInv'
<1>1. UNCHANGED <<acct, req, raced, closed>>
  BY DEF Lapse
<1>2. ASSUME NEW t \in Tokens, session[t].state = "live",
             session' = [session EXCEPT ![t].state = "lapsed"], UNCHANGED challenge
      PROVE  IInv'
  <2>1. /\ session' \in [Tokens -> [state : {"none", "live", "lapsed", "revoked", "gone"},
                                    user : Users \cup {None}, via : Tokens \cup Codes \cup {None}]]
        /\ session'[t].state = "lapsed"
        /\ \A x \in Tokens : /\ session'[x].via = session[x].via /\ session'[x].user = session[x].user
                             /\ x # t => session'[x].state = session[x].state
    BY <1>2 DEF IInv, TypeOK
  <2>2. TypeOK' /\ RowsOwned' /\ DeletedLeavesNothing'
    BY <1>1, <1>2, <2>1 DEF IInv, TypeOK, InFlight, RowsOwned, DeletedLeavesNothing, Exists
  <2>3. \A c \in Credentials : Spent(c) => Spent(c)'
    BY <1>2, <2>1 DEF Spent, Credentials
  <2> QED BY <1>1, <1>2, <2>1, <2>2, <2>3, QuietStep
<1>3. ASSUME NEW c \in Codes, challenge[c].state = "open",
             challenge' = [challenge EXCEPT ![c].state = "lapsed"], UNCHANGED session
      PROVE  IInv'
  <2>1. /\ challenge' \in [Codes -> [state : {"none", "open", "lapsed", "unsent", "used", "gone"},
                                     user : Users \cup {None}]]
        /\ challenge'[c].state = "lapsed"
        /\ \A x \in Codes : /\ challenge'[x].user = challenge[x].user
                            /\ x # c => challenge'[x].state = challenge[x].state
    BY <1>3 DEF IInv, TypeOK
  <2>2. TypeOK' /\ RowsOwned' /\ DeletedLeavesNothing'
    BY <1>1, <1>3, <2>1 DEF IInv, TypeOK, InFlight, RowsOwned, DeletedLeavesNothing, Exists
  <2>3. \A x \in Credentials : Spent(x) => Spent(x)'
    BY <1>3, <2>1 DEF Spent, Credentials
  <2> QED BY <1>1, <1>3, <2>1, <2>2, <2>3, QuietStep
<1> QED BY <1>2, <1>3 DEF Lapse

-----------------------------------------------------------------------------
(* The invariant is inductive.                                             *)

LEMMA InitIInv == Init => IInv
<1> SUFFICES ASSUME Init PROVE IInv
  OBVIOUS
<1> USE NoneApart
<1>1. TypeOK
  BY DEF Init, TypeOK, Status, NoToken, NoCode, Idle, InFlight
<1>2. RowsOwned /\ SuccessorsOfSpent /\ Unraced /\ DeletedLeavesNothing
  BY DEF Init, RowsOwned, SuccessorsOfSpent, Unraced, Holds, Succeeded, Idle, NoToken, NoCode,
         DeletedLeavesNothing, Exists
<1>3. RequestsOK /\ ClosedForGood
  BY DEF Init, RequestsOK, ClosedForGood, Idle
<1> QED BY <1>1, <1>2, <1>3 DEF IInv

LEMMA NextIInv == IInv /\ [Next]_vars => IInv'
<1> SUFFICES ASSUME IInv, [Next]_vars PROVE IInv'
  OBVIOUS
<1>1. ASSUME NEW s \in Slots,
             \/ RefreshTokens(s) \/ RefreshRevoke(s) \/ LogoutWithRefreshToken(s) \/ LogoutRevoke(s)
             \/ Issue(s) \/ VerifyOtp(s) \/ ConsumeOtp(s) \/ ActivateMark(s)
      PROVE  IInv'
  BY <1>1, RefreshTokensStep, RefreshRevokeStep, LogoutRevokeStep, IssueStep, VerifyOtpStep,
     ConsumeOtpStep, ActivateMarkStep
<1>2. ASSUME NEW s \in Slots, Abort(s)
      PROVE  IInv'
  BY <1>2, FinishStep DEF Abort
<1>3. ASSUME NEW s \in Slots,
             \/ \E u \in Drivers : ActivateDriverWithCode(s, u) \/ ExchangeDriverToken(s, u)
             \/ \E u \in Operators : LoginOperatorPassword(s, u)
             \/ \E u \in Admins : LoginAdminWebPassword(s, u)
             \/ \E u \in Operators \cup Admins : ExchangeStaffToken(s, u)
      PROVE  IInv'
  BY <1>3, LoginStep
<1>4. ASSUME NEW u \in Users, RequestDriverOtp(u) \/ RequestRegistrationOtp(u)
      PROVE  IInv'
  BY <1>4, NewChallengeStep DEF RequestDriverOtp, RequestRegistrationOtp
<1>5. ASSUME NEW u \in Users, ApproveDriver(u) \/ Suspend(u) \/ ReactivateOperator(u)
      PROVE  IInv'
  BY <1>5, StandingStep
<1>6. ASSUME NEW u \in Users, DeleteUser(u)
      PROVE  IInv'
  BY <1>6, DeleteUserStep
<1>7. ASSUME NEW u \in Users, LogoutAllSessions(u)
      PROVE  IInv'
  BY <1>7, LogoutAllSessionsStep
<1>8. CASE Lapse
  BY <1>8, LapseStep
<1>9. CASE UNCHANGED vars
  <2>1. TypeOK'
    BY <1>9 DEF vars, IInv, TypeOK, InFlight
  <2> QED BY <1>9, <2>1, RowsStandStill DEF vars, Exists
<1> QED BY <1>1, <1>2, <1>3, <1>4, <1>5, <1>6, <1>7, <1>8, <1>9 DEF Next, Users

THEOREM Inductive == Spec => []IInv
BY InitIInv, NextIInv, PTL DEF Spec

-----------------------------------------------------------------------------
(* What follows from it.                                                   *)

(* Rows and requests are well formed, and every request in flight acts for *)
(* somebody, with any number of requests at once.                          *)
THEOREM TypeCorrect == Spec => []TypeOK
<1>1. IInv => TypeOK
  BY DEF IInv
<1> QED BY <1>1, Inductive, PTL

(* With any number of requests at once a refresh token or one-time code    *)
(* yields at most one session, unless two requests held it at once.        *)
THEOREM UsedOnce == Spec => []SingleUse
<1>1. ASSUME NEW S, \A t, u \in S : t = u
      PROVE  Cardinality(S) <= 1
  <2>1. CASE S = {}
    BY <2>1, FS_EmptySet
  <2>2. ASSUME NEW t \in S
        PROVE  Cardinality(S) <= 1
    <3>1. S = {t}
      BY <1>1, <2>2
    <3>2. Cardinality({t}) = 1
      BY FS_Singleton
    <3> QED BY <3>1, <3>2
  <2> QED BY <2>1, <2>2
<1>2. ASSUME Unraced
      PROVE  SingleUse
  BY <1>1, <1>2 DEF Unraced, SingleUse, Credentials
<1> QED BY <1>2, Inductive, PTL DEF IInv

(* With any number of requests at once the session a refresh replaces, the *)
(* one a logout closes and all of a deleted account stay ended.            *)
THEOREM EndsForGood == Spec => []EndedForGood
<1>1. IInv => RotatedOut
  BY DEF IInv, SuccessorsOfSpent, RotatedOut, Credentials, Spent
<1>2. IInv => LogoutIsFinal
  BY DEF IInv, ClosedForGood, LogoutIsFinal, Succeeded
<1>3. IInv => EndedForGood
  BY <1>1, <1>2 DEF IInv, EndedForGood
<1> QED BY <1>3, Inductive, PTL
=============================================================================
