------------------------------- MODULE Wallet -------------------------------
(***************************************************************************)
(* The commission wallet of a driver: Driver.balanceUzs and the            *)
(* EarningsLedger rows LedgerService writes with it.  Each operation is a  *)
(* transaction that reads the balance, and later writes the new balance as *)
(* a number together with its ledger rows.  At READ COMMITTED the balance  *)
(* it read may be old by then.  The ledger is kept as its sum, as          *)
(* reconcileDriverBalance adds it up, and the type of its last wallet row. *)
(***************************************************************************)
EXTENDS Integers

CONSTANTS
  Drivers,    (* ids of drivers                                             *)
  Amounts,    (* sums of money asked for in a request                       *)
  Fares,      (* gross fares of completed trips                             *)
  Rates,      (* commission rates, in basis points, as configured           *)
  Slots,      (* requests that may be in flight at once                     *)
  Bound,      (* no commit takes a wallet out of -Bound .. Bound            *)
  None        (* no driver                                                  *)

ASSUME MoneyAssumption ==
  Amounts \subseteq Int /\ Fares \subseteq Int /\ Rates \subseteq Int /\ Bound \in Nat
ASSUME DriversAssumption == None \notin Drivers

VARIABLES
  balance,    (* Driver.balanceUzs, the cached balance                      *)
  posted,     (* what the driver's ledger rows add up to                    *)
  last,       (* the type of the last wallet row                            *)
  req,        (* the transactions in flight                                 *)
  stale,      (* history: slots whose balance was written since they read it *)
  overwritten (* history: drivers a stale transaction was committed for     *)

history == <<stale, overwritten>>
vars == <<balance, posted, last, req, stale, overwritten>>

-----------------------------------------------------------------------------
(* splitGrossUzsInt.                                                       *)

AtLeast(low, n) == IF n < low THEN low ELSE n
AtMost(high, n) == IF n > high THEN high ELSE n

(* Mutant: the rate is taken as configured.                                *)
AnyBps(bps) == bps

ClampBps(bps) == AtLeast(0, AtMost(10000, bps))

(* Math.round(n / 10000): halves go up.                                    *)
RoundBps(n) == (n + 5000) \div 10000

Split(fare, bps) ==
  LET gross == AtLeast(0, fare)
      commission == AtMost(gross, RoundBps(gross * ClampBps(bps)))
  IN  [gross |-> gross, commission |-> commission, net |-> gross - commission]

-----------------------------------------------------------------------------
(* Ledger rows.                                                            *)

RowType == {"TOP_UP", "PAYOUT", "MANUAL_ADJUSTMENT_PLUS", "MANUAL_ADJUSTMENT_MINUS",
            "TRIP_EARNINGS", "TRIP_COMMISSION_DEBIT"}

(* Mutant: the fare the driver collected in cash counts as wallet money.    *)
CountEarnings(type, amount) ==
  IF type \in {"TOP_UP", "MANUAL_ADJUSTMENT_PLUS", "TRIP_EARNINGS"} THEN amount ELSE -amount

(* What reconcileDriverBalance adds for a row.                             *)
Signed(type, amount) ==
  CASE type \in {"TOP_UP", "MANUAL_ADJUSTMENT_PLUS"} -> amount
    [] type \in {"PAYOUT", "TRIP_COMMISSION_DEBIT", "MANUAL_ADJUSTMENT_MINUS"} -> -amount
    [] OTHER -> 0

Abs(n) == IF n < 0 THEN -n ELSE n

-----------------------------------------------------------------------------
(* Transactions: op is the operation, amount its money (the commission of a *)
(* completed trip), before the balance it has read.                        *)

Idle == [op |-> "idle", driver |-> None, amount |-> 0, gross |-> 0, before |-> 0]

Open(s, op, d, amount, gross) ==
  /\ req[s] = Idle
  /\ req' = [req EXCEPT ![s] = [op |-> op, driver |-> d, amount |-> amount,
                                gross |-> gross, before |-> balance[d]]]
  /\ UNCHANGED <<balance, posted, last, history>>

RecordTopUp(s, d, amount) == amount > 0 /\ Open(s, "topUp", d, amount, 0)

(* Mutant: the balance is not looked at.                                    *)
AnyPayout(d, amount) == amount > 0

Payable(d, amount) == amount > 0 /\ amount <= balance[d]

RecordPayout(s, d, amount) == Payable(d, amount) /\ Open(s, "payout", d, amount, 0)

(* Mutant: only the sign of the amount decides.                             *)
AnyAdjustment(d, amount) == amount # 0

(* No caller passes allowNegative.                                         *)
Adjustable(d, amount) == amount # 0 /\ balance[d] + amount >= 0

RecordManualAdjustment(s, d, amount) ==
  Adjustable(d, amount) /\ Open(s, "adjust", d, amount, 0)

(* completeTrip splits the fare before its transaction reads the balance.   *)
SplitFare(s, d, fare, bps) ==
  LET split == Split(fare, bps)
  IN  /\ req[s] = Idle
      /\ req' = [req EXCEPT ![s] = [op |-> "split", driver |-> d, amount |-> split.commission,
                                    gross |-> split.gross, before |-> 0]]
      /\ UNCHANGED <<balance, posted, last, history>>

ReadBalance(s) ==
  /\ req[s].op = "split"
  /\ req' = [req EXCEPT ![s].op = "complete", ![s].before = balance[req[s].driver]]
  /\ UNCHANGED <<balance, posted, last, history>>

Type(r) ==
  CASE r.op = "topUp" -> "TOP_UP"
    [] r.op = "payout" -> "PAYOUT"
    [] r.op = "complete" -> "TRIP_COMMISSION_DEBIT"
    [] r.op = "adjust" -> IF r.amount > 0 THEN "MANUAL_ADJUSTMENT_PLUS"
                                          ELSE "MANUAL_ADJUSTMENT_MINUS"

NewBalance(r) ==
  IF r.op \in {"topUp", "adjust"} THEN r.before + r.amount ELSE r.before - r.amount

(* The rows of the transaction, a trip's TRIP_EARNINGS row included.        *)
Posting(r) ==
  Signed(Type(r), Abs(r.amount)) + (IF r.op = "complete" THEN Signed("TRIP_EARNINGS", r.gross) ELSE 0)

Committing == {"topUp", "payout", "adjust", "complete"}

InBounds == \A d \in Drivers : balance[d] \in -Bound .. Bound /\ posted[d] \in -Bound .. Bound

(* The other transactions that have read the balance of driver d.          *)
Overtaken(s, d) == {t \in Slots \ {s} : req[t].op \in Committing /\ req[t].driver = d}

Commit(s) ==
  LET r == req[s]
      d == req[s].driver
  IN  /\ r.op \in Committing
      /\ balance' = [balance EXCEPT ![d] = NewBalance(r)]
      /\ posted' = [posted EXCEPT ![d] = @ + Posting(r)]
      /\ last' = [last EXCEPT ![d] = Type(r)]
      /\ req' = [req EXCEPT ![s] = Idle]
      /\ stale' = (stale \ {s}) \cup Overtaken(s, d)
      /\ overwritten' = overwritten \cup {x \in {d} : s \in stale}
      /\ InBounds'

(* The transaction is rolled back.                                         *)
Rollback(s) ==
  /\ req[s] # Idle
  /\ req' = [req EXCEPT ![s] = Idle]
  /\ stale' = stale \ {s}
  /\ UNCHANGED <<balance, posted, last, overwritten>>

-----------------------------------------------------------------------------

Init ==
  /\ balance = [d \in Drivers |-> 0]
  /\ posted = [d \in Drivers |-> 0]
  /\ last = [d \in Drivers |-> "NONE"]
  /\ req = [s \in Slots |-> Idle]
  /\ stale = {} /\ overwritten = {}

Next ==
  \E s \in Slots :
    \/ \E d \in Drivers :
         \/ \E amount \in Amounts : \/ RecordTopUp(s, d, amount)
                                    \/ RecordPayout(s, d, amount)
                                    \/ RecordManualAdjustment(s, d, amount)
         \/ \E fare \in Fares, bps \in Rates : SplitFare(s, d, fare, bps)
    \/ ReadBalance(s) \/ Commit(s) \/ Rollback(s)

Spec == Init /\ [][Next]_vars
-----------------------------------------------------------------------------
(* Balances are whole sums, and the commission a completion is about to     *)
(* take is between nothing and the fare.                                   *)
Requests ==
  [op : {"idle", "split"} \cup Committing, driver : Drivers \cup {None},
   amount : Int, gross : Nat, before : Int]

TypeOK ==
  /\ balance \in [Drivers -> Int]
  /\ posted \in [Drivers -> Int]
  /\ last \in [Drivers -> {"NONE"} \cup RowType]
  /\ req \in [Slots -> Requests]
  /\ \A s \in Slots : req[s].op \in {"split", "complete"} =>
       req[s].amount \in 0 .. req[s].gross
  /\ stale \subseteq Slots /\ overwritten \subseteq Drivers

(* Whatever races, only a trip's commission takes a wallet below zero: one   *)
(* found below zero was left there by a commission or is being paid back.   *)
OnlyCommissionOverdraws ==
  \A d \in Drivers : balance[d] < 0 => last[d] \in {"TRIP_COMMISSION_DEBIT", "TOP_UP"}

(* The cached balance is the sum of the ledger: reconcileDriverBalance       *)
(* reports no drift.                                                        *)
NoDrift == \A d \in Drivers : balance[d] = posted[d]

(* However transactions interleave, are rolled back and overtake each other *)
(* on the wallets of several drivers, the cached balance drifts from the    *)
(* ledger only where a transaction was committed over one committed since   *)
(* it read the balance: the read and the write of driverBalanceOrThrow's    *)
(* callers, with no lock between them, are the only way to lose money.      *)
DriftNeedsLostUpdate == \A d \in Drivers \ overwritten : balance[d] = posted[d]

(* On such a wallet a payout or a deduction leaves the ledger's sum at zero  *)
(* or more, though its check was made before other transactions were        *)
(* committed: nobody is paid money the ledger does not show.                *)
PayoutsCovered ==
  \A d \in Drivers \ overwritten :
    last[d] \in {"PAYOUT", "MANUAL_ADJUSTMENT_MINUS"} => posted[d] >= 0
=============================================================================
