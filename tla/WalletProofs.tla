---------------------------- MODULE WalletProofs ----------------------------
(***************************************************************************)
(* Proofs about Wallet, for any drivers, sums, fares, rates and bound: what *)
(* holds however transactions interleave, and what holds when there is     *)
(* only one at a time.                                                     *)
(***************************************************************************)
EXTENDS Wallet, TLAPS

(* Split parts a fare into a commission and the rest, neither negative,     *)
(* whatever the fare and the configured rate.                              *)
THEOREM SplitParts ==
  ASSUME NEW fare \in Int, NEW bps \in Int
  PROVE  LET split == Split(fare, bps)
         IN  /\ split.gross \in Nat
             /\ split.commission \in 0 .. split.gross
             /\ split.net \in 0 .. split.gross
             /\ split.commission + split.net = split.gross
<1> DEFINE gross == AtLeast(0, fare)
           due == RoundBps(gross * ClampBps(bps))
<1>1. gross \in Nat
  BY DEF AtLeast
<1>2. ClampBps(bps) \in Nat
  BY DEF ClampBps, AtLeast, AtMost
<1>3. \A a, b \in Nat : a * b \in Nat
  OBVIOUS
<1>4. gross * ClampBps(bps) \in Nat
  BY <1>1, <1>2, <1>3
<1>5. due \in Nat
  <2> HIDE DEF gross
  <2> DEFINE n == gross * ClampBps(bps)
  <2>1. n \in Nat
    BY <1>4
  <2> HIDE DEF n
  <2>2. (n + 5000) \div 10000 \in Nat
    BY <2>1
  <2> QED BY <2>2 DEF RoundBps, n
<1>6. AtMost(gross, due) \in 0 .. gross
  <2> HIDE DEF gross, due
  <2> QED BY <1>1, <1>5 DEF AtMost
<1> DEFINE split == Split(fare, bps)
<1>7. split = [gross |-> gross, commission |-> AtMost(gross, due),
               net |-> gross - AtMost(gross, due)]
  BY DEF Split
<1> HIDE DEF gross, due, split
<1>8. /\ split.gross = gross
      /\ split.commission = AtMost(gross, due)
      /\ split.net = gross - AtMost(gross, due)
  BY <1>7
<1>9. /\ split.gross \in Nat
      /\ split.commission \in 0 .. split.gross
      /\ split.net \in 0 .. split.gross
      /\ split.commission + split.net = split.gross
  BY <1>1, <1>6, <1>8
<1> QED BY <1>9 DEF split

-----------------------------------------------------------------------------
(* A request in flight names a driver; what it will write is a whole sum.   *)

Busy == \A s \in Slots : req[s].op # "idle" => req[s].driver \in Drivers

LEMMA IdleIsRequest == Idle \in Requests
BY DEF Idle, Requests, Committing

LEMMA SignedType ==
  ASSUME NEW type \in RowType, NEW amount \in Int
  PROVE  Signed(type, amount) \in Int
BY DEF Signed, RowType

LEMMA EntryType ==
  ASSUME NEW r \in Requests, r.op \in Committing
  PROVE  /\ Type(r) \in RowType
         /\ NewBalance(r) \in Int
         /\ Posting(r) \in Int
<1>1. Type(r) \in RowType /\ NewBalance(r) \in Int /\ r.gross \in Int /\ Abs(r.amount) \in Int
  BY DEF Requests, Committing, Type, RowType, NewBalance, Abs
<1>2. Signed(Type(r), Abs(r.amount)) \in Int
  BY <1>1, SignedType
<1>3. Signed("TRIP_EARNINGS", r.gross) \in Int
  BY <1>1, SignedType DEF RowType
<1> QED BY <1>1, <1>2, <1>3 DEF Posting

(* What a commit writes for its driver d, and that it leaves the rest alone. *)
LEMMA CommitEffect ==
  ASSUME TypeOK, Busy, NEW s \in Slots, Commit(s)
  PROVE  /\ req[s] \in Requests /\ req[s].op \in Committing /\ req[s].driver \in Drivers
         /\ balance' = [balance EXCEPT ![req[s].driver] = NewBalance(req[s])]
         /\ posted' = [posted EXCEPT ![req[s].driver] = @ + Posting(req[s])]
         /\ last' = [last EXCEPT ![req[s].driver] = Type(req[s])]
         /\ req' = [req EXCEPT ![s] = Idle]
         /\ stale' = (stale \ {s}) \cup Overtaken(s, req[s].driver)
         /\ overwritten' = overwritten \cup {x \in {req[s].driver} : s \in stale}
         /\ Type(req[s]) \in RowType /\ NewBalance(req[s]) \in Int /\ Posting(req[s]) \in Int
<1>1. req[s] \in Requests /\ req[s].op \in Committing
  BY DEF Commit, TypeOK
<1>2. req[s].driver \in Drivers
  BY <1>1 DEF Busy, Committing
<1>3. /\ Type(req[s]) \in RowType /\ NewBalance(req[s]) \in Int /\ Posting(req[s]) \in Int
  BY <1>1, EntryType
<1> QED BY <1>1, <1>2, <1>3 DEF Commit

(* The wallet's columns hold whole sums and a commission is at most the     *)
(* fare: the type invariant of the runs, for every value of the constants.  *)
THEOREM TypeCorrect == Spec => [](TypeOK /\ Busy)
<1>1. Init => TypeOK /\ Busy
  BY IdleIsRequest DEF Init, TypeOK, Busy, Idle
<1>2. TypeOK /\ Busy /\ [Next]_vars => (TypeOK /\ Busy)'
  <2> SUFFICES ASSUME TypeOK, Busy, [Next]_vars
               PROVE  (TypeOK /\ Busy)'
    OBVIOUS
  <2>1. CASE UNCHANGED vars
    BY <2>1 DEF vars, TypeOK, Busy
  <2>2. ASSUME NEW s \in Slots, NEW d \in Drivers, NEW amount \in Int,
               NEW op \in {"topUp", "payout", "adjust"}, Open(s, op, d, amount, 0)
        PROVE  (TypeOK /\ Busy)'
    <3> DEFINE r == [op |-> op, driver |-> d, amount |-> amount, gross |-> 0,
                     before |-> balance[d]]
    <3>1. r \in Requests
      BY <2>2 DEF TypeOK, Requests, Committing
    <3>2. req' = [req EXCEPT ![s] = r] /\ UNCHANGED <<balance, posted, last, history>>
      BY <2>2 DEF Open
    <3>3. r.op \notin {"split", "complete"} /\ r.driver \in Drivers
      OBVIOUS
    <3> HIDE DEF r
    <3> QED BY <3>1, <3>2, <3>3 DEF TypeOK, Busy, history
  <2>3. ASSUME NEW s \in Slots, NEW d \in Drivers, NEW fare \in Fares, NEW bps \in Rates,
               SplitFare(s, d, fare, bps)
        PROVE  (TypeOK /\ Busy)'
    <3> DEFINE split == Split(fare, bps)
               r == [op |-> "split", driver |-> d, amount |-> split.commission,
                     gross |-> split.gross, before |-> 0]
    <3>1. split.gross \in Nat /\ split.commission \in 0 .. split.gross
      BY SplitParts, MoneyAssumption
    <3>2. req' = [req EXCEPT ![s] = r] /\ UNCHANGED <<balance, posted, last, history>>
      BY <2>3 DEF SplitFare
    <3> HIDE DEF split
    <3>3. r \in Requests /\ r.amount \in 0 .. r.gross /\ r.driver \in Drivers
      BY <3>1 DEF Requests, Committing
    <3> HIDE DEF r
    <3> QED BY <3>2, <3>3 DEF TypeOK, Busy, history
  <2>4. ASSUME NEW s \in Slots, ReadBalance(s)
        PROVE  (TypeOK /\ Busy)'
    <3> DEFINE r == [req[s] EXCEPT !.op = "complete", !.before = balance[req[s].driver]]
    <3>1. req' = [req EXCEPT ![s] = r] /\ UNCHANGED <<balance, posted, last, history>>
      BY <2>4 DEF ReadBalance, TypeOK, Requests
    <3>2. req[s] \in Requests /\ req[s].op = "split" /\ req[s].driver \in Drivers
          /\ req[s].amount \in 0 .. req[s].gross
      BY <2>4 DEF ReadBalance, TypeOK, Busy
    <3>3. balance[req[s].driver] \in Int
      BY <3>2 DEF TypeOK
    <3>4. r \in Requests /\ r.amount \in 0 .. r.gross /\ r.driver \in Drivers
      BY <3>2, <3>3 DEF Requests, Committing
    <3> HIDE DEF r
    <3> QED BY <3>1, <3>4 DEF TypeOK, Busy, history
  <2>5. ASSUME NEW s \in Slots, Commit(s)
        PROVE  (TypeOK /\ Busy)'
    <3> DEFINE d == req[s].driver
    <3>1. /\ d \in Drivers
          /\ balance' = [balance EXCEPT ![d] = NewBalance(req[s])]
          /\ posted' = [posted EXCEPT ![d] = @ + Posting(req[s])]
          /\ last' = [last EXCEPT ![d] = Type(req[s])]
          /\ req' = [req EXCEPT ![s] = Idle]
          /\ stale' \subseteq Slots /\ overwritten' \subseteq Drivers
          /\ Type(req[s]) \in RowType /\ NewBalance(req[s]) \in Int /\ Posting(req[s]) \in Int
      BY <2>5, CommitEffect DEF TypeOK, Overtaken
    <3> HIDE DEF d
    <3>2. balance' \in [Drivers -> Int] /\ posted' \in [Drivers -> Int]
          /\ last' \in [Drivers -> {"NONE"} \cup RowType]
      BY <3>1 DEF TypeOK
    <3> QED BY <3>1, <3>2, IdleIsRequest DEF TypeOK, Busy, Idle
  <2>6. ASSUME NEW s \in Slots, Rollback(s)
        PROVE  (TypeOK /\ Busy)'
    BY <2>6, IdleIsRequest DEF Rollback, TypeOK, Busy, Idle
  <2> QED
    BY <2>1, <2>2, <2>3, <2>4, <2>5, <2>6, MoneyAssumption
    DEF Next, RecordTopUp, RecordPayout, RecordManualAdjustment
<1> QED BY <1>1, <1>2, PTL DEF Spec
-----------------------------------------------------------------------------
(* A transaction that pays out or deducts has read enough for it.           *)
Funded ==
  \A s \in Slots : req[s].op \in {"payout", "adjust"} => NewBalance(req[s]) >= 0

(* What is topped up or paid out is more than nothing.                      *)
Positive == \A s \in Slots : req[s].op \in {"topUp", "payout"} => req[s].amount > 0

(* A transaction that is not stale has read the balance as it still is.     *)
Fresh ==
  \A s \in Slots \ stale :
    req[s].op \in Committing => req[s].before = balance[req[s].driver]

(* The three, and what they are needed for.                                 *)
IInv ==
  /\ OnlyCommissionOverdraws /\ DriftNeedsLostUpdate /\ PayoutsCovered
  /\ Funded /\ Positive /\ Fresh

(* Every step but a commit leaves balances, sums and rows alone, and a       *)
(* transaction it opens is not stale and has read the balance as it is.      *)
LEMMA StepCases ==
  ASSUME TypeOK, Busy, Fresh, [Next]_vars
  PROVE  \/ UNCHANGED vars
         \/ \E s \in Slots : Commit(s)
         \/ /\ UNCHANGED <<balance, posted, last, overwritten>>
            /\ \E s \in Slots :
                 /\ \A t \in Slots \ {s} : req'[t] = req[t] /\ (t \in stale' <=> t \in stale)
                 /\ \/ req'[s].op \in {"idle", "split", "topUp", "complete"}
                    \/ req'[s].op \in {"payout", "adjust"} /\ NewBalance(req'[s]) >= 0
                 /\ req'[s].op \in Committing => req'[s].before = balance[req'[s].driver]
                 /\ req'[s].op \in {"topUp", "payout"} => req'[s].amount > 0
<1> USE DEF TypeOK, history
<1>1. ASSUME NEW s \in Slots, NEW d \in Drivers, NEW amount \in Int, RecordTopUp(s, d, amount)
      PROVE  /\ UNCHANGED <<balance, posted, last, history>>
             /\ \A t \in Slots \ {s} : req'[t] = req[t]
             /\ req'[s].op = "topUp" /\ req'[s].before = balance[req'[s].driver]
             /\ req'[s].amount > 0
  BY <1>1 DEF RecordTopUp, Open
<1>2. ASSUME NEW s \in Slots, NEW d \in Drivers, NEW amount \in Int, RecordPayout(s, d, amount)
      PROVE  /\ UNCHANGED <<balance, posted, last, history>>
             /\ \A t \in Slots \ {s} : req'[t] = req[t]
             /\ req'[s].op = "payout" /\ req'[s].before = balance[req'[s].driver]
             /\ req'[s].amount > 0 /\ NewBalance(req'[s]) >= 0
  BY <1>2 DEF RecordPayout, Payable, Open, NewBalance
<1>3. ASSUME NEW s \in Slots, NEW d \in Drivers, NEW amount \in Int,
             RecordManualAdjustment(s, d, amount)
      PROVE  /\ UNCHANGED <<balance, posted, last, history>>
             /\ \A t \in Slots \ {s} : req'[t] = req[t]
             /\ req'[s].op = "adjust" /\ req'[s].before = balance[req'[s].driver]
             /\ NewBalance(req'[s]) >= 0
  BY <1>3 DEF RecordManualAdjustment, Adjustable, Open, NewBalance
<1>4. ASSUME NEW s \in Slots, NEW d \in Drivers, NEW fare \in Fares, NEW bps \in Rates,
             SplitFare(s, d, fare, bps)
      PROVE  /\ UNCHANGED <<balance, posted, last, history>>
             /\ \A t \in Slots \ {s} : req'[t] = req[t]
             /\ req'[s].op = "split"
  BY <1>4 DEF SplitFare
<1>5. ASSUME NEW s \in Slots, ReadBalance(s)
      PROVE  /\ UNCHANGED <<balance, posted, last, history>>
             /\ \A t \in Slots \ {s} : req'[t] = req[t]
             /\ req'[s].op = "complete" /\ req'[s].before = balance[req'[s].driver]
  BY <1>5 DEF ReadBalance, Requests
<1>6. ASSUME NEW s \in Slots, Rollback(s)
      PROVE  /\ UNCHANGED <<balance, posted, last, overwritten>>
             /\ \A t \in Slots \ {s} : req'[t] = req[t] /\ (t \in stale' <=> t \in stale)
             /\ req'[s].op = "idle"
  BY <1>6 DEF Rollback, Idle
<1>7. CASE UNCHANGED vars
  BY <1>7
<1>8. CASE Next
  BY <1>8, <1>1, <1>2, <1>3, <1>4, <1>5, <1>6, MoneyAssumption DEF Next, Committing
<1> QED BY <1>7, <1>8

(* The rows of a transaction add up to the change it makes to the balance.  *)
LEMMA PostingIsChange ==
  ASSUME NEW r \in Requests, r.op \in Committing, r.op # "adjust" => r.amount >= 0
  PROVE  NewBalance(r) = r.before + Posting(r)
<1>1. r.amount \in Int /\ r.before \in Int /\ r.gross \in Nat
  BY DEF Requests
<1>2. Signed("TRIP_EARNINGS", r.gross) = 0
  BY DEF Signed
<1> QED BY <1>1, <1>2 DEF Posting, NewBalance, Signed, Type, Abs, Committing

(* The inductive invariant: wallets agree with ledgers but where a stale     *)
(* transaction was committed, and what is not stale has read what is there.  *)
THEOREM Inductive == Spec => [](TypeOK /\ Busy /\ IInv)
<1>1. Init => IInv
  BY DEF Init, IInv, OnlyCommissionOverdraws, DriftNeedsLostUpdate, PayoutsCovered,
         Funded, Positive, Fresh, Idle, Committing
<1>2. TypeOK /\ Busy /\ IInv /\ [Next]_vars => IInv'
  <2> SUFFICES ASSUME TypeOK, Busy, IInv, [Next]_vars
               PROVE  IInv'
    OBVIOUS
  <2> USE DEF IInv
  <2>1. CASE UNCHANGED vars
    BY <2>1 DEF vars, OnlyCommissionOverdraws, DriftNeedsLostUpdate, PayoutsCovered,
                Funded, Positive, Fresh, NewBalance
  <2>2. ASSUME NEW s \in Slots, Commit(s)
        PROVE  IInv'
    <3> DEFINE d == req[s].driver
               b == NewBalance(req[s])
               p == Posting(req[s])
    <3>1. /\ d \in Drivers /\ req[s] \in Requests /\ req[s].op \in Committing
          /\ b \in Int /\ p \in Int
          /\ balance' = [balance EXCEPT ![d] = b]
          /\ posted' = [posted EXCEPT ![d] = @ + p]
          /\ last' = [last EXCEPT ![d] = Type(req[s])]
          /\ req' = [req EXCEPT ![s] = Idle]
          /\ stale' = (stale \ {s}) \cup Overtaken(s, d)
          /\ overwritten' = overwritten \cup {x \in {d} : s \in stale}
      BY <2>2, CommitEffect
    <3>2. req[s].op # "adjust" => req[s].amount >= 0
      BY <3>1 DEF Positive, TypeOK, Requests, Committing
    <3>3. s \notin stale => b = balance[d] + p
      BY <3>1, <3>2, PostingIsChange DEF Fresh
    <3>4. Type(req[s]) \in {"PAYOUT", "MANUAL_ADJUSTMENT_MINUS"} => b >= 0
      BY <3>1 DEF Funded, Type, Committing
    <3>5. b < 0 => Type(req[s]) \in {"TRIP_COMMISSION_DEBIT", "TOP_UP"}
      BY <3>1 DEF Funded, Type, Committing
    <3>6. Funded' /\ Positive'
      BY <3>1 DEF TypeOK, Funded, Positive, Idle, NewBalance
    <3>7. Fresh'
      BY <3>1 DEF TypeOK, Fresh, Overtaken, Idle, Committing
    <3> HIDE DEF b, d, p
    <3>8. OnlyCommissionOverdraws'
      BY <3>1, <3>5 DEF TypeOK, OnlyCommissionOverdraws
    <3>9. DriftNeedsLostUpdate'
      BY <3>1, <3>3 DEF TypeOK, DriftNeedsLostUpdate
    <3>10. PayoutsCovered'
      BY <3>1, <3>3, <3>4 DEF TypeOK, DriftNeedsLostUpdate, PayoutsCovered
    <3> QED BY <3>6, <3>7, <3>8, <3>9, <3>10
  <2>3. ASSUME UNCHANGED <<balance, posted, last, overwritten>>,
               NEW s \in Slots,
               \A t \in Slots \ {s} : req'[t] = req[t] /\ (t \in stale' <=> t \in stale),
               \/ req'[s].op \in {"idle", "split", "topUp", "complete"}
               \/ req'[s].op \in {"payout", "adjust"} /\ NewBalance(req'[s]) >= 0,
               req'[s].op \in Committing => req'[s].before = balance[req'[s].driver],
               req'[s].op \in {"topUp", "payout"} => req'[s].amount > 0
        PROVE  IInv'
    <3>1. (OnlyCommissionOverdraws /\ DriftNeedsLostUpdate /\ PayoutsCovered)'
      BY <2>3 DEF OnlyCommissionOverdraws, DriftNeedsLostUpdate, PayoutsCovered
    <3>2. Funded' /\ Positive' /\ Fresh'
      BY <2>3 DEF Funded, Positive, Fresh, NewBalance
    <3> QED BY <3>1, <3>2
  <2> QED BY <2>1, <2>2, <2>3, StepCases
<1> QED BY <1>1, <1>2, TypeCorrect, PTL DEF Spec

(* However transactions interleave, a wallet found below zero was left      *)
(* there by a commission or is being paid back: recordPayout and            *)
(* recordManualAdjustment check the balance they add to.                    *)
THEOREM OverdrawnByCommission == Spec => []OnlyCommissionOverdraws
<1>1. IInv => OnlyCommissionOverdraws
  BY DEF IInv
<1> QED BY <1>1, Inductive, PTL

(* However transactions interleave, the cached balance is the sum of the     *)
(* ledger rows, but where a transaction was committed over one that was      *)
(* committed since it read the balance.                                     *)
THEOREM DriftOnlyByLostUpdate == Spec => []DriftNeedsLostUpdate
<1>1. IInv => DriftNeedsLostUpdate
  BY DEF IInv
<1> QED BY <1>1, Inductive, PTL

(* However transactions interleave, the last payout or deduction on a wallet *)
(* that lost no update was covered by the sum of its ledger.                *)
THEOREM PayoutsStayCovered == Spec => []PayoutsCovered
<1>1. IInv => PayoutsCovered
  BY DEF IInv
<1> QED BY <1>1, Inductive, PTL

-----------------------------------------------------------------------------
(* With one transaction at a time none is stale, so the cached balance of    *)
(* every driver is the sum of the ledger, always.                           *)
THEOREM SerialNoDrift ==
  ASSUME NEW only, Slots = {only}
  PROVE  Spec => []NoDrift
<1> DEFINE Untouched == stale = {} /\ overwritten = {}
<1>1. Init => Untouched
  BY DEF Init
<1>2. TypeOK /\ Busy /\ IInv /\ Untouched /\ [Next]_vars => Untouched'
  <2> SUFFICES ASSUME TypeOK, Untouched, [Next]_vars
               PROVE  Untouched'
    OBVIOUS
  <2>1. CASE UNCHANGED vars
    BY <2>1 DEF vars
  <2>2. ASSUME NEW s \in Slots, Commit(s)
        PROVE  Untouched'
    BY <2>2 DEF Commit, Overtaken
  <2> QED
    BY <2>1, <2>2 DEF Next, RecordTopUp, RecordPayout, RecordManualAdjustment, Open,
                      SplitFare, ReadBalance, Rollback, history
<1>3. IInv /\ Untouched => NoDrift
  BY DEF IInv, DriftNeedsLostUpdate, NoDrift
<1> QED BY <1>1, <1>2, <1>3, Inductive, PTL DEF Spec
=============================================================================
