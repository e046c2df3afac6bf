--------------------------- MODULE PaymentsProofs ---------------------------
(***************************************************************************)
(* What holds of Payments for every number of sources, requests, batches   *)
(* and payments.                                                           *)
(***************************************************************************)
EXTENDS Payments, QuantitySumsProofs

\* What a payment of a request pays, and that deposits in use are effective.
LinesPaySource ==
    \A r \in Line : payment[r].state # "none" => payment[r].source = SourceOf[r]

DeductedFromDeposits ==
    \A x \in Deduction :
        deduction[x].state = "effective" =>
            payment[deduction[x].deposit].state = "effective"
            /\ payment[deduction[x].deposit].source \in Order

Inv == TypeOK /\ LinesPaySource /\ PaidAsApproved /\ DeductedFromDeposits

-----------------------------------------------------------------------------
LEMMA NewPayment ==
    ASSUME NEW s \in Source, NEW a \in Nat
    PROVE  [state |-> "effective", source |-> s, amount |-> a] \in PaymentState
BY DEF PaymentState, Ledger

LEMMA NewDeduction ==
    ASSUME NEW k \in Payment, NEW p \in Shipment, NEW a \in Nat
    PROVE  [state |-> "effective", deposit |-> k, shipment |-> p, amount |-> a] \in DeductionState
BY DEF DeductionState, Ledger

LEMMA ReversedPayment ==
    ASSUME NEW q \in PaymentState
    PROVE  /\ [q EXCEPT !.state = "reversed"] \in PaymentState
           /\ [q EXCEPT !.state = "reversed"].state = "reversed"
           /\ [q EXCEPT !.state = "reversed"].source = q.source
           /\ [q EXCEPT !.state = "reversed"].amount = q.amount
BY DEF PaymentState, Ledger

LEMMA ReversedDeduction ==
    ASSUME NEW d \in DeductionState
    PROVE  /\ [d EXCEPT !.state = "reversed"] \in DeductionState
           /\ [d EXCEPT !.state = "reversed"].state = "reversed"
           /\ [d EXCEPT !.state = "reversed"].deposit = d.deposit
           /\ [d EXCEPT !.state = "reversed"].shipment = d.shipment
BY DEF DeductionState, Ledger

-----------------------------------------------------------------------------
(* Init. *)

LEMMA InvInit == Init => Inv
<1> SUFFICES ASSUME Init PROVE Inv
  OBVIOUS
<1> USE PaymentsAssumption
<1>1. due \in [Source -> Due]
  <2>1. \A s \in Source : due[s] \in FirstDue[s] /\ FirstDue[s] \subseteq Due
    BY DEF Init
  <2>2. due \in [Source -> UNION Range(FirstDue)]
    BY DEF Init
  <2> QED
    BY <2>1, <2>2
<1>2. opening \in [Source -> Nat] /\ asked \in [Line -> Nat]
  <2>1. opening \in [Source -> Nat]
    BY DEF Init
  <2>2. asked \in [Line -> Amount \cup {0}]
    BY DEF Init
  <2>3. Amount \cup {0} \subseteq Nat
    OBVIOUS
  <2>4. asked \in [Line -> Nat]
    BY <2>2, <2>3
  <2> QED
    BY <2>1, <2>4
<1>3. case \in [Case -> CaseState]
  BY DEF Init, NewCase, CaseState
<1>4. payment \in [Payment -> PaymentState] /\ deduction \in [Deduction -> DeductionState]
  BY DEF Init, NoPayment, NoDeduction, PaymentState, DeductionState, Ledger
<1>5. /\ \A k \in Payment : payment[k].state = "none"
      /\ \A x \in Deduction : deduction[x].state = "none"
  BY DEF Init, NoPayment, NoDeduction
<1>6. \A c \in Case : /\ case[c].approval \in {"none", "approved"}
                      /\ case[c].approval = "approved" => c \in Legacy
                      /\ case[c].status # "paid"
                      /\ case[c].status = "submitted" => case[c].approval = "approved"
  BY DEF Init, NewCase
<1>7. TypeOK
  BY <1>1, <1>2, <1>3, <1>4, <1>5, <1>6 DEF TypeOK
<1>8. LinesPaySource /\ DeductedFromDeposits
  BY <1>5 DEF LinesPaySource, DeductedFromDeposits, Payment
<1>9. PaidAsApproved
  BY <1>5, <1>6 DEF PaidAsApproved, LinesOf, Payment
<1> QED
  BY <1>7, <1>8, <1>9 DEF Inv

-----------------------------------------------------------------------------
(* Steps that only move a case. *)

\* What a case may become without a payment.
Unpaid(c, n) ==
    /\ n \in CaseState
    /\ n.status # "paid" /\ case[c].status # "paid"
    /\ n.approval = "approved" => c \in Legacy
    /\ n.approval = "pending" => n.status = "submitted"
    /\ n.status = "submitted" => n.approval # "none"

LEMMA CaseMoves ==
    ASSUME Inv, NEW c \in Case, NEW n, Unpaid(c, n), case' = [case EXCEPT ![c] = n],
           asked' \in [Line -> Nat], UNCHANGED <<due, opening, payment, deduction>>
    PROVE  Inv'
<1>1. /\ case'[c] = n
      /\ \A d \in Case : d # c => case'[d] = case[d]
      /\ case' \in [Case -> CaseState]
  BY DEF Inv, TypeOK, Unpaid
<1>2. TypeOK'
  BY <1>1 DEF Inv, TypeOK, Unpaid
<1>3. LinesPaySource' /\ DeductedFromDeposits'
  BY DEF Inv, LinesPaySource, DeductedFromDeposits
<1>4. PaidAsApproved'
  <2> SUFFICES ASSUME NEW d \in Case
               PROVE  /\ \A r \in LinesOf(d) : payment[r].state # "none" <=> case'[d].status = "paid"
                      /\ case'[d].status = "paid" => case'[d].approval = "approved"
                      /\ case'[d].approval = "approved" /\ d \notin Legacy
                            => case'[d].status = "paid"
                      /\ d \in Batch => \A q, r \in LinesOf(d) : payment[q].state = payment[r].state
    BY DEF PaidAsApproved, LinesOf
  <2>1. CASE d = c
    BY <2>1, <1>1 DEF Inv, PaidAsApproved, Unpaid
  <2>2. CASE d # c
    BY <2>2, <1>1 DEF Inv, PaidAsApproved
  <2> QED
    BY <2>1, <2>2
<1> QED
  BY <1>2, <1>3, <1>4 DEF Inv

LEMMA DraftKeeps == ASSUME Inv, NEW c \in Case, Draft(c) PROVE Inv'
<1> DEFINE n == [case[c] EXCEPT !.status = "draft"]
<1>1. case[c] \in CaseState /\ case[c].status = "none"
  BY DEF Inv, TypeOK, Draft
<1>2. n \in CaseState /\ n.status = "draft" /\ n.approval = case[c].approval
  BY <1>1 DEF CaseState
<1>3. case[c].approval # "pending" /\ (case[c].approval = "approved" => c \in Legacy)
  BY <1>1 DEF Inv, TypeOK, PaidAsApproved
<1>4. Unpaid(c, n)
  BY <1>1, <1>2, <1>3 DEF Unpaid
<1>5. case' = [case EXCEPT ![c] = n]
  BY DEF Draft
<1>6. asked' \in [Line -> Nat]
  BY PaymentsAssumption DEF Draft, Inv, TypeOK, LinesOf
<1> HIDE DEF n
<1> QED
  BY <1>4, <1>5, <1>6, CaseMoves DEF Draft

LEMMA SubmitKeeps == ASSUME Inv, NEW c \in Case, Submit(c) PROVE Inv'
<1> DEFINE n == [case[c] EXCEPT !.status = "submitted", !.approval = "pending"]
<1>1. case[c] \in CaseState /\ case[c].status = "draft"
  BY DEF Inv, TypeOK, Submit
<1>2. n \in CaseState /\ n.status = "submitted" /\ n.approval = "pending"
  BY <1>1 DEF CaseState
<1>4. Unpaid(c, n)
  BY <1>1, <1>2 DEF Unpaid
<1>5. case' = [case EXCEPT ![c] = n]
  BY DEF Submit
<1>6. asked' \in [Line -> Nat]
  BY DEF Submit, Inv, TypeOK
<1> HIDE DEF n
<1> QED
  BY <1>4, <1>5, <1>6, CaseMoves DEF Submit

LEMMA UploadKeeps == ASSUME Inv, NEW c \in Case, Upload(c) PROVE Inv'
<1> DEFINE n == [case[c] EXCEPT !.voucher = TRUE]
<1>1. case[c] \in CaseState /\ case[c].status = "submitted"
  BY DEF Inv, TypeOK, Upload
<1>2. n \in CaseState /\ n.status = "submitted" /\ n.approval = case[c].approval
  BY <1>1 DEF CaseState
<1>3. case[c].approval # "none" /\ (case[c].approval = "approved" => c \in Legacy)
  BY <1>1 DEF Inv, TypeOK, PaidAsApproved
<1>4. Unpaid(c, n)
  BY <1>1, <1>2, <1>3 DEF Unpaid
<1>5. case' = [case EXCEPT ![c] = n]
  BY DEF Upload
<1>6. asked' \in [Line -> Nat]
  BY DEF Upload, Inv, TypeOK
<1> HIDE DEF n
<1> QED
  BY <1>4, <1>5, <1>6, CaseMoves DEF Upload

LEMMA DeclineKeeps ==
    ASSUME Inv, NEW c \in Case, NEW v \in {"rejected", "withdrawn"}, Decline(c, v) PROVE Inv'
<1> DEFINE n == [case[c] EXCEPT !.approval = v]
<1>1. case[c] \in CaseState /\ case[c].status = "submitted"
  BY DEF Inv, TypeOK, Decline
<1>2. n \in CaseState /\ n.status = "submitted" /\ n.approval = v
  BY <1>1 DEF CaseState
<1>4. Unpaid(c, n)
  BY <1>1, <1>2 DEF Unpaid
<1>5. case' = [case EXCEPT ![c] = n]
  BY DEF Decline
<1>6. asked' \in [Line -> Nat]
  BY DEF Decline, Inv, TypeOK
<1> HIDE DEF n
<1> QED
  BY <1>4, <1>5, <1>6, CaseMoves DEF Decline

LEMMA CancelKeeps == ASSUME Inv, NEW c \in Case, Cancel(c) PROVE Inv'
<1> DEFINE a == IF case[c].approval = "pending" THEN "withdrawn" ELSE case[c].approval
<1> DEFINE n == [case[c] EXCEPT !.status = "cancelled", !.approval = a]
<1>1. case[c] \in CaseState /\ case[c].status \in {"draft", "submitted"}
  BY DEF Inv, TypeOK, Cancel
<1>2. n \in CaseState /\ n.status = "cancelled" /\ n.approval = a
  BY <1>1 DEF CaseState
<1>3. a # "pending" /\ (a = "approved" => c \in Legacy)
  BY <1>1 DEF Inv, PaidAsApproved
<1>4. Unpaid(c, n)
  <2> HIDE DEF n
  <2> QED
    BY <1>1, <1>2, <1>3 DEF Unpaid
<1>5. case' = [case EXCEPT ![c] = n]
  BY DEF Cancel
<1>6. asked' \in [Line -> Nat]
  BY DEF Cancel, Inv, TypeOK
<1> HIDE DEF n
<1> QED
  BY <1>4, <1>5, <1>6, CaseMoves DEF Cancel

-----------------------------------------------------------------------------
(* Steps that pay, take back or deduct. *)

\* post_request and post_batch.
LEMMA PostKeeps ==
    ASSUME Inv, NEW c \in Case, Post(c)
    PROVE  Inv'
<1> DEFINE n == [case[c] EXCEPT !.status = "paid", !.approval = "approved"]
           pay(r) == [state |-> "effective", source |-> SourceOf[r], amount |-> asked[r]]
<1>1. /\ case[c] \in CaseState /\ case[c].status = "submitted"
      /\ case' = [case EXCEPT ![c] = n]
  BY DEF Inv, TypeOK, Post
<1>2. n \in CaseState /\ n.status = "paid" /\ n.approval = "approved"
  BY <1>1 DEF CaseState
<1>3. /\ case'[c] = n /\ case' \in [Case -> CaseState]
      /\ \A d \in Case : d # c => case'[d] = case[d]
  BY <1>1, <1>2 DEF Inv, TypeOK
<1>4. \A k \in Payment : payment'[k] = IF k \in LinesOf(c) THEN pay(k) ELSE payment[k]
  BY DEF Post
<1>5. \A r \in Line : pay(r) \in PaymentState
  BY PaymentsAssumption, NewPayment DEF Inv, TypeOK
<1>6. \A r \in Line : /\ pay(r).state = "effective" /\ pay(r).source = SourceOf[r]
                      /\ SourceOf[r] \in Source
  BY PaymentsAssumption
<1>7. \A r \in LinesOf(c) : r \in Line /\ r \in Payment /\ payment[r].state = "none"
  BY <1>1 DEF Inv, PaidAsApproved, LinesOf, Payment
<1> HIDE DEF n, pay
<1>8. payment' \in [Payment -> PaymentState]
  <2>1. \A k \in Payment : payment'[k] \in PaymentState
    BY <1>4, <1>5, <1>7 DEF Inv, TypeOK
  <2> QED
    BY <2>1 DEF Post
<1>9. TypeOK'
  <2>1. \A k \in Payment : payment'[k].state # "none" => payment'[k].source \in Source
    BY <1>4, <1>6, <1>7 DEF Inv, TypeOK
  <2>2. \A d \in Case :
          /\ case'[d].approval = "pending" => case'[d].status = "submitted"
          /\ case'[d].status \in {"submitted", "paid"} => case'[d].approval # "none"
    BY <1>2, <1>3 DEF Inv, TypeOK
  <2> QED
    BY <1>3, <1>8, <2>1, <2>2 DEF Inv, TypeOK, Post
<1>10. LinesPaySource'
  BY <1>4, <1>6 DEF Inv, LinesPaySource, Payment
<1>11. DeductedFromDeposits'
  <2> SUFFICES ASSUME NEW x \in Deduction, deduction[x].state = "effective"
               PROVE  /\ payment'[deduction[x].deposit].state = "effective"
                      /\ payment'[deduction[x].deposit].source \in Order
    BY DEF DeductedFromDeposits, Post
  <2>1. /\ deduction[x].deposit \in Payment
        /\ payment[deduction[x].deposit].state = "effective"
        /\ payment[deduction[x].deposit].source \in Order
    BY DEF Inv, TypeOK, DeductedFromDeposits
  <2>2. payment'[deduction[x].deposit] = payment[deduction[x].deposit]
    BY <2>1, <1>4, <1>7
  <2> QED
    BY <2>1, <2>2
<1>12. PaidAsApproved'
  <2> SUFFICES ASSUME NEW d \in Case
               PROVE  /\ \A r \in LinesOf(d) : payment'[r].state # "none" <=> case'[d].status = "paid"
                      /\ case'[d].status = "paid" => case'[d].approval = "approved"
                      /\ case'[d].approval = "approved" /\ d \notin Legacy
                            => case'[d].status = "paid"
                      /\ d \in Batch => \A q, r \in LinesOf(d) : payment'[q].state = payment'[r].state
    BY DEF PaidAsApproved, LinesOf
  <2>1. CASE d = c
    <3>1. \A r \in LinesOf(c) : payment'[r].state = "effective"
      BY <1>4, <1>6, <1>7
    <3> QED
      BY <2>1, <3>1, <1>2, <1>3
  <2>2. CASE d # c
    <3>1. \A r \in LinesOf(d) : r \in Payment /\ r \notin LinesOf(c)
      BY <2>2 DEF LinesOf, Payment
    <3>2. \A r \in LinesOf(d) : payment'[r] = payment[r]
      BY <3>1, <1>4
    <3> QED
      BY <2>2, <3>2, <1>3 DEF Inv, PaidAsApproved
  <2> QED
    BY <2>1, <2>2
<1> QED
  BY <1>9, <1>10, <1>11, <1>12 DEF Inv

LEMMA CreatePaymentKeeps ==
    ASSUME Inv, NEW k \in Register, NEW s \in Source, NEW a \in Amount, CreatePayment(k, s, a)
    PROVE  Inv'
<1> DEFINE p == [state |-> "effective", source |-> s, amount |-> a]
<1>1. p \in PaymentState /\ p.source \in Source
  BY PaymentsAssumption, NewPayment
<1> HIDE DEF p
<1>2. /\ k \in Payment /\ payment[k].state = "none"
      /\ payment' = [payment EXCEPT ![k] = p]
  BY DEF CreatePayment, Payment, p
<1>3. /\ payment' \in [Payment -> PaymentState] /\ payment'[k] = p
      /\ \A j \in Payment : j # k => payment'[j] = payment[j]
  BY <1>1, <1>2 DEF Inv, TypeOK
<1>4. TypeOK'
  BY <1>1, <1>3 DEF Inv, TypeOK, CreatePayment
<1>5. \A r \in Line : r \in Payment /\ payment'[r] = payment[r]
  BY <1>3, PaymentsAssumption DEF Payment
<1>6. LinesPaySource'
  BY <1>5 DEF Inv, LinesPaySource
<1>7. DeductedFromDeposits'
  BY <1>2, <1>3 DEF Inv, TypeOK, DeductedFromDeposits, CreatePayment
<1>8. PaidAsApproved'
  BY <1>5 DEF Inv, PaidAsApproved, LinesOf, CreatePayment
<1> QED
  BY <1>4, <1>6, <1>7, <1>8 DEF Inv

LEMMA ReversePaymentKeeps ==
    ASSUME Inv, NEW k \in Payment, ReversePayment(k)
    PROVE  Inv'
<1> DEFINE p == [payment[k] EXCEPT !.state = "reversed"]
<1>1. payment[k] \in PaymentState /\ payment[k].state = "effective"
  BY DEF Inv, TypeOK, ReversePayment
<1>2. /\ p \in PaymentState /\ p.state = "reversed" /\ p.source = payment[k].source
      /\ payment' = [payment EXCEPT ![k] = p]
  BY <1>1, ReversedPayment DEF ReversePayment
<1> HIDE DEF p
<1>3. /\ payment' \in [Payment -> PaymentState] /\ payment'[k] = p
      /\ \A j \in Payment : j # k => payment'[j] = payment[j]
  BY <1>2 DEF Inv, TypeOK
<1>4. TypeOK'
  BY <1>1, <1>2, <1>3 DEF Inv, TypeOK, ReversePayment
<1>5. LinesPaySource'
  BY <1>1, <1>2, <1>3 DEF Inv, LinesPaySource, Payment
<1>6. DeductedFromDeposits'
  <2> SUFFICES ASSUME NEW x \in Deduction, deduction[x].state = "effective"
               PROVE  /\ payment'[deduction[x].deposit].state = "effective"
                      /\ payment'[deduction[x].deposit].source \in Order
    BY DEF DeductedFromDeposits, ReversePayment
  <2>1. deduction[x].deposit \in Payment /\ deduction[x].deposit # k
    BY DEF Inv, TypeOK, ReversePayment, UsesOf
  <2> QED
    BY <2>1, <1>3 DEF Inv, DeductedFromDeposits
<1>7. PaidAsApproved'
  <2>1. \A r \in Line : r \in Payment /\ (payment'[r].state = "none" <=> payment[r].state = "none")
    BY <1>1, <1>2, <1>3 DEF Payment
  <2>2. \A c \in Batch : \A r \in LinesOf(c) : r \in Payment /\ payment'[r] = payment[r]
    BY <1>3, PaymentsAssumption DEF LinesOf, ReversePayment, Payment
  <2>3. case' = case /\ \A c \in Case : \A r \in LinesOf(c) : r \in Line
    BY DEF ReversePayment, LinesOf
  <2> QED
    BY <2>1, <2>2, <2>3 DEF Inv, PaidAsApproved, LinesOf
<1> QED
  BY <1>4, <1>5, <1>6, <1>7 DEF Inv

LEMMA ReverseBatchKeeps ==
    ASSUME Inv, NEW b \in Batch, ReverseBatch(b)
    PROVE  Inv'
<1> DEFINE p(j) == [payment[j] EXCEPT !.state = "reversed"]
<1>1. \A j \in Payment : payment'[j] = IF j \in LinesOf(b) THEN p(j) ELSE payment[j]
  BY DEF ReverseBatch
<1>2. \A r \in LinesOf(b) : /\ r \in Line /\ r \in Payment /\ CaseOf[r] = b
                            /\ payment[r].state = "effective"
  BY DEF ReverseBatch, LinesOf, Payment
<1>3. \A j \in Payment : /\ p(j) \in PaymentState /\ p(j).state = "reversed"
                         /\ p(j).source = payment[j].source
  BY ReversedPayment DEF Inv, TypeOK
<1> HIDE DEF p
<1>4. payment' \in [Payment -> PaymentState]
  <2>1. \A j \in Payment : payment'[j] \in PaymentState
    BY <1>1, <1>3 DEF Inv, TypeOK
  <2> QED
    BY <2>1 DEF ReverseBatch
<1>5. \A j \in Payment : /\ payment'[j].source = payment[j].source
                         /\ payment'[j].state = "none" <=> payment[j].state = "none"
  BY <1>1, <1>2, <1>3
<1>6. TypeOK'
  BY <1>4, <1>5 DEF Inv, TypeOK, ReverseBatch
<1>7. LinesPaySource'
  BY <1>5 DEF Inv, LinesPaySource, Payment
<1>8. DeductedFromDeposits'
  <2> SUFFICES ASSUME NEW x \in Deduction, deduction[x].state = "effective"
               PROVE  /\ payment'[deduction[x].deposit].state = "effective"
                      /\ payment'[deduction[x].deposit].source \in Order
    BY DEF DeductedFromDeposits, ReverseBatch
  <2>1. /\ deduction[x].deposit \in Payment
        /\ payment[deduction[x].deposit].state = "effective"
        /\ payment[deduction[x].deposit].source \in Order
    BY DEF Inv, TypeOK, DeductedFromDeposits
  <2>2. deduction[x].deposit \notin LinesOf(b)
    BY <1>2, <2>1, PaymentsAssumption DEF Inv, LinesPaySource
  <2> QED
    BY <2>1, <2>2, <1>1
<1>9. PaidAsApproved'
  <2> SUFFICES ASSUME NEW d \in Case
               PROVE  /\ \A r \in LinesOf(d) : payment'[r].state # "none" <=> case[d].status = "paid"
                      /\ case[d].status = "paid" => case[d].approval = "approved"
                      /\ case[d].approval = "approved" /\ d \notin Legacy
                            => case[d].status = "paid"
                      /\ d \in Batch => \A q, r \in LinesOf(d) : payment'[q].state = payment'[r].state
    BY DEF PaidAsApproved, LinesOf, ReverseBatch
  <2>1. \A r \in LinesOf(d) : r \in Payment /\ CaseOf[r] = d
    BY DEF LinesOf, Payment
  <2>2. d = b => \A r \in LinesOf(d) : payment'[r].state = "reversed"
    BY <2>1, <1>1, <1>3
  <2>3. d # b => \A r \in LinesOf(d) : payment'[r] = payment[r]
    BY <2>1, <1>1, <1>2
  <2>4. \A r \in LinesOf(d) : payment'[r].state # "none" <=> payment[r].state # "none"
    BY <2>1, <1>5
  <2> QED
    BY <2>2, <2>3, <2>4 DEF Inv, PaidAsApproved
<1> QED
  BY <1>6, <1>7, <1>8, <1>9 DEF Inv

LEMMA ApplyPrepaymentKeeps ==
    ASSUME Inv, NEW x \in Deduction, NEW k \in Payment, NEW p \in Shipment, NEW a \in Amount,
           ApplyPrepayment(x, k, p, a)
    PROVE  Inv'
<1> DEFINE d == [state |-> "effective", deposit |-> k, shipment |-> p, amount |-> a]
<1>1. d \in DeductionState /\ d.deposit = k /\ d.shipment = p
  BY PaymentsAssumption, NewDeduction
<1> HIDE DEF d
<1>2. deduction' = [deduction EXCEPT ![x] = d] /\ payment' = payment /\ case' = case
  BY DEF ApplyPrepayment, d
<1>3. /\ deduction' \in [Deduction -> DeductionState] /\ deduction'[x] = d
      /\ \A y \in Deduction : y # x => deduction'[y] = deduction[y]
  BY <1>1, <1>2 DEF Inv, TypeOK
<1>4. TypeOK'
  BY <1>1, <1>3 DEF Inv, TypeOK, ApplyPrepayment
<1>5. payment[k].state = "effective" /\ payment[k].source \in Order
  BY PaymentsAssumption DEF ApplyPrepayment
<1>6. DeductedFromDeposits'
  BY <1>1, <1>2, <1>3, <1>5 DEF Inv, DeductedFromDeposits
<1>7. LinesPaySource' /\ PaidAsApproved'
  BY <1>2 DEF Inv, LinesPaySource, PaidAsApproved, LinesOf
<1> QED
  BY <1>4, <1>6, <1>7 DEF Inv

LEMMA ReverseDeductionKeeps ==
    ASSUME Inv, NEW x \in Deduction, ReverseDeduction(x)
    PROVE  Inv'
<1> DEFINE d == [deduction[x] EXCEPT !.state = "reversed"]
<1>1. /\ d \in DeductionState /\ d.state = "reversed"
      /\ d.deposit = deduction[x].deposit /\ d.shipment = deduction[x].shipment
  BY ReversedDeduction DEF Inv, TypeOK
<1>2. deduction' = [deduction EXCEPT ![x] = d] /\ payment' = payment /\ case' = case
  BY DEF ReverseDeduction
<1> HIDE DEF d
<1>3. /\ deduction' \in [Deduction -> DeductionState] /\ deduction'[x] = d
      /\ \A y \in Deduction : y # x => deduction'[y] = deduction[y]
  BY <1>1, <1>2 DEF Inv, TypeOK
<1>4. TypeOK'
  BY <1>1, <1>3 DEF Inv, TypeOK, ReverseDeduction
<1>6. DeductedFromDeposits'
  BY <1>1, <1>2, <1>3 DEF Inv, DeductedFromDeposits
<1>7. LinesPaySource' /\ PaidAsApproved'
  BY <1>2 DEF Inv, LinesPaySource, PaidAsApproved, LinesOf
<1> QED
  BY <1>4, <1>6, <1>7 DEF Inv

\* save_fee, save_settlement: what is due and what was paid before do not matter here.
LEMMA LedgersKept ==
    ASSUME Inv, due' \in [Source -> Due], opening' \in [Source -> Nat],
           UNCHANGED <<asked, case, payment, deduction>>
    PROVE  Inv'
BY DEF Inv, TypeOK, LinesPaySource, DeductedFromDeposits, PaidAsApproved, LinesOf

-----------------------------------------------------------------------------
LEMMA InvStep == Inv /\ [Next]_vars => Inv'
<1> SUFFICES ASSUME Inv, [Next]_vars PROVE Inv'
  OBVIOUS
<1>1. ASSUME NEW c \in Case,
             \/ Draft(c) \/ Submit(c) \/ Upload(c) \/ Cancel(c)
             \/ Approve(c) \/ Confirm(c)
             \/ \E verdict \in {"rejected", "withdrawn"} : Decline(c, verdict)
      PROVE  Inv'
  BY <1>1, DraftKeeps, SubmitKeeps, UploadKeeps, CancelKeeps, PostKeeps, DeclineKeeps
     DEF Approve, Confirm
<1>2. ASSUME NEW k \in Register, NEW s \in Source, NEW a \in Amount, CreatePayment(k, s, a)
      PROVE  Inv'
  BY <1>2, CreatePaymentKeeps
<1>3. ASSUME NEW k \in Payment, ReversePayment(k) PROVE Inv'
  BY <1>3, ReversePaymentKeeps
<1>4. ASSUME NEW b \in Batch, ReverseBatch(b) PROVE Inv'
  BY <1>4, ReverseBatchKeeps
<1>5. ASSUME NEW x \in Deduction, NEW k \in Payment, NEW p \in Shipment, NEW a \in Amount,
             ApplyPrepayment(x, k, p, a)
      PROVE  Inv'
  BY <1>5, ApplyPrepaymentKeeps
<1>6. ASSUME NEW x \in Deduction, ReverseDeduction(x) PROVE Inv'
  BY <1>6, ReverseDeductionKeeps
<1>7. ASSUME NEW s \in Freight, NEW d \in FirstDue[s], SaveFee(s, d) PROVE Inv'
  <2>1. s \in Source /\ d \in Due
    BY PaymentsAssumption DEF Source
  <2>2. due' \in [Source -> Due] /\ opening' \in [Source -> Nat]
    BY <1>7, <2>1 DEF SaveFee, Inv, TypeOK
  <2> QED
    BY <1>7, <2>2, LedgersKept DEF SaveFee
<1>8. ASSUME NEW s \in Shipment, NEW a \in Amount, SaveSettlement(s, a) PROVE Inv'
  <2>1. due' \in [Source -> Due] /\ opening' \in [Source -> Nat]
    BY <1>8, PaymentsAssumption DEF SaveSettlement, Inv, TypeOK
  <2> QED
    BY <1>8, <2>1, LedgersKept DEF SaveSettlement
<1>9. CASE UNCHANGED vars
  <2>1. due' \in [Source -> Due] /\ opening' \in [Source -> Nat]
    BY <1>9 DEF vars, Inv, TypeOK
  <2> QED
    BY <1>9, <2>1, LedgersKept DEF vars
<1> QED
  BY <1>1, <1>2, <1>3, <1>4, <1>5, <1>6, <1>7, <1>8, <1>9 DEF Next

\* What runs through every state of Payments.
LEMMA Invariant == Spec => []Inv
BY InvInit, InvStep, PTL DEF Spec

\* Every ledger row names what it pays, every case has an approval once it was
\* submitted, and no pending approval belongs to a case that was paid or cancelled
\* (costs.py, payment_requests.py, payment_batches.py).
THEOREM TypeCorrect == Spec => []TypeOK
<1>1. Inv => TypeOK
  BY DEF Inv
<1> QED
  BY <1>1, Invariant, PTL

\* Money leaves for a request only as its approval says, for all lines of a batch
\* or for none, and comes back for all or for none (_review_approval, post_batch,
\* reverse_payment).
THEOREM RequestsPaidAsApproved == Spec => []PaidAsApproved
<1>1. Inv => PaidAsApproved
  BY DEF Inv
<1> QED
  BY <1>1, Invariant, PTL

-----------------------------------------------------------------------------
(* Deposits and what is deducted from them. *)

Amounts(rows, D) == [x \in D |-> rows[x].amount]

\* The amounts of payments and of deductions can be summed, before and after.
LEMMA AmountsSummable ==
    ASSUME NEW D, IsFiniteSet(D), NEW rows, \A x \in D : rows[x].amount \in Nat,
           NEW S \in SUBSET D
    PROVE  Summable(Amounts(rows, D), S)
BY FS_Subset DEF Summable, Amounts

LEMMA AmountsTyped ==
    /\ IsFiniteSet(Payment) /\ IsFiniteSet(Deduction) /\ IsFiniteSet(Line)
    /\ TypeOK => /\ \A k \in Payment : payment[k].amount \in Nat
                 /\ \A x \in Deduction : deduction[x].amount \in Nat
    /\ TypeOK' => /\ \A k \in Payment : payment'[k].amount \in Nat
                  /\ \A x \in Deduction : deduction'[x].amount \in Nat
<1>1. IsFiniteSet(Payment) /\ IsFiniteSet(Deduction) /\ IsFiniteSet(Line)
  <2>1. Line \subseteq Payment
    BY DEF Payment
  <2> QED
    BY <2>1, PaymentsAssumption, FS_Subset DEF Payment
<1> QED
  BY <1>1 DEF TypeOK, PaymentState, DeductionState

DepositsCovered == \A k \in Payment : Used(k) <= payment[k].amount

\* A row that was never paid has no use.
LEMMA UnpaidUnused ==
    ASSUME Inv, NEW k \in Payment, payment[k].state = "none"
    PROVE  UsesOf(k) = {} /\ Used(k) = 0
<1>1. UsesOf(k) = {}
  BY DEF Inv, DeductedFromDeposits, UsesOf
<1> QED
  BY <1>1, SumEmpty DEF Used

\* Payments and reversals leave the amount of a payment that is in use.
LEMMA PaymentsCover ==
    ASSUME Inv, TypeOK', DepositsCovered, deduction' = deduction,
           \A k \in Payment : payment'[k].amount = payment[k].amount \/ payment[k].state = "none"
    PROVE  DepositsCovered'
<1> SUFFICES ASSUME NEW k \in Payment PROVE Used(k)' <= payment'[k].amount
  BY DEF DepositsCovered
<1>1. Used(k)' = Used(k) /\ payment'[k].amount \in Nat
  BY AmountsTyped DEF Used, UsesOf
<1>2. CASE payment'[k].amount = payment[k].amount
  BY <1>1, <1>2 DEF DepositsCovered
<1>3. CASE payment[k].state = "none"
  BY <1>1, <1>3, UnpaidUnused
<1> QED
  BY <1>2, <1>3

\* A deduction is added to what the deposit covers, or given back.
LEMMA DeductionsCover ==
    ASSUME Inv, TypeOK', DepositsCovered, payment' = payment, NEW x \in Deduction,
           \A y \in Deduction \ {x} : deduction'[y] = deduction[y],
           \/ deduction'[x].state # "effective"
           \/ /\ deduction[x].state # "effective"
              /\ deduction'[x].deposit \in Payment
              /\ deduction'[x].amount + Used(deduction'[x].deposit)
                    <= payment[deduction'[x].deposit].amount
    PROVE  DepositsCovered'
<1> DEFINE a == Amounts(deduction, Deduction)
           b == Amounts(deduction', Deduction)
<1>0. TypeOK
  BY DEF Inv
<1> SUFFICES ASSUME NEW k \in Payment PROVE Used(k)' <= payment[k].amount
  BY DEF DepositsCovered
<1>1. Used(k) = SumOver(a, UsesOf(k)) /\ Used(k)' = SumOver(b, UsesOf(k)')
  BY DEF Used, Amounts
<1>2. /\ \A S \in SUBSET Deduction : Summable(a, S) /\ Summable(b, S)
      /\ UsesOf(k) \in SUBSET Deduction /\ UsesOf(k)' \in SUBSET Deduction
      /\ \A y \in Deduction \ {x} : b[y] = a[y]
      /\ b[x] = deduction'[x].amount /\ b[x] \in Nat
  BY <1>0, AmountsTyped, AmountsSummable DEF UsesOf, Amounts
<1>3. Used(k) \in Nat /\ Used(k)' \in Nat /\ payment[k].amount \in Nat
  BY <1>0, <1>1, <1>2, SumType, AmountsTyped
<1> HIDE DEF a, b
<1>4. CASE x \notin UsesOf(k)'
  <2>1. UsesOf(k)' \subseteq UsesOf(k) /\ \A y \in UsesOf(k)' : b[y] <= a[y]
    <3>1. UsesOf(k)' \subseteq UsesOf(k)
      BY <1>4 DEF UsesOf
    <3>2. \A y \in UsesOf(k)' : b[y] = a[y] /\ a[y] \in Nat
      BY <1>2, <1>4, <3>1 DEF Summable
    <3> QED
      BY <3>1, <3>2
  <2>2. Used(k)' <= Used(k)
    BY <1>1, <1>2, <2>1, SumMonotone
  <2> QED
    BY <1>3, <2>2 DEF DepositsCovered
<1>5. CASE x \in UsesOf(k)'
  <2>1. /\ deduction'[x].state = "effective" /\ deduction'[x].deposit = k
        /\ deduction[x].state # "effective"
    BY <1>5 DEF UsesOf
  <2>2. UsesOf(k)' = UsesOf(k) \cup {x} /\ x \notin UsesOf(k)
    BY <1>5, <2>1 DEF UsesOf
  <2>3. SumOver(b, UsesOf(k)) = SumOver(a, UsesOf(k))
    BY <1>2, <2>2, SumSame
  <2>4. SumOver(b, UsesOf(k) \cup {x}) = SumOver(b, UsesOf(k)) + b[x]
    BY <1>2, <2>2, SumWith
  <2>5. Used(k)' = Used(k) + deduction'[x].amount
    BY <1>1, <1>2, <2>2, <2>3, <2>4
  <2> QED
    BY <1>2, <1>3, <2>1, <2>5
<1> QED
  BY <1>4, <1>5

LEMMA CoverStep == Inv /\ DepositsCovered /\ [Next]_vars => DepositsCovered'
<1> SUFFICES ASSUME Inv, DepositsCovered, [Next]_vars PROVE DepositsCovered'
  OBVIOUS
<1>0. TypeOK /\ TypeOK'
  BY InvStep DEF Inv
<1>1. ASSUME UNCHANGED <<payment, deduction>> PROVE DepositsCovered'
  BY <1>0, <1>1, PaymentsCover
<1>2. ASSUME NEW c \in Case, Post(c) PROVE DepositsCovered'
  <2>1. \A k \in LinesOf(c) : payment[k].state = "none"
    BY <1>2 DEF Post, Inv, PaidAsApproved
  <2>2. \A k \in Payment : k \notin LinesOf(c) => payment'[k] = payment[k]
    BY <1>2 DEF Post
  <2> QED
    BY <1>0, <1>2, <2>1, <2>2, PaymentsCover DEF Post
<1>3. ASSUME NEW c \in Case,
             \/ Draft(c) \/ Submit(c) \/ Upload(c) \/ Cancel(c)
             \/ Approve(c) \/ Confirm(c)
             \/ \E verdict \in {"rejected", "withdrawn"} : Decline(c, verdict)
      PROVE  DepositsCovered'
  BY <1>1, <1>2, <1>3 DEF Draft, Submit, Upload, Cancel, Approve, Confirm, Decline
<1>4. ASSUME NEW k \in Register, NEW s \in Source, NEW a \in Amount, CreatePayment(k, s, a)
      PROVE  DepositsCovered'
  <2>1. \A j \in Payment : j # k => payment'[j] = payment[j]
    BY <1>0, <1>4 DEF CreatePayment, TypeOK
  <2> QED
    BY <1>0, <1>4, <2>1, PaymentsCover DEF CreatePayment
<1>5. ASSUME NEW k \in Payment, ReversePayment(k) PROVE DepositsCovered'
  <2>1. \A j \in Payment : payment'[j].amount = payment[j].amount
    BY <1>0, <1>5, ReversedPayment DEF ReversePayment, TypeOK
  <2> QED
    BY <1>0, <1>5, <2>1, PaymentsCover DEF ReversePayment
<1>6. ASSUME NEW b \in Batch, ReverseBatch(b) PROVE DepositsCovered'
  <2>1. \A j \in Payment : payment'[j].amount = payment[j].amount
    BY <1>0, <1>6, ReversedPayment DEF ReverseBatch, TypeOK
  <2> QED
    BY <1>0, <1>6, <2>1, PaymentsCover DEF ReverseBatch
<1>7. ASSUME NEW x \in Deduction, NEW k \in Payment, NEW p \in Shipment, NEW a \in Amount,
             ApplyPrepayment(x, k, p, a)
      PROVE  DepositsCovered'
  <2>1. /\ deduction'[x] = [state |-> "effective", deposit |-> k, shipment |-> p, amount |-> a]
        /\ \A y \in Deduction \ {x} : deduction'[y] = deduction[y]
    BY <1>0, <1>7 DEF ApplyPrepayment, TypeOK
  <2>2. /\ payment' = payment /\ deduction[x].state # "effective"
        /\ a + Used(k) <= payment[k].amount
    BY <1>7 DEF ApplyPrepayment
  <2> QED
    BY <1>0, <2>1, <2>2, DeductionsCover
<1>8. ASSUME NEW x \in Deduction, ReverseDeduction(x) PROVE DepositsCovered'
  <2>1. /\ deduction'[x].state # "effective" /\ payment' = payment
        /\ \A y \in Deduction \ {x} : deduction'[y] = deduction[y]
    BY <1>0, <1>8, ReversedDeduction DEF ReverseDeduction, TypeOK
  <2> QED
    BY <1>0, <2>1, DeductionsCover
<1>9. ASSUME NEW s \in Source,
             (\E d \in FirstDue[s] : SaveFee(s, d)) \/ (\E a \in Amount : SaveSettlement(s, a))
      PROVE  DepositsCovered'
  BY <1>1, <1>9 DEF SaveFee, SaveSettlement
<1>10. CASE UNCHANGED vars
  BY <1>1, <1>10 DEF vars
<1> QED
  BY <1>3, <1>4, <1>5, <1>6, <1>7, <1>8, <1>9, <1>10 DEF Next, Source

\* A deposit covers everything that is deducted from it and is not taken back
\* meanwhile, whatever the way it was paid (apply_prepayment, reverse_payment).
THEOREM DepositsBackedHolds == Spec => []DepositsBacked
<1>1. Init => DepositsCovered
  <2> SUFFICES ASSUME Init, NEW k \in Payment PROVE Used(k) <= payment[k].amount
    BY DEF DepositsCovered
  <2>1. UsesOf(k) = {} /\ payment[k].amount = 0
    BY DEF Init, UsesOf, NoDeduction, NoPayment
  <2> QED
    BY <2>1, SumEmpty DEF Used
<1>2. Inv /\ DepositsCovered => DepositsBacked
  BY DEF Inv, DeductedFromDeposits, DepositsCovered, DepositsBacked, UsesOf
<1> QED
  BY <1>1, <1>2, CoverStep, Invariant, PTL DEF Spec

-----------------------------------------------------------------------------
(* What a source owes, has paid and has promised. *)

PaidFor(s) == {k \in Payment : payment[k].state = "effective" /\ payment[k].source = s}
AppliedTo(s) == {x \in Deduction : deduction[x].state = "effective" /\ deduction[x].shipment = s}
PromisedFrom(s, except) ==
    {r \in Line : SourceOf[r] = s /\ CaseOf[r] \notin except /\ Reserving(CaseOf[r])}
Asks(c, s) == {r \in LinesOf(c) : SourceOf[r] = s}

\* The sums that make up the summary of a source, before and after a step.
LEMMA SummaryTyped ==
    ASSUME TypeOK, TypeOK', NEW s \in Source, NEW except
    PROVE  /\ Paid(s) = opening[s] + SumOver(Amounts(payment, Payment), PaidFor(s))
           /\ Paid(s)' = opening'[s] + SumOver(Amounts(payment', Payment), PaidFor(s)')
           /\ Applied(s) = SumOver(Amounts(deduction, Deduction), AppliedTo(s))
           /\ Applied(s)' = SumOver(Amounts(deduction', Deduction), AppliedTo(s)')
           /\ Reserved(s, except) = SumOver(asked, PromisedFrom(s, except))
           /\ Reserved(s, {}) = SumOver(asked, PromisedFrom(s, {}))
           /\ Reserved(s, {})' = SumOver(asked', PromisedFrom(s, {})')
           /\ Summable(Amounts(payment, Payment), PaidFor(s))
           /\ Summable(Amounts(payment', Payment), PaidFor(s)')
           /\ Summable(Amounts(deduction, Deduction), AppliedTo(s))
           /\ Summable(Amounts(deduction', Deduction), AppliedTo(s)')
           /\ \A S \in SUBSET Line : Summable(asked, S) /\ Summable(asked', S)
           /\ opening[s] \in Nat /\ opening'[s] \in Nat
           /\ Paid(s) \in Nat /\ Paid(s)' \in Nat
           /\ Applied(s) \in Nat /\ Applied(s)' \in Nat
           /\ Reserved(s, except) \in Nat /\ Reserved(s, {}) \in Nat /\ Reserved(s, {})' \in Nat
           /\ due[s] \in Nat \cup {Unknown} /\ due'[s] \in Nat \cup {Unknown}
<1>1. /\ Summable(Amounts(payment, Payment), PaidFor(s))
      /\ Summable(Amounts(payment', Payment), PaidFor(s)')
      /\ Summable(Amounts(deduction, Deduction), AppliedTo(s))
      /\ Summable(Amounts(deduction', Deduction), AppliedTo(s)')
  BY AmountsTyped, AmountsSummable DEF PaidFor, AppliedTo
<1>2. \A S \in SUBSET Line : Summable(asked, S) /\ Summable(asked', S)
  BY AmountsTyped, FS_Subset DEF Summable, TypeOK
<1>3. /\ opening[s] \in Nat /\ opening'[s] \in Nat
      /\ due[s] \in Nat \cup {Unknown} /\ due'[s] \in Nat \cup {Unknown}
  BY DEF TypeOK, Due
<1>4. /\ Paid(s) = opening[s] + SumOver(Amounts(payment, Payment), PaidFor(s))
      /\ Paid(s)' = opening'[s] + SumOver(Amounts(payment', Payment), PaidFor(s)')
      /\ Applied(s) = SumOver(Amounts(deduction, Deduction), AppliedTo(s))
      /\ Applied(s)' = SumOver(Amounts(deduction', Deduction), AppliedTo(s)')
      /\ Reserved(s, except) = SumOver(asked, PromisedFrom(s, except))
      /\ Reserved(s, {}) = SumOver(asked, PromisedFrom(s, {}))
      /\ Reserved(s, {})' = SumOver(asked', PromisedFrom(s, {})')
  BY DEF Paid, Applied, Reserved, Amounts, PaidFor, AppliedTo, PromisedFrom
<1>5. PromisedFrom(s, except) \subseteq Line /\ PromisedFrom(s, {}) \subseteq Line
      /\ PromisedFrom(s, {})' \subseteq Line
  BY DEF PromisedFrom
<1> QED
  BY <1>1, <1>2, <1>3, <1>4, <1>5, SumType

\* A row that counts after the step counted before, with the same amount.
LEMMA SumShrinks ==
    ASSUME NEW q, NEW r, NEW S, NEW T, Summable(q, S), Summable(r, T),
           \A i \in T : i \in S /\ r[i] = q[i]
    PROVE  SumOver(r, T) <= SumOver(q, S)
<1>1. T \subseteq S /\ \A i \in T : r[i] <= q[i]
  BY DEF Summable
<1> QED
  BY <1>1, SumMonotone

LEMMA PaidShrinks ==
    ASSUME TypeOK, TypeOK', NEW s \in Source, opening'[s] = opening[s],
           \A k \in PaidFor(s)' : payment'[k] = payment[k]
    PROVE  Paid(s)' <= Paid(s)
<1>1. \A k \in PaidFor(s)' : k \in PaidFor(s)
                             /\ Amounts(payment', Payment)[k] = Amounts(payment, Payment)[k]
  BY DEF PaidFor, Amounts
<1>2. SumOver(Amounts(payment', Payment), PaidFor(s)') <= SumOver(Amounts(payment, Payment), PaidFor(s))
  BY <1>1, SummaryTyped, SumShrinks
<1>3. /\ SumOver(Amounts(payment', Payment), PaidFor(s)') \in Nat
      /\ SumOver(Amounts(payment, Payment), PaidFor(s)) \in Nat
  BY SummaryTyped, SumType
<1> QED
  BY <1>2, <1>3, SummaryTyped

LEMMA AppliedShrinks ==
    ASSUME TypeOK, TypeOK', NEW s \in Source,
           \A x \in AppliedTo(s)' : deduction'[x] = deduction[x]
    PROVE  Applied(s)' <= Applied(s)
<1>1. \A x \in AppliedTo(s)' : x \in AppliedTo(s)
                               /\ Amounts(deduction', Deduction)[x] = Amounts(deduction, Deduction)[x]
  BY DEF AppliedTo, Amounts
<1> QED
  BY <1>1, SummaryTyped, SumShrinks

LEMMA ReservedShrinks ==
    ASSUME TypeOK, TypeOK', NEW s \in Source,
           \A r \in PromisedFrom(s, {})' : Reserving(CaseOf[r]) /\ asked'[r] = asked[r]
    PROVE  Reserved(s, {})' <= Reserved(s, {})
<1>1. \A r \in PromisedFrom(s, {})' : r \in PromisedFrom(s, {}) /\ asked'[r] = asked[r]
  BY DEF PromisedFrom
<1>2. PromisedFrom(s, {}) \in SUBSET Line /\ PromisedFrom(s, {})' \in SUBSET Line
  BY DEF PromisedFrom
<1>3. Summable(asked, PromisedFrom(s, {})) /\ Summable(asked', PromisedFrom(s, {})')
  BY <1>2, SummaryTyped
<1> QED
  BY <1>1, <1>3, SummaryTyped, SumShrinks

\* What the property says of one source.
WithinDue(s) ==
    /\ Charged(s) => due'[s] = Unknown \/ Spent(s)' + Reserved(s, {})' <= due'[s]
    /\ due'[s] # due[s] /\ Paid(s) > 0 => due'[s] # Unknown /\ Paid(s) <= due'[s]

\* A step that charges nothing.
LEMMA NothingCharged ==
    ASSUME TypeOK, TypeOK', NEW s \in Source, due'[s] = due[s],
           Spent(s)' <= Spent(s) \/ opening'[s] # opening[s],
           Reserved(s, {})' <= Reserved(s, {})
    PROVE  WithinDue(s)
BY SummaryTyped DEF WithinDue, Charged, Spent

\* What the check leaves room for.
LEMMA FitsWithinDue ==
    ASSUME TypeOK, TypeOK', NEW s \in Source, NEW a \in Nat, NEW except, Fits(s, a, except)
    PROVE  /\ due[s] \in Nat
           /\ a + Reserved(s, except) = 0 \/ Spent(s) + a + Reserved(s, except) <= due[s]
<1>1. due[s] \in Nat /\ a + Reserved(s, except) <= Remaining(s)
  BY SummaryTyped DEF Fits
<1> QED
  BY <1>1, SummaryTyped DEF Remaining, Spent

\* The promises of a source are those of one case and those of the others.
LEMMA PromisesApart ==
    ASSUME TypeOK, TypeOK', NEW s \in Source, NEW c \in Case, Reserving(c)
    PROVE  Reserved(s, {}) = Reserved(s, {c}) + SumOver(asked, Asks(c, s))
<1>1. /\ PromisedFrom(s, {}) = PromisedFrom(s, {c}) \cup Asks(c, s)
      /\ PromisedFrom(s, {c}) \cap Asks(c, s) = {}
  BY DEF PromisedFrom, Asks, LinesOf
<1>2. PromisedFrom(s, {c}) \in SUBSET Line /\ Asks(c, s) \in SUBSET Line
  BY DEF PromisedFrom, Asks, LinesOf
<1>3. Summable(asked, PromisedFrom(s, {c})) /\ Summable(asked, Asks(c, s))
  BY <1>2, SummaryTyped
<1>4. SumOver(asked, PromisedFrom(s, {}))
          = SumOver(asked, PromisedFrom(s, {c})) + SumOver(asked, Asks(c, s))
  BY <1>1, <1>3, SumDisjoint
<1> QED
  BY <1>4, SummaryTyped

\* A step that pays or promises what the check left room for.
LEMMA ChargedWithinDue ==
    ASSUME TypeOK, TypeOK', NEW s \in Source, NEW a \in Nat, NEW except, Fits(s, a, except),
           due'[s] = due[s],
           Spent(s)' + Reserved(s, {})' <= Spent(s) + a + Reserved(s, except),
           a + Reserved(s, except) = 0 =>
               Spent(s)' <= Spent(s) /\ Reserved(s, {})' <= Reserved(s, {})
    PROVE  WithinDue(s)
<1>1. /\ due[s] \in Nat
      /\ a + Reserved(s, except) = 0 \/ Spent(s) + a + Reserved(s, except) <= due[s]
  BY FitsWithinDue
<1>2. /\ Spent(s) \in Nat /\ Spent(s)' \in Nat /\ Reserved(s, except) \in Nat
      /\ Reserved(s, {}) \in Nat /\ Reserved(s, {})' \in Nat
  BY SummaryTyped DEF Spent
<1>3. CASE a + Reserved(s, except) = 0
  BY <1>3, NothingCharged
<1>4. CASE Spent(s) + a + Reserved(s, except) <= due[s]
  BY <1>1, <1>2, <1>4 DEF WithinDue
<1> QED
  BY <1>1, <1>3, <1>4

\* A step that moves only one case, which reserves no more than it did.
LEMMA CaseStepWithinDue ==
    ASSUME TypeOK, TypeOK', NEW s \in Source,
           UNCHANGED <<due, opening, payment, deduction>>,
           \A r \in Line : Reserving(CaseOf[r])' => Reserving(CaseOf[r]) /\ asked'[r] = asked[r]
    PROVE  WithinDue(s)
<1>1. Paid(s)' = Paid(s) /\ Applied(s)' = Applied(s)
  BY DEF Paid, Applied
<1>2. Reserved(s, {})' <= Reserved(s, {})
  BY ReservedShrinks DEF PromisedFrom
<1> QED
  BY <1>1, <1>2, SummaryTyped, NothingCharged DEF Spent

LEMMA QuietCaseWithinDue ==
    ASSUME Inv, Inv', NEW s \in Source, NEW c \in Case,
           \/ Draft(c) \/ Upload(c) \/ Cancel(c)
           \/ \E verdict \in {"rejected", "withdrawn"} : Decline(c, verdict)
    PROVE  WithinDue(s)
<1>1. /\ case[c] \in CaseState /\ \A r \in Line : CaseOf[r] \in Case
      /\ case \in [Case -> CaseState]
  BY PaymentsAssumption DEF Inv, TypeOK
<1>2. UNCHANGED <<due, opening, payment, deduction>>
  BY DEF Draft, Upload, Cancel, Decline
<1>3. \A d \in Case : d # c => case'[d] = case[d]
  BY <1>1 DEF Draft, Upload, Cancel, Decline
<1>4. \A r \in Line : Reserving(CaseOf[r])' => Reserving(CaseOf[r]) /\ asked'[r] = asked[r]
  <2> SUFFICES ASSUME NEW r \in Line, Reserving(CaseOf[r])'
               PROVE  Reserving(CaseOf[r]) /\ asked'[r] = asked[r]
    OBVIOUS
  <2>1. CASE CaseOf[r] # c
    BY <1>1, <1>3, <2>1 DEF Reserving, Draft, Upload, Cancel, Decline, LinesOf, Inv, TypeOK
  <2>2. CASE CaseOf[r] = c
    <3>1. ~Draft(c) /\ ~Cancel(c) /\ ~(\E v \in {"rejected", "withdrawn"} : Decline(c, v))
      BY <1>1, <2>2 DEF Reserving, CaseState, Draft, Cancel, Decline
    <3>2. Upload(c)
      BY <3>1
    <3>3. case'[c].status = case[c].status /\ case'[c].approval = case[c].approval /\ asked' = asked
      BY <1>1, <3>2 DEF CaseState, Upload
    <3> QED
      BY <2>2, <3>3 DEF Reserving
  <2> QED
    BY <2>1, <2>2
<1> QED
  BY <1>2, <1>4, CaseStepWithinDue DEF Inv

\* A submitted case asks for what the check has just left room for.
LEMMA SubmitWithinDue ==
    ASSUME Inv, Inv', NEW s \in Source, NEW c \in Case, Submit(c)
    PROVE  WithinDue(s)
<1>1. /\ case \in [Case -> CaseState] /\ case[c].status = "draft"
      /\ \A r \in Line : CaseOf[r] \in Case
      /\ UNCHANGED <<due, opening, asked, payment, deduction>>
  BY PaymentsAssumption DEF Inv, TypeOK, Submit
<1>2. \A d \in Case : d # c => case'[d] = case[d]
  BY <1>1 DEF Submit
<1>3. Reserving(c)' /\ ~Reserving(c)
  BY <1>1 DEF Submit, Reserving, CaseState
<1>4. CASE Asks(c, s) = {}
  <2>1. \A r \in PromisedFrom(s, {})' : Reserving(CaseOf[r]) /\ asked'[r] = asked[r]
    BY <1>1, <1>2, <1>4 DEF PromisedFrom, Asks, LinesOf, Reserving
  <2>2. Paid(s)' = Paid(s) /\ Applied(s)' = Applied(s)
    BY <1>1 DEF Paid, Applied
  <2> QED
    BY <1>1, <2>1, <2>2, ReservedShrinks, SummaryTyped, NothingCharged DEF Inv, Spent
<1>5. CASE Asks(c, s) # {}
  <2> DEFINE a == SumOver(asked, Asks(c, s))
  <2>1. Fits(s, a, {c})
    BY <1>5 DEF Submit, Available, Asks, LinesOf
  <2>2. Asks(c, s) \in SUBSET Line
    BY DEF Asks, LinesOf
  <2>3. a \in Nat
    BY <2>2, SummaryTyped, SumType DEF Inv
  <2>4. /\ PromisedFrom(s, {})' = PromisedFrom(s, {c}) \cup Asks(c, s)
        /\ PromisedFrom(s, {c}) \cap Asks(c, s) = {}
        /\ PromisedFrom(s, {c}) \in SUBSET Line /\ PromisedFrom(s, {})' \in SUBSET Line
    BY <1>1, <1>2, <1>3 DEF PromisedFrom, Asks, LinesOf, Reserving
  <2>5. Reserved(s, {})' = Reserved(s, {c}) + a
    <3>1. Summable(asked, PromisedFrom(s, {c})) /\ Summable(asked, Asks(c, s))
      BY <2>2, <2>4, SummaryTyped DEF Inv
    <3>2. SumOver(asked, PromisedFrom(s, {c}) \cup Asks(c, s)) = SumOver(asked, PromisedFrom(s, {c})) + a
      BY <2>4, <3>1, SumDisjoint
    <3>3. /\ Reserved(s, {})' = SumOver(asked, PromisedFrom(s, {})')
          /\ Reserved(s, {c}) = SumOver(asked, PromisedFrom(s, {c}))
      BY <1>1 DEF Reserved, PromisedFrom
    <3> QED
      BY <2>4, <3>2, <3>3
  <2>6. Spent(s)' = Spent(s) /\ due'[s] = due[s]
    BY <1>1 DEF Spent, Paid, Applied
  <2>7. /\ Spent(s) \in Nat /\ Reserved(s, {c}) \in Nat /\ Reserved(s, {}) \in Nat
    BY SummaryTyped DEF Spent, Inv
  <2> HIDE DEF a
  <2> QED
    BY <2>1, <2>3, <2>5, <2>6, <2>7, ChargedWithinDue DEF Inv
<1> QED
  BY <1>4, <1>5

\* The payment of a case takes the place of what it had reserved.
LEMMA PostWithinDue ==
    ASSUME Inv, Inv', NEW s \in Source, NEW c \in Case, Post(c)
    PROVE  WithinDue(s)
<1>1. /\ case \in [Case -> CaseState] /\ case[c].status = "submitted"
      /\ \A r \in Line : CaseOf[r] \in Case
      /\ UNCHANGED <<due, opening, asked, deduction>>
  BY PaymentsAssumption DEF Inv, TypeOK, Post
<1>2. /\ \A d \in Case : d # c => case'[d] = case[d]
      /\ ~Reserving(c)'
  BY <1>1 DEF Post, Reserving, CaseState
<1>3. PromisedFrom(s, {})' = PromisedFrom(s, {c})
  BY <1>1, <1>2 DEF PromisedFrom, Reserving
<1>4. Reserved(s, {})' = Reserved(s, {c}) /\ Reserved(s, {c}) <= Reserved(s, {})
  <2>1. Reserved(s, {})' = Reserved(s, {c})
    BY <1>1, <1>3 DEF Reserved, PromisedFrom
  <2>2. \A r \in PromisedFrom(s, {})' : Reserving(CaseOf[r]) /\ asked'[r] = asked[r]
    BY <1>1, <1>3 DEF PromisedFrom
  <2> QED
    BY <2>1, <2>2, ReservedShrinks DEF Inv
<1>5. \A k \in Payment :
          /\ k \in LinesOf(c) => /\ payment'[k].state = "effective"
                                 /\ payment'[k].source = SourceOf[k]
                                 /\ payment'[k].amount = asked[k]
          /\ k \notin LinesOf(c) => payment'[k] = payment[k]
  BY DEF Post
<1>6. Asks(c, s) \in SUBSET Line /\ Asks(c, s) \in SUBSET Payment /\ LinesOf(c) \subseteq Line
  BY DEF Asks, LinesOf, Payment
<1>7. PaidFor(s)' = PaidFor(s) \cup Asks(c, s) /\ PaidFor(s) \cap LinesOf(c) = {}
  <2>1. \A k \in LinesOf(c) : payment[k].state = "none"
    BY <1>1 DEF Inv, PaidAsApproved
  <2>2. PaidFor(s)' = PaidFor(s) \cup Asks(c, s)
    BY <1>5, <1>6, <2>1 DEF PaidFor, Asks
  <2> QED
    BY <2>1, <2>2 DEF PaidFor
<1>8. CASE Asks(c, s) = {}
  <2>1. \A k \in PaidFor(s)' : payment'[k] = payment[k]
    BY <1>5, <1>7, <1>8 DEF PaidFor
  <2>2. Applied(s)' = Applied(s)
    BY <1>1 DEF Applied
  <2> QED
    BY <1>1, <1>4, <2>1, <2>2, PaidShrinks, SummaryTyped, NothingCharged DEF Inv, Spent
<1>9. CASE Asks(c, s) # {}
  <2> DEFINE a == SumOver(asked, Asks(c, s))
             q == Amounts(payment, Payment)
             p == Amounts(payment', Payment)
  <2>1. Fits(s, a, {c})
    BY <1>9 DEF Post, Available, Asks, LinesOf
  <2>2. a \in Nat
    BY <1>6, SummaryTyped, SumType DEF Inv
  <2>3. /\ \A k \in PaidFor(s) : p[k] = q[k]
        /\ \A k \in Asks(c, s) : p[k] = asked[k]
    <3>1. /\ \A k \in PaidFor(s) : k \in Payment /\ k \notin LinesOf(c)
          /\ \A k \in Asks(c, s) : k \in Payment /\ k \in LinesOf(c)
      BY <1>6, <1>7 DEF PaidFor, Asks
    <3> QED
      BY <1>5, <3>1 DEF Amounts
  <2>4. SumOver(p, PaidFor(s)) = SumOver(q, PaidFor(s)) /\ SumOver(p, Asks(c, s)) = a
    BY <2>3, SumSame
  <2>5. Summable(p, PaidFor(s)) /\ Summable(p, Asks(c, s))
    BY <1>6, AmountsTyped, AmountsSummable DEF Inv, PaidFor
  <2>6. PaidFor(s) \cap Asks(c, s) = {}
    BY <1>7 DEF Asks
  <2>7. SumOver(p, PaidFor(s)') = SumOver(q, PaidFor(s)) + a
    BY <1>7, <2>4, <2>5, <2>6, SumDisjoint
  <2>8. /\ Paid(s)' = opening'[s] + SumOver(p, PaidFor(s)')
        /\ Paid(s) = opening[s] + SumOver(q, PaidFor(s))
        /\ opening[s] \in Nat /\ SumOver(q, PaidFor(s)) \in Nat
        /\ Applied(s) \in Nat /\ Reserved(s, {c}) \in Nat /\ Reserved(s, {}) \in Nat
    BY SummaryTyped, SumType DEF Inv
  <2> HIDE DEF a, p, q
  <2>9. Spent(s)' = Spent(s) + a
    <3>1. Applied(s)' = Applied(s) /\ opening'[s] = opening[s]
      BY <1>1 DEF Applied
    <3> QED
      BY <2>2, <2>7, <2>8, <3>1 DEF Spent
  <2>10. Spent(s) \in Nat /\ due'[s] = due[s]
    BY <1>1, <2>8 DEF Spent
  <2> QED
    BY <1>4, <2>1, <2>2, <2>8, <2>9, <2>10, ChargedWithinDue DEF Inv
<1> QED
  BY <1>8, <1>9

\* A payment registered by hand.
LEMMA CreatePaymentWithinDue ==
    ASSUME Inv, Inv', NEW s \in Source, NEW k \in Register, NEW z \in Source, NEW a \in Amount,
           CreatePayment(k, z, a)
    PROVE  WithinDue(s)
<1>1. /\ k \in Payment /\ payment[k].state = "none" /\ a \in Nat
      /\ UNCHANGED <<due, opening, asked, case, deduction>>
  BY PaymentsAssumption DEF CreatePayment, Payment
<1>2. /\ payment'[k].state = "effective" /\ payment'[k].source = z /\ payment'[k].amount = a
      /\ \A j \in Payment : j # k => payment'[j] = payment[j]
  BY <1>1 DEF CreatePayment, Inv, TypeOK
<1>3. Reserved(s, {})' = Reserved(s, {}) /\ Applied(s)' = Applied(s)
  BY <1>1 DEF Reserved, Applied, Reserving
<1>4. CASE s # z
  <2>1. \A j \in PaidFor(s)' : payment'[j] = payment[j]
    BY <1>2, <1>4 DEF PaidFor
  <2> QED
    BY <1>1, <1>3, <2>1, PaidShrinks, SummaryTyped, NothingCharged DEF Inv, Spent
<1>5. CASE s = z
  <2>1. CASE due[s] = Unknown
    BY <1>1, <2>1 DEF WithinDue
  <2>2. CASE due[s] # Unknown
    <3> DEFINE q == Amounts(payment, Payment)
               p == Amounts(payment', Payment)
    <3>1. Fits(s, a, {})
      BY <1>5, <2>2 DEF CreatePayment
    <3>2. PaidFor(s)' = PaidFor(s) \cup {k} /\ k \notin PaidFor(s)
      BY <1>1, <1>2, <1>5 DEF PaidFor
    <3>3. p[k] = a /\ \A j \in PaidFor(s) : p[j] = q[j]
      BY <1>1, <1>2, <3>2 DEF Amounts, PaidFor
    <3>4. Summable(p, PaidFor(s))
      BY AmountsTyped, AmountsSummable DEF Inv, PaidFor
    <3>5. SumOver(p, PaidFor(s)') = SumOver(q, PaidFor(s)) + a
      BY <1>1, <3>2, <3>3, <3>4, SumSame, SumWith
    <3>6. /\ Paid(s)' = opening'[s] + SumOver(p, PaidFor(s)')
          /\ Paid(s) = opening[s] + SumOver(q, PaidFor(s))
          /\ opening[s] \in Nat /\ SumOver(q, PaidFor(s)) \in Nat
          /\ Applied(s) \in Nat /\ Reserved(s, {}) \in Nat
      BY SummaryTyped, SumType DEF Inv
    <3> HIDE DEF p, q
    <3>7. Spent(s)' = Spent(s) + a /\ Spent(s) \in Nat
      BY <1>1, <1>3, <3>5, <3>6 DEF Spent
    <3> QED
      BY <1>1, <1>3, <3>1, <3>6, <3>7, ChargedWithinDue DEF Inv
  <2> QED
    BY <2>1, <2>2
<1> QED
  BY <1>4, <1>5

\* A reversal of a payment, or of all those of a batch.
LEMMA ReversalWithinDue ==
    ASSUME Inv, Inv', NEW s \in Source,
           (\E k \in Payment : ReversePayment(k)) \/ (\E b \in Batch : ReverseBatch(b))
    PROVE  WithinDue(s)
<1>1. UNCHANGED <<due, opening, asked, case, deduction>>
  BY DEF ReversePayment, ReverseBatch
<1>2. \A k \in Payment : payment'[k].state = "effective" => payment'[k] = payment[k]
  <2>1. ASSUME NEW k \in Payment, ReversePayment(k)
        PROVE  \A j \in Payment : payment'[j].state = "effective" => payment'[j] = payment[j]
    BY <2>1, ReversedPayment DEF ReversePayment, Inv, TypeOK
  <2>2. ASSUME NEW b \in Batch, ReverseBatch(b)
        PROVE  \A j \in Payment : payment'[j].state = "effective" => payment'[j] = payment[j]
    BY <2>2, ReversedPayment DEF ReverseBatch, Inv, TypeOK
  <2> QED
    BY <2>1, <2>2
<1>3. Reserved(s, {})' = Reserved(s, {}) /\ Applied(s)' = Applied(s)
  BY <1>1 DEF Reserved, Applied, Reserving
<1>4. Paid(s)' <= Paid(s)
  BY <1>1, <1>2, PaidShrinks DEF PaidFor, Inv
<1> QED
  BY <1>1, <1>3, <1>4, SummaryTyped, NothingCharged DEF Inv, Spent

\* A deduction from a deposit.
LEMMA ApplyPrepaymentWithinDue ==
    ASSUME Inv, Inv', NEW s \in Source, NEW x \in Deduction, NEW k \in Payment,
           NEW z \in Shipment, NEW a \in Amount, ApplyPrepayment(x, k, z, a)
    PROVE  WithinDue(s)
<1>1. /\ deduction[x].state = "none" /\ a \in Nat /\ Fits(z, a, {})
      /\ UNCHANGED <<due, opening, asked, case, payment>>
  BY PaymentsAssumption DEF ApplyPrepayment
<1>2. /\ deduction'[x].state = "effective" /\ deduction'[x].shipment = z
      /\ deduction'[x].amount = a
      /\ \A y \in Deduction : y # x => deduction'[y] = deduction[y]
  BY DEF ApplyPrepayment, Inv, TypeOK
<1>3. Reserved(s, {})' = Reserved(s, {}) /\ Paid(s)' = Paid(s)
  BY <1>1 DEF Reserved, Paid, Reserving
<1>4. CASE s # z
  <2>1. \A y \in AppliedTo(s)' : deduction'[y] = deduction[y]
    BY <1>2, <1>4 DEF AppliedTo
  <2> QED
    BY <1>1, <1>3, <2>1, AppliedShrinks, SummaryTyped, NothingCharged DEF Inv, Spent
<1>5. CASE s = z
  <2> DEFINE q == Amounts(deduction, Deduction)
             p == Amounts(deduction', Deduction)
  <2>1. AppliedTo(s)' = AppliedTo(s) \cup {x} /\ x \notin AppliedTo(s)
    BY <1>1, <1>2, <1>5 DEF AppliedTo
  <2>2. p[x] = a /\ \A y \in AppliedTo(s) : p[y] = q[y]
    BY <1>1, <1>2, <2>1 DEF Amounts, AppliedTo
  <2>3. Summable(p, AppliedTo(s))
    BY AmountsTyped, AmountsSummable DEF Inv, AppliedTo
  <2>4. SumOver(p, AppliedTo(s)') = SumOver(q, AppliedTo(s)) + a
    BY <1>1, <2>1, <2>2, <2>3, SumSame, SumWith
  <2>5. /\ Applied(s)' = SumOver(p, AppliedTo(s)')
        /\ Applied(s) = SumOver(q, AppliedTo(s))
        /\ Paid(s) \in Nat /\ Applied(s) \in Nat /\ Reserved(s, {}) \in Nat
    BY SummaryTyped DEF Inv
  <2> HIDE DEF p, q
  <2>6. Spent(s)' = Spent(s) + a /\ Spent(s) \in Nat
    BY <1>1, <1>3, <2>4, <2>5 DEF Spent
  <2> QED
    BY <1>1, <1>3, <1>5, <2>5, <2>6, ChargedWithinDue DEF Inv
<1> QED
  BY <1>4, <1>5

LEMMA ReverseDeductionWithinDue ==
    ASSUME Inv, Inv', NEW s \in Source, NEW x \in Deduction, ReverseDeduction(x)
    PROVE  WithinDue(s)
<1>1. UNCHANGED <<due, opening, asked, case, payment>>
  BY DEF ReverseDeduction
<1>2. \A y \in Deduction : deduction'[y].state = "effective" => deduction'[y] = deduction[y]
  BY ReversedDeduction DEF ReverseDeduction, Inv, TypeOK
<1>3. Reserved(s, {})' = Reserved(s, {}) /\ Paid(s)' = Paid(s)
  BY <1>1 DEF Reserved, Paid, Reserving
<1>4. Applied(s)' <= Applied(s)
  BY <1>2, AppliedShrinks DEF AppliedTo, Inv
<1> QED
  BY <1>1, <1>3, <1>4, SummaryTyped, NothingCharged DEF Inv, Spent

\* The fee of a freight is revised, not below what was paid; or the historic
\* total of a shipment is replaced.
LEMMA RevisionWithinDue ==
    ASSUME Inv, Inv', NEW s \in Source, NEW z \in Source,
           (\E d \in FirstDue[z] : SaveFee(z, d)) \/ (\E a \in Amount : SaveSettlement(z, a))
    PROVE  WithinDue(s)
<1>1. /\ UNCHANGED <<asked, case, payment, deduction>>
      /\ Reserved(s, {})' = Reserved(s, {}) /\ Applied(s)' = Applied(s)
      /\ opening'[s] = opening[s] => Paid(s)' = Paid(s)
  BY DEF SaveFee, SaveSettlement, Reserved, Applied, Reserving, Paid
<1>2. CASE due'[s] = due[s]
  BY <1>1, <1>2, SummaryTyped, NothingCharged DEF Inv, Spent
<1>3. CASE due'[s] # due[s]
  <2>1. PICK d \in FirstDue[z] : SaveFee(z, d)
    BY <1>3 DEF SaveSettlement
  <2>2. /\ z = s /\ due'[s] = d /\ opening' = opening
        /\ Paid(s) > 0 => d # Unknown /\ d >= Paid(s)
    BY <1>3, <2>1 DEF SaveFee, Inv, TypeOK
  <2>3. /\ Paid(s) \in Nat /\ Applied(s) \in Nat /\ Reserved(s, {}) \in Nat
        /\ due'[s] \in Nat \cup {Unknown}
    BY SummaryTyped DEF Inv
  <2>4. ~Charged(s)
    BY <1>1, <2>2, <2>3 DEF Charged, Spent
  <2>5. Paid(s) > 0 => due'[s] # Unknown /\ Paid(s) <= due'[s]
    <3> SUFFICES ASSUME Paid(s) > 0 PROVE due'[s] # Unknown /\ Paid(s) <= due'[s]
      OBVIOUS
    <3>1. due'[s] # Unknown /\ due'[s] >= Paid(s)
      BY <2>2
    <3> QED
      BY <2>3, <3>1
  <2> QED
    BY <2>4, <2>5 DEF WithinDue
<1> QED
  BY <1>2, <1>3

LEMMA WithinDueStep ==
    ASSUME Inv, Inv', [Next]_vars, NEW s \in Source
    PROVE  WithinDue(s)
<1>1. ASSUME NEW c \in Case,
             \/ Draft(c) \/ Submit(c) \/ Upload(c) \/ Cancel(c)
             \/ Approve(c) \/ Confirm(c)
             \/ \E verdict \in {"rejected", "withdrawn"} : Decline(c, verdict)
      PROVE  WithinDue(s)
  BY <1>1, QuietCaseWithinDue, SubmitWithinDue, PostWithinDue DEF Approve, Confirm
<1>2. ASSUME NEW z \in Freight, NEW d \in FirstDue[z], SaveFee(z, d) PROVE WithinDue(s)
  BY <1>2, RevisionWithinDue DEF Source
<1>3. ASSUME NEW z \in Shipment, NEW a \in Amount, SaveSettlement(z, a) PROVE WithinDue(s)
  BY <1>3, RevisionWithinDue DEF Source
<1>4. CASE UNCHANGED vars
  <2>1. /\ UNCHANGED <<due, opening, payment, deduction>>
        /\ \A r \in Line : Reserving(CaseOf[r])' => Reserving(CaseOf[r]) /\ asked'[r] = asked[r]
    BY <1>4 DEF vars, Reserving
  <2> QED
    BY <2>1, CaseStepWithinDue DEF Inv
<1> QED
  BY <1>1, <1>2, <1>3, <1>4, CreatePaymentWithinDue, ReversalWithinDue,
     ApplyPrepaymentWithinDue, ReverseDeductionWithinDue DEF Next

\* No payment, deduction or submission takes a source beyond what it owes, the
\* promises to others included, and no revision of a fee goes below what was
\* paid (_available_check, create_payment, apply_prepayment, save_fee).
THEOREM NeverBeyondDueHolds == Spec => NeverBeyondDue
<1>1. Inv /\ Inv' /\ [Next]_vars =>
          [\A s \in Source :
              /\ Charged(s) => due'[s] = Unknown \/ Spent(s)' + Reserved(s, {})' <= due'[s]
              /\ due'[s] # due[s] /\ Paid(s) > 0 =>
                    due'[s] # Unknown /\ Paid(s) <= due'[s]]_vars
  BY WithinDueStep DEF WithinDue
<1> QED
  BY <1>1, Invariant, PTL DEF Spec, NeverBeyondDue

=============================================================================
