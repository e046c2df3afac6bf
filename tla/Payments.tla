------------------------------ MODULE Payments ------------------------------
(***************************************************************************)
(* Paying suppliers and carriers (apps/supply_chain: costs.py, payment_-   *)
(* requests.py, payment_batches.py, payment_request_evidence.py, and the   *)
(* approvals of apps/workflows/services.py).                               *)
(*                                                                         *)
(* A source (an order, a shipment, its domestic freight) owes what is due. *)
(* Money leaves it by a payment registered by hand or by the approval of a *)
(* payment request, alone or in a batch; a submitted request reserves its  *)
(* amount meanwhile.  A payment on an order is a deposit that can be       *)
(* deducted from what the shipments of the order owe.  Payments and        *)
(* deductions are never deleted, only reversed.                            *)
(*                                                                         *)
(* Every operation is a transaction under the lock of its tenant, so it is *)
(* one step here; what varies is the order of the operations.              *)
(***************************************************************************)
EXTENDS QuantitySums, Functions

CONSTANTS
    Order, Shipment, Freight,   \* the sources
    OrderOf,                    \* the order of each shipment
    Single, Batch,              \* payment requests and payment batches
    Line, CaseOf, SourceOf,     \* their lines: whose, and for which source
    Legacy,                     \* requests approved before approval meant payment
    Register,                   \* idempotency keys of payments made by hand
    Deduction,                  \* idempotency keys of deductions
    Amount,                     \* bound: the amounts that occur
    FirstDue,                   \* bound: what each source may owe at first
    Unknown

Source == Order \cup Shipment \cup Freight
Case == Single \cup Batch
Payment == Line \cup Register      \* a line pays under payment-request-<id>
Due == Nat \cup {Unknown}

ASSUME PaymentsAssumption ==
    /\ OrderOf \in [Shipment -> Order]
    /\ CaseOf \in [Line -> Case] /\ SourceOf \in [Line -> Source]
    /\ \A s \in Single : \E r \in Line : \A q \in Line : CaseOf[q] = s <=> q = r
    /\ \A r \in Line : CaseOf[r] \in Batch => SourceOf[r] \notin Order
    /\ Single \cap Batch = {} /\ Line \cap Register = {}
    /\ Order \cap (Shipment \cup Freight) = {} /\ Shipment \cap Freight = {}
    /\ Legacy \subseteq Case
    /\ IsFiniteSet(Line \cup Register) /\ IsFiniteSet(Deduction)
    /\ Amount \subseteq Nat \ {0}
    /\ FirstDue \in [Source -> SUBSET Due]
    /\ Unknown \notin Nat

VARIABLES
    due,            \* what a source owes, or that it is not known yet
    opening,        \* the settlement registered before payments were kept
    asked,          \* the amount of a line
    case,           \* payment requests and batches, with their approval
    payment,        \* PaymentRecord rows, by idempotency key
    deduction       \* PaymentApplication rows, by idempotency key

vars == <<due, opening, asked, case, payment, deduction>>

\* The lines of a batch always have its status, so it is kept once.
CaseState ==
    [status   : {"none", "draft", "submitted", "paid", "cancelled"},
     approval : {"none", "pending", "approved", "rejected", "withdrawn"},
     voucher  : BOOLEAN]

\* A reversed row has a second row that reverses it.
Ledger == {"none", "effective", "reversed"}

PaymentState == [state : Ledger, source : Source \cup {Unknown}, amount : Nat]

DeductionState ==
    [state : Ledger, deposit : Payment \cup {Unknown},
     shipment : Shipment \cup {Unknown}, amount : Nat]

TypeOK ==
    /\ due \in [Source -> Due]
    /\ opening \in [Source -> Nat]
    /\ asked \in [Line -> Nat]
    /\ case \in [Case -> CaseState]
    /\ payment \in [Payment -> PaymentState]
    /\ deduction \in [Deduction -> DeductionState]
    /\ \A k \in Payment : payment[k].state # "none" => payment[k].source \in Source
    /\ \A x \in Deduction :
          deduction[x].state # "none" =>
              deduction[x].deposit \in Payment /\ deduction[x].shipment \in Shipment
    /\ \A c \in Case :
          /\ case[c].approval = "pending" => case[c].status = "submitted"
          /\ case[c].status \in {"submitted", "paid"} => case[c].approval # "none"

NoPayment == [state |-> "none", source |-> Unknown, amount |-> 0]
NoDeduction == [state |-> "none", deposit |-> Unknown, shipment |-> Unknown, amount |-> 0]

\* A legacy request is approved and waits to be confirmed.
NewCase(c) ==
    [status   |-> IF c \in Legacy THEN "submitted" ELSE "none",
     approval |-> IF c \in Legacy THEN "approved" ELSE "none",
     voucher  |-> FALSE]

-----------------------------------------------------------------------------
(* payment_summary. *)

LinesOf(c) == {r \in Line : CaseOf[r] = c}

Paid(s) ==
    opening[s] + SumOver([k \in Payment |-> payment[k].amount],
                     {k \in Payment : payment[k].state = "effective" /\ payment[k].source = s})

Applied(s) ==
    SumOver([x \in Deduction |-> deduction[x].amount],
        {x \in Deduction : deduction[x].state = "effective" /\ deduction[x].shipment = s})

Remaining(s) ==
    IF due[s] > Paid(s) + Applied(s) THEN due[s] - Paid(s) - Applied(s) ELSE 0

\* A submitted request reserves its amount until it is paid, cancelled, rejected
\* or withdrawn.
Reserving(c) ==
    case[c].status = "submitted" /\ case[c].approval \notin {"rejected", "withdrawn"}

Reserved(s, except) ==
    SumOver(asked,
        {r \in Line : /\ SourceOf[r] = s
                      /\ CaseOf[r] \notin except
                      /\ Reserving(CaseOf[r])})

Fits(s, amount, except) ==
    due[s] # Unknown /\ amount + Reserved(s, except) <= Remaining(s)

\* _available_check: what the lines of a case ask of each source, besides the
\* other requests.
Available(c, amounts) ==
    \A s \in {SourceOf[r] : r \in LinesOf(c)} :
        Fits(s, SumOver(amounts, {r \in LinesOf(c) : SourceOf[r] = s}), {c})

Init ==
    /\ due \in {d \in [Source -> UNION Range(FirstDue)] : \A s \in Source : d[s] \in FirstDue[s]}
    /\ opening = [s \in Source |-> 0]
    /\ asked \in {a \in [Line -> Amount \cup {0}] :
                     \A r \in Line : CaseOf[r] \in Legacy <=> a[r] # 0}
    /\ case = [c \in Case |-> NewCase(c)]
    /\ payment = [k \in Payment |-> NoPayment]
    /\ deduction = [x \in Deduction |-> NoDeduction]
    /\ \A c \in Legacy : Available(c, asked)

-----------------------------------------------------------------------------
(* Payment requests and batches. *)

Draft(c) ==
    /\ case[c].status = "none"
    /\ \E a \in [LinesOf(c) -> Amount] :
          /\ Available(c, a)
          /\ asked' = [r \in Line |-> IF r \in LinesOf(c) THEN a[r] ELSE asked[r]]
    /\ case' = [case EXCEPT ![c].status = "draft"]
    /\ UNCHANGED <<due, opening, payment, deduction>>

Submit(c) ==
    /\ case[c].status = "draft"
    /\ Available(c, asked)
    /\ case' = [case EXCEPT ![c].status = "submitted", ![c].approval = "pending"]
    /\ UNCHANGED <<due, opening, asked, payment, deduction>>

\* The proof of the transfer, before it is approved or confirmed.
Upload(c) ==
    /\ case[c].status = "submitted"
    /\ case[c].approval \in {"pending", "approved"}
    /\ case' = [case EXCEPT ![c].voucher = TRUE]
    /\ UNCHANGED <<due, opening, asked, payment, deduction>>

\* post_request, post_batch: one payment for every line, or nothing.
Post(c) ==
    /\ case[c].status = "submitted"
    /\ case[c].voucher
    /\ Available(c, asked)
    /\ payment' = [k \in Payment |->
                      IF k \in LinesOf(c)
                      THEN [state |-> "effective", source |-> SourceOf[k], amount |-> asked[k]]
                      ELSE payment[k]]
    /\ case' = [case EXCEPT ![c].status = "paid", ![c].approval = "approved"]
    /\ UNCHANGED <<due, opening, asked, deduction>>

\* review_approval: the approval and the payment are one transaction.
Approve(c) == case[c].approval = "pending" /\ Post(c)

\* RequestConfirm, and confirm of a batch: what was approved before.
Confirm(c) == case[c].approval = "approved" /\ Post(c)

\* The reviewer rejects, or the requester withdraws in the approval list.
Decline(c, verdict) ==
    /\ case[c].approval = "pending"
    /\ case' = [case EXCEPT ![c].approval = verdict]
    /\ UNCHANGED <<due, opening, asked, payment, deduction>>

Cancel_KeepsApproval(c) ==
    /\ case[c].status \in {"draft", "submitted"}
    /\ case' = [case EXCEPT ![c].status = "cancelled"]
    /\ UNCHANGED <<due, opening, asked, payment, deduction>>

\* A pending approval is withdrawn; an approved, unpaid one is left as it is.
Cancel(c) ==
    /\ case[c].status \in {"draft", "submitted"}
    /\ case' = [case EXCEPT ![c].status = "cancelled",
                            ![c].approval = IF @ = "pending" THEN "withdrawn" ELSE @]
    /\ UNCHANGED <<due, opening, asked, payment, deduction>>

-----------------------------------------------------------------------------
(* Payments, deductions and their reversal. *)

\* create_payment by hand.  A deposit may be paid before the prices of its order
\* are known.
CreatePayment(k, s, a) ==
    /\ payment[k].state = "none"
    /\ IF due[s] = Unknown THEN s \in Order ELSE Fits(s, a, {})
    /\ payment' = [payment EXCEPT ![k] = [state |-> "effective", source |-> s, amount |-> a]]
    /\ UNCHANGED <<due, opening, asked, case, deduction>>

\* The deductions that count against a deposit.
UsesOf(k) ==
    {x \in Deduction : deduction[x].state = "effective" /\ deduction[x].deposit = k}

Used(k) == SumOver([x \in Deduction |-> deduction[x].amount], UsesOf(k))

ReversePayment_InUse(k) ==
    /\ payment[k].state = "effective"
    /\ k \in Line => CaseOf[k] \in Single
    /\ payment' = [payment EXCEPT ![k].state = "reversed"]
    /\ UNCHANGED <<due, opening, asked, case, deduction>>

ReversePayment_LineOfBatch(k) ==
    /\ payment[k].state = "effective"
    /\ UsesOf(k) = {}
    /\ payment' = [payment EXCEPT ![k].state = "reversed"]
    /\ UNCHANGED <<due, opening, asked, case, deduction>>

\* reverse_payment: not a line of a batch, and not a deposit in use.
ReversePayment(k) ==
    /\ payment[k].state = "effective"
    /\ k \in Line => CaseOf[k] \in Single
    /\ UsesOf(k) = {}
    /\ payment' = [payment EXCEPT ![k].state = "reversed"]
    /\ UNCHANGED <<due, opening, asked, case, deduction>>

\* reverse of a batch: all its lines; the batch stays paid.
ReverseBatch(b) ==
    /\ case[b].status = "paid"
    /\ \A r \in LinesOf(b) : payment[r].state = "effective"
    /\ payment' = [k \in Payment |-> IF k \in LinesOf(b)
                                     THEN [payment[k] EXCEPT !.state = "reversed"]
                                     ELSE payment[k]]
    /\ UNCHANGED <<due, opening, asked, case, deduction>>

ApplyPrepayment_Unreserved(x, k, p, a) ==
    /\ deduction[x].state = "none"
    /\ payment[k].state = "effective" /\ payment[k].source = OrderOf[p]
    /\ a + Used(k) <= payment[k].amount
    /\ due[p] # Unknown /\ a <= Remaining(p)
    /\ deduction' = [deduction EXCEPT ![x] =
                        [state |-> "effective", deposit |-> k, shipment |-> p, amount |-> a]]
    /\ UNCHANGED <<due, opening, asked, case, payment>>

\* A deposit on the order is deducted from what a shipment of it owes.
ApplyPrepayment(x, k, p, a) ==
    /\ deduction[x].state = "none"
    /\ payment[k].state = "effective" /\ payment[k].source = OrderOf[p]
    /\ a + Used(k) <= payment[k].amount
    /\ Fits(p, a, {})
    /\ deduction' = [deduction EXCEPT ![x] =
                        [state |-> "effective", deposit |-> k, shipment |-> p, amount |-> a]]
    /\ UNCHANGED <<due, opening, asked, case, payment>>

ReverseDeduction(x) ==
    /\ deduction[x].state = "effective"
    /\ deduction' = [deduction EXCEPT ![x].state = "reversed"]
    /\ UNCHANGED <<due, opening, asked, case, payment>>

-----------------------------------------------------------------------------
(* What changes under them. *)

\* save_fee: the fee of a domestic freight is revised, or becomes an estimate
\* again; not below what was paid.
SaveFee(s, d) ==
    /\ d # due[s]
    /\ Paid(s) > 0 => d # Unknown /\ d >= Paid(s)
    /\ due' = [due EXCEPT ![s] = d]
    /\ UNCHANGED <<opening, asked, case, payment, deduction>>

\* save_settlement: a total that was paid before, whatever it is, as long as the
\* shipment has had no payment and no deduction.
SaveSettlement(s, a) ==
    /\ due[s] # Unknown
    /\ \A k \in Payment : payment[k].source # s
    /\ \A x \in Deduction : deduction[x].shipment # s
    /\ opening' = [opening EXCEPT ![s] = a]
    /\ UNCHANGED <<due, asked, case, payment, deduction>>

-----------------------------------------------------------------------------
Next ==
    \/ \E c \in Case :
          \/ Draft(c) \/ Submit(c) \/ Upload(c) \/ Cancel(c)
          \/ Approve(c) \/ Confirm(c)
          \/ \E verdict \in {"rejected", "withdrawn"} : Decline(c, verdict)
    \/ \E k \in Register, s \in Source, a \in Amount : CreatePayment(k, s, a)
    \/ \E k \in Payment : ReversePayment(k)
    \/ \E b \in Batch : ReverseBatch(b)
    \/ \E x \in Deduction, k \in Payment, p \in Shipment, a \in Amount :
          ApplyPrepayment(x, k, p, a)
    \/ \E x \in Deduction : ReverseDeduction(x)
    \/ \E s \in Freight : \E d \in FirstDue[s] : SaveFee(s, d)
    \/ \E s \in Shipment, a \in Amount : SaveSettlement(s, a)

Spec == Init /\ [][Next]_vars

-----------------------------------------------------------------------------
\* Money leaves for a request when its approval says so, for all lines of a batch
\* or for none, and it comes back for all of them or for none; what is approved is
\* paid, but for the requests of before (_review_approval posts in the same
\* transaction; a line of a batch is not reversed alone).
PaidAsApproved ==
    \A c \in Case :
        /\ \A r \in LinesOf(c) : payment[r].state # "none" <=> case[c].status = "paid"
        /\ case[c].status = "paid" => case[c].approval = "approved"
        /\ case[c].approval = "approved" /\ c \notin Legacy => case[c].status = "paid"
        /\ c \in Batch => \A q, r \in LinesOf(c) : payment[q].state = payment[r].state

\* A deposit covers what is deducted from it, and is not taken back meanwhile.
DepositsBacked ==
    \A k \in Payment :
        /\ UsesOf(k) # {} => payment[k].state = "effective"
        /\ Used(k) <= payment[k].amount

Spent(s) == Paid(s) + Applied(s)

\* A step that pays, deducts or promises.
Charged(s) ==
    \/ Spent(s)' > Spent(s) /\ opening'[s] = opening[s]
    \/ Reserved(s, {})' > Reserved(s, {})

\* No payment, deduction or submission takes a source beyond what it owes, the
\* promises to others included, and no revision of a freight fee goes below what
\* was paid for it; only a historic total may do so.
NeverBeyondDue ==
    [][\A s \in Source :
          /\ Charged(s) =>
                due'[s] = Unknown \/ Spent(s)' + Reserved(s, {})' <= due'[s]
          /\ due'[s] # due[s] /\ Paid(s) > 0 =>
                due'[s] # Unknown /\ Paid(s) <= due'[s]]_vars
=============================================================================
