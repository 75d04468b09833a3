--------------------------- MODULE MoonTaxLedger ---------------------------
(* The accounting rules of Moon Tax as operators on the rows of its tables  *)
(* (payments.py, auditor.py): what a decision, an adjustment, a rebuild or  *)
(* an exemption makes of payments, bills and periods.  A database is a      *)
(* function from row names to rows; a bill belongs to a period and to a     *)
(* billing key, an Auth user or a character.                                *)
EXTENDS Integers, Sequences, FiniteSetsExt, SequencesExt, TLC

CONSTANTS
  Users, Characters, Periods, Payments,
  Payer,      \* the character that paid a payment
  Amount,     \* the amount of a payment
  Tax,        \* the tax of a character's line in a period, 0 when it has none
  Allowed,    \* <<payment, period>>: the payment went to an allowed recipient
  BillOrder,  \* every possible bill, the oldest period first
  NoUser

Keys == Users \cup Characters
Bills == Periods \X Keys
Lines == {l \in Periods \X Characters : Tax[l] > 0}

ASSUME NamesAssumption ==
  /\ \A S \in {Users, Characters, Periods, Payments} : IsFiniteSet(S)
  /\ Characters # {}
ASSUME MoneyAssumption ==
  Amount \in [Payments -> Nat] /\ Tax \in [Periods \X Characters -> Nat]
ASSUME OrderAssumption == BillOrder \in Seq(Bills) /\ IsInjective(BillOrder)

Payment(p) == <<"payment", p>>
Bill(b) == <<"bill", b>>
Period(q) == <<"period", q>>
Line(l) == <<"line", l>>
Rows == {Payment(p) : p \in Payments} \cup {Bill(b) : b \in Bills}
          \cup {Period(q) : q \in Periods} \cup {Line(l) : l \in Lines}

NoTaxes == [b \in Bills |-> 0]
EmptyPayment == [present |-> FALSE, user |-> NoUser, status |-> "PENDING",
  auto |-> FALSE, taxes |-> NoTaxes, category |-> "none", rest |-> 0]
EmptyBill == [present |-> FALSE, user |-> NoUser, combined |-> FALSE, calculated |-> 0,
  adjustments |-> <<>>, adjustment |-> 0, due |-> 0, paid |-> 0, status |-> "OPEN"]
EmptyPeriod == [due |-> 0, paid |-> 0, settled |-> FALSE]
EmptyLine == [present |-> FALSE, user |-> NoUser, exempt |-> FALSE]

Outstanding(bill) == IF bill.due > bill.paid THEN bill.due - bill.paid ELSE 0
SumOf(f) == MapThenSumSet(LAMBDA x : f[x], DOMAIN f)
Allocated(db, b) == SumOf([p \in Payments |-> db[Payment(p)].taxes[b]])
ActiveTotal(adjustments) ==
  SumOf([i \in DOMAIN adjustments |-> IF adjustments[i].active THEN adjustments[i].amount ELSE 0])
AllocatedOf(payment) == payment.rest + SumOf(payment.taxes)
BillsOf(payment) == {b \in Bills : payment.taxes[b] > 0}
Decided(db, b) ==
  \/ Allocated(db, b) > 0
  \/ db[Bill(b)].adjustments # <<>>

(***************************************************************************)
(* recalculate_assessment and recalculate_period.  A bill without a        *)
(* calculated tax takes the effective one for it.                          *)
(***************************************************************************)
BillStatus(calculated, adjustment, due, paid) ==
  IF due = 0 THEN IF calculated > 0 /\ adjustment < 0 THEN "WAIVED" ELSE "EXEMPT"
  ELSE IF paid >= due THEN "PAID"
  ELSE IF paid > 0 THEN "PARTIAL" ELSE "OPEN"

RecalculatedBill(bill, paid) ==
  LET adjustment == ActiveTotal(bill.adjustments)
      calculated == IF bill.calculated = 0 /\ bill.due # 0 /\ adjustment = 0
                    THEN bill.due ELSE bill.calculated
      due == Max({0, calculated + adjustment})
  IN [bill EXCEPT !.calculated = calculated, !.adjustment = adjustment, !.due = due,
        !.paid = paid, !.status = BillStatus(calculated, adjustment, due, paid)]

RecalculateBill(db, b) ==
  [db EXCEPT ![Bill(b)] = RecalculatedBill(@, Allocated(db, b))]
RecalculateBills(db, bills) ==
  [r \in Rows |-> IF \E b \in bills : r = Bill(b)
                  THEN RecalculatedBill(db[r], Allocated(db, r[2])) ELSE db[r]]

BillsOfPeriod(db, q) == {b \in {q} \X Keys : db[Bill(b)].present}
PeriodTotals(db, q) ==
  [due |-> SumOf([b \in BillsOfPeriod(db, q) |-> db[Bill(b)].due]),
   paid |-> SumOf([b \in BillsOfPeriod(db, q) |-> db[Bill(b)].paid]),
   settled |-> /\ BillsOfPeriod(db, q) # {}
               /\ \A b \in BillsOfPeriod(db, q) : db[Bill(b)].due <= db[Bill(b)].paid]
RecalculatePeriods(db, bills) ==
  [r \in Rows |-> IF \E b \in bills : r = Period(b[1])
                  THEN PeriodTotals(db, r[2]) ELSE db[r]]
Recalculate(db, bills) == RecalculatePeriods(RecalculateBills(db, bills), bills)

(***************************************************************************)
(* Decisions on a payment: decide_payment and what it calls.               *)
(***************************************************************************)
Dispositions == {"pending", "reject", "oldest_carryover", "oldest_overage", "donation", "ignore"}

(* The bills select_for_update returns: those the payment is allocated to  *)
(* and, for a decision, all of its subject.                                *)
SubjectBills(db, p) ==
  LET payment == db[Payment(p)]
  IN {b \in Bills : /\ db[Bill(b)].present
                    /\ IF payment.user # NoUser THEN db[Bill(b)].user = payment.user
                       ELSE b[2] = Payer[p]}
(* Mutant: a decision locks only the bills the payment already pays.       *)
ContextBillsPaid(db, p, subject) == BillsOf(db[Payment(p)])
ContextBills(db, p, subject) ==
  BillsOf(db[Payment(p)]) \cup (IF subject THEN SubjectBills(db, p) ELSE {})

ClearAllocations(db, p) ==
  LET payment == db[Payment(p)]
  IN Recalculate(
       [db EXCEPT ![Payment(p)] = [@ EXCEPT !.taxes = NoTaxes, !.category = "none", !.rest = 0]],
       BillsOf(payment))

PaymentStatus(p, payment) ==
  IF AllocatedOf(payment) = 0 THEN
    IF payment.status \in {"REJECTED", "IGNORED", "EXEMPT"} THEN payment.status ELSE "PENDING"
  ELSE IF AllocatedOf(payment) < Amount[p] THEN "PARTIAL"
  ELSE IF BillsOf(payment) # {} THEN "APPROVED"
  ELSE CASE payment.category = "DONATION" -> "DONATION"
         [] payment.category = "IGNORED" -> "IGNORED"
         [] OTHER -> "OVERAGE"

RecalculatePayment(db, p) ==
  LET payment == db[Payment(p)]
  IN Recalculate([db EXCEPT ![Payment(p)] = [@ EXCEPT !.status = PaymentStatus(p, payment)]],
                 BillsOf(payment))

Eligible(db, p, b) ==
  /\ b \in SubjectBills(db, p)
  /\ db[Bill(b)].status \notin {"PAID", "EXEMPT"}
  /\ <<p, b[1]>> \in Allowed

(* Oldest unpaid extraction first; every bill is recalculated before use.  *)
Take(acc, p, b) ==
  LET fresh == RecalculateBill(acc.db, b)
      amount == Min({acc.left, Outstanding(fresh[Bill(b)])})
  IN IF acc.left > 0 /\ Eligible(acc.db, p, b)
     THEN [db |-> [fresh EXCEPT ![Payment(p)] = [@ EXCEPT !.taxes[b] = amount]],
           left |-> acc.left - amount]
     ELSE acc
AllocateOldest(db, p) ==
  FoldLeft(LAMBDA acc, b : Take(acc, p, b), [db |-> db, left |-> Amount[p]], BillOrder)

WithRest(db, p, category, rest) ==
  [db EXCEPT ![Payment(p)] =
     [@ EXCEPT !.category = IF rest > 0 THEN category ELSE "none", !.rest = rest]]
WithStatus(db, p, state) == [db EXCEPT ![Payment(p)] = [@ EXCEPT !.status = state, !.auto = FALSE]]

Decision(db, p, disposition) ==
  LET cleared == ClearAllocations(WithStatus(db, p, db[Payment(p)].status), p)
      oldest == AllocateOldest(cleared, p)
      category == IF disposition = "oldest_carryover" THEN "CARRYOVER" ELSE "OVERAGE"
  IN CASE disposition = "pending" -> WithStatus(cleared, p, "PENDING")
       [] disposition = "reject" -> WithStatus(cleared, p, "REJECTED")
       [] disposition = "donation" ->
            RecalculatePayment(WithRest(cleared, p, "DONATION", Amount[p]), p)
       [] disposition = "ignore" ->
            RecalculatePayment(WithRest(cleared, p, "IGNORED", Amount[p]), p)
       [] OTHER -> RecalculatePayment(WithRest(oldest.db, p, category, oldest.left), p)
Decisions(db, payments, disposition) ==
  FoldLeft(LAMBDA x, p : Decision(x, p, disposition), db, SetToSeq(payments))

(***************************************************************************)
(* Exemptions.  An index is what ExemptionIndex reads once: the exempt     *)
(* users and characters and the owner of every character.                  *)
(***************************************************************************)
UserFor(index, c, stored) == IF index.owner[c] # NoUser THEN index.owner[c] ELSE stored
Matches(index, c, stored) ==
  \/ c \in index.exempt
  \/ UserFor(index, c, stored) \in index.exempt

(* Mutant: an excluded payment keeps its allocations.                      *)
ExcludeOnly(db, p) ==
  [db EXCEPT ![Payment(p)] = [@ EXCEPT !.status = "EXEMPT", !.auto = TRUE]]
Exclude(db, p) ==
  [ClearAllocations(db, p) EXCEPT ![Payment(p)] = [@ EXCEPT !.status = "EXEMPT", !.auto = TRUE]]
Restore(db, p) ==
  IF db[Payment(p)].auto
  THEN [ClearAllocations(db, p) EXCEPT ![Payment(p)] = [@ EXCEPT !.status = "PENDING", !.auto = FALSE]]
  ELSE db
Relinked(db, p, user) == [db EXCEPT ![Payment(p)] = [@ EXCEPT !.user = user]]

(***************************************************************************)
(* The rebuild of the bills of a period from its lines.                    *)
(***************************************************************************)
LockedCharacters(db, q) ==
  {c \in Characters : /\ db[Bill(<<q, c>>)].present
                      /\ Decided(db, <<q, c>>)}
DecidedOrder(db, q, u) ==
  SelectSeq(BillOrder, LAMBDA b : /\ b[1] = q
                                  /\ db[Bill(b)].present
                                  /\ db[Bill(b)].user = u
                                  /\ Decided(db, b))
Combined(db, q, u, combine) ==
  IF DecidedOrder(db, q, u) # <<>> THEN db[Bill(DecidedOrder(db, q, u)[1])].combined ELSE combine[u]
KeyOf(db, l, combine) ==
  LET u == db[Line(l)].user
  IN IF u # NoUser /\ l[2] \notin LockedCharacters(db, l[1]) /\ Combined(db, l[1], u, combine)
     THEN u ELSE l[2]

LineTax(db, l) == IF db[Line(l)].exempt THEN 0 ELSE Tax[l]
LinesBilled(db, b, combine) ==
  {l \in Lines : l[1] = b[1] /\ db[Line(l)].present /\ KeyOf(db, l, combine) = b[2]}

(* update_or_create: what a bill becomes before it is recalculated.        *)
Rebilled(db, b, lines) ==
  LET tax == SumOf([l \in lines |-> LineTax(db, l)])
  IN [db[Bill(b)] EXCEPT !.present = TRUE, !.user = db[Line(CHOOSE l \in lines : TRUE)].user,
        !.combined = b[2] \in Users, !.calculated = tax, !.due = tax]
(* Mutant: adjustments do not keep a bill.                                 *)
RetiredUnlessPaid(db, b) ==
  IF db[Bill(b)].present /\ Allocated(db, b) > 0
  THEN [db[Bill(b)] EXCEPT !.status = "REVIEW"] ELSE EmptyBill
(* A bill no line belongs to any more: kept for review when it carries a   *)
(* decision, deleted otherwise.                                            *)
Retired(db, b) ==
  IF db[Bill(b)].present /\ Decided(db, b) THEN [db[Bill(b)] EXCEPT !.status = "REVIEW"] ELSE EmptyBill

RebuiltBill(db, b, combine) ==
  LET lines == LinesBilled(db, b, combine)
  IN IF lines # {} THEN RecalculatedBill(Rebilled(db, b, lines), Allocated(db, b)) ELSE Retired(db, b)

(* Mutant: the periods are not recalculated.                               *)
RebuildBills(db, combine) ==
  [r \in Rows |-> IF r[1] = "bill" THEN RebuiltBill(db, r[2], combine) ELSE db[r]]
RebuildAssessments(db, combine) ==
  RecalculatePeriods(
    [r \in Rows |-> IF r[1] = "bill" THEN RebuiltBill(db, r[2], combine) ELSE db[r]], Bills)
=============================================================================
