------------------------- MODULE MoonTaxProperties -------------------------
(* What Moon Tax promises about its accounts.                              *)
EXTENDS MoonTaxBilling

(* The cached totals of a bill are those of its allocations and active     *)
(* adjustments.                                                            *)
BillAddsUp(b) ==
  LET bill == saved[Bill(b)]
  IN /\ bill.paid = Allocated(saved, b)
     /\ bill.adjustment = ActiveTotal(bill.adjustments)
     /\ bill.due = Max({0, bill.calculated + bill.adjustment})
     /\ ~bill.present => bill = EmptyBill
BillsAddUp == \A b \in Bills : BillAddsUp(b)

(* A payment is never spent twice, and one excluded by an exemption pays   *)
(* for nothing.                                                            *)
PaymentsSpentOnce ==
  \A p \in Payments :
    /\ AllocatedOf(saved[Payment(p)]) <= Amount[p]
    /\ saved[Payment(p)].status = "EXEMPT" => AllocatedOf(saved[Payment(p)]) = 0

(* When an audit commits, the totals of every period are those of its      *)
(* bills, whatever else is still open.                                     *)
AuditSettles ==
  [][\A a \in Audits : CommitAudit(a) =>
       \A q \in Periods : saved'[Period(q)] = PeriodTotals(saved', q)]_billing

(* A decision takes from a payment no more than a bill still owes.         *)
DecisionTakesOnlyDebt ==
  [][\A d \in Directors : Decide(d) =>
       \A b \in Bills : saved'[Bill(b)].paid > saved[Bill(b)].paid =>
                          saved'[Bill(b)].paid <= saved'[Bill(b)].due]_billing

(* A bill that carries a decision outlives every rebuild.                  *)
DecidedBillsSurvive ==
  [][\A b \in Bills : saved[Bill(b)].present /\ Decided(saved, b) => saved'[Bill(b)].present]_billing

(* The decisions of directors are exact, and audits keep them.             *)
DecisionsHold == DecisionTakesOnlyDebt /\ DecidedBillsSurvive
=============================================================================
