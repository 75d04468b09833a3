SPECIFICATION BillingSpec
CONSTANTS
  Users = {"u1", "u2"}
  Characters = {"c1", "c2"}
  Periods = {"q"}
  Payments = {"p"}
  NoUser = "nobody"
  Payer <- MCPayer
  Amount <- MCAmount
  Tax <- MCTax
  Allowed <- MCAllowed
  BillOrder <- MCBillOrder
  Directors = {d1, d2}
  Audits = {a1, a2}
  Debit = 1
  FirstOwner <- MCFirstOwner
  Windows <- MCWindows
  Exemptable = {"c1"}
  MaxAdjustments = 1
  MaxDecisions = 2
  MaxEvents = 1
INVARIANTS BillsAddUp PaymentsSpentOnce
PROPERTIES AuditSettles DecisionsHold
SYMMETRY Symmetry
CHECK_DEADLOCK FALSE
