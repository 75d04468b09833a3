--------------------------- MODULE MoonTaxBilling ---------------------------
(* The transactions of Moon Tax and how they interleave: directors decide   *)
(* payments, adjust bills and reverse adjustments (views.py, payments.py),  *)
(* administrators edit payments (admin.py) and audits rebuild the accounts  *)
(* (tasks.py, auditor.py).  READ COMMITTED: a statement reads the committed *)
(* rows and its own writes; SELECT FOR UPDATE and UPDATE take row locks     *)
(* held until the transaction ends.  A lock statement is taken whole when   *)
(* its rows are free, and a waiting transaction may be rolled back.         *)
EXTENDS MoonTaxLedger

CONSTANTS
  Directors, Audits,
  Debit,          \* the amount of a correction
  FirstOwner,     \* the owner of every character at first
  Windows,        \* the sets of lines the ledger may show to an audit
  Exemptable,     \* the users and characters an exemption may name
  MaxAdjustments, \* bound: adjustments of a bill
  MaxDecisions,   \* bound: operations of directors
  MaxEvents       \* bound: changes of exemptions, owners and preferences

ASSUME DebitAssumption == Debit \in Nat

VARIABLES
  saved,      \* the committed rows
  held,       \* the rows a transaction holds locks on
  writes,     \* its uncommitted rows
  task,       \* where a transaction is and what it has read
  audit,      \* the status of an audit run
  exempt,     \* the users and characters exempt now
  owner,      \* the Auth owner of every character now
  combine,    \* whether an account is billed as one
  rechecked,  \* TaxConfiguration.exemption_state_hash
  decisions, events

billing == <<saved, held, writes, task, audit, exempt, owner, combine, rechecked, decisions, events>>
environment == <<exempt, owner, combine, events>>

Tasks == Directors \cup Audits
Idle == [at |-> "idle"]
Index == [exempt |-> exempt, owner |-> owner]
ActiveStatuses == {"QUEUED", "REFRESHING", "RUNNING"}

BillingInit ==
  /\ saved = [r \in Rows |-> CASE r[1] = "payment" -> EmptyPayment
                               [] r[1] = "bill" -> EmptyBill
                               [] r[1] = "period" -> EmptyPeriod
                               [] r[1] = "line" -> EmptyLine]
  /\ held = [t \in Tasks |-> {}]
  /\ writes = [t \in Tasks |-> <<>>]
  /\ task = [t \in Tasks |-> Idle]
  /\ audit = [a \in Audits |-> "none"]
  /\ exempt \in SUBSET Exemptable
  /\ owner = FirstOwner
  /\ combine = [u \in Users |-> TRUE]
  /\ rechecked = [exempt |-> {}, owner |-> [c \in Characters |-> NoUser]]
  /\ decisions = 0 /\ events = 0

(***************************************************************************)
(* Transactions.                                                           *)
(***************************************************************************)
View(t) == [r \in Rows |-> IF r \in DOMAIN writes[t] THEN writes[t][r] ELSE saved[r]]
Unlocked(t, locks) == \A u \in Tasks \ {t} : held[u] \cap locks = {}
BillAndPeriodRows(bills) == {Bill(b) : b \in bills} \cup {Period(b[1]) : b \in bills}
Stage(t, at) == task[t].at = at
Changed(db) == [r \in {r \in Rows : db[r] # saved[r]} |-> db[r]]

End(t) ==
  /\ held' = [held EXCEPT ![t] = {}]
  /\ writes' = [writes EXCEPT ![t] = <<>>]
  /\ task' = [task EXCEPT ![t] = Idle]
Commit(t, db) == saved' = db /\ End(t)
Write(t, locks, db, next) ==
  /\ Unlocked(t, locks)
  /\ held' = [held EXCEPT ![t] = @ \cup locks]
  /\ writes' = [writes EXCEPT ![t] = Changed(db)]
  /\ task' = [task EXCEPT ![t] = next]
  /\ saved' = saved

(* A deadlock, a lock timeout or a lost connection rolls the transaction   *)
(* back; execute_audit records the failure of an audit.                    *)
Rollback(t) ==
  /\ held[t] # {}
  /\ End(t)
  /\ audit' = IF t \in Audits THEN [audit EXCEPT ![t] = "FAILED"] ELSE audit
  /\ UNCHANGED <<saved, rechecked, decisions, environment>>

(***************************************************************************)
(* Directors.                                                              *)
(***************************************************************************)
Begin(d) ==
  /\ Stage(d, "idle")
  /\ decisions < MaxDecisions
  /\ decisions' = decisions + 1
  /\ UNCHANGED <<audit, rechecked, environment>>

(* decide_payment_view and bulk_decide_payments: the payments are locked   *)
(* first, all of them for a bulk decision.  The form has read them before, *)
(* so that one may have been exempted since.                               *)
LockPayments(d, payments, disposition) ==
  /\ Begin(d)
  /\ payments # {}
  /\ \A p \in payments : saved[Payment(p)].present
  /\ Write(d, {Payment(p) : p \in payments}, saved,
           [at |-> "decide", payments |-> payments, disposition |-> disposition])

Decide(d) ==
  LET bills == UNION {ContextBills(saved, p, TRUE) : p \in task[d].payments}
  IN /\ Stage(d, "decide")
     /\ \A p \in task[d].payments : saved[Payment(p)].status # "EXEMPT"
     /\ Unlocked(d, BillAndPeriodRows(bills))
     /\ Commit(d, Decisions(saved, task[d].payments, task[d].disposition))
     /\ UNCHANGED <<audit, rechecked, decisions, environment>>
(* "A system-excluded exempt payment cannot be manually reclassified."     *)
DecideRefused(d) ==
  /\ Stage(d, "decide")
  /\ \E p \in task[d].payments : saved[Payment(p)].status = "EXEMPT"
  /\ End(d)
  /\ UNCHANGED <<saved, audit, rechecked, decisions, environment>>

(* create_assessment_adjustment locks the bill only.                       *)
AdjustmentOf(bill, action) ==
  CASE action = "WAIVE_BALANCE" -> -Outstanding(bill)
    [] action = "VOID_BILL" -> IF bill.paid > 0 THEN 0 ELSE -bill.due
    [] action = "CREDIT" -> -Debit
    [] action = "DEBIT" -> Debit
AdjustBill(d, b, action) ==
  LET fresh == RecalculateBill(saved, b)
      amount == AdjustmentOf(fresh[Bill(b)], action)
      adjusted == [fresh EXCEPT ![Bill(b)].adjustments =
                     Append(@, [amount |-> amount, active |-> TRUE])]
  IN /\ Begin(d)
     /\ saved[Bill(b)].present
     /\ Len(saved[Bill(b)].adjustments) < MaxAdjustments
     /\ amount # 0
     /\ Write(d, {Bill(b)}, RecalculateBill(adjusted, b), [at |-> "adjusted", period |-> b[1]])
ReadPeriod(d) ==
  /\ Stage(d, "adjusted")
  /\ task' = [task EXCEPT ![d] =
                [at |-> "totalled", period |-> @.period, totals |-> PeriodTotals(View(d), @.period)]]
  /\ UNCHANGED <<saved, held, writes, audit, rechecked, decisions, environment>>
SavePeriod(d) ==
  /\ Stage(d, "totalled")
  /\ Unlocked(d, {Period(task[d].period)})
  /\ Commit(d, [View(d) EXCEPT ![Period(task[d].period)] = task[d].totals])
  /\ UNCHANGED <<audit, rechecked, decisions, environment>>

(* reverse_assessment_adjustment locks the adjustment, its bill and its    *)
(* period in one statement.                                                *)
ReverseAdjustment(d, b, i) ==
  /\ Begin(d)
  /\ saved[Bill(b)].adjustments[i].active
  /\ Unlocked(d, BillAndPeriodRows({b}))
  /\ Commit(d, Recalculate([saved EXCEPT ![Bill(b)] = [@ EXCEPT !.adjustments[i].active = FALSE]], {b}))

(* The payment form of the administration: the row is read when the form   *)
(* is posted and written back whole; its allocations are replaced under    *)
(* the locks of a decision.                                                *)
OpenPayment(d, p) ==
  /\ Begin(d)
  /\ saved[Payment(p)].present
  /\ task' = [task EXCEPT ![d] = [at |-> "editing", payment |-> p, row |-> saved[Payment(p)]]]
  /\ UNCHANGED <<saved, held, writes>>
SavePayment(d, taxes, category, rest) ==
  LET p == task[d].payment
      written == [task[d].row EXCEPT !.taxes = taxes, !.category = category, !.rest = rest]
      bills == BillsOf(saved[Payment(p)]) \cup BillsOf(written)
  IN /\ Stage(d, "editing")
     /\ AllocatedOf(written) <= Amount[p]
     /\ \A b \in BillsOf(written) : saved[Bill(b)].present /\ <<p, b[1]>> \in Allowed
     /\ Unlocked(d, {Payment(p)} \cup BillAndPeriodRows(bills))
     /\ Commit(d, Recalculate(RecalculatePayment([saved EXCEPT ![Payment(p)] = written], p), bills))
     /\ UNCHANGED <<audit, rechecked, decisions, environment>>
KeepAllocations(d) ==
  Stage(d, "editing") /\ LET row == saved[Payment(task[d].payment)]
                      IN SavePayment(d, row.taxes, row.category, row.rest)

(***************************************************************************)
(* Audits.                                                                 *)
(***************************************************************************)
(* run_audit and run_scheduled_audit: no run is active, or the active ones *)
(* are old enough to be failed; the new run is created after the check.    *)
CheckAudits(a) ==
  /\ audit[a] = "none" /\ Stage(a, "idle")
  /\ \A other \in Audits : audit[other] \notin ActiveStatuses
  /\ task' = [task EXCEPT ![a] = [at |-> "checked"]]
  /\ UNCHANGED <<saved, held, writes, audit, rechecked, decisions, environment>>
CreateAudit(a) ==
  /\ Stage(a, "checked")
  /\ audit' = [audit EXCEPT ![a] = "QUEUED"]
  /\ task' = [task EXCEPT ![a] = [at |-> "queued"]]
  /\ UNCHANGED <<saved, held, writes, rechecked, decisions, environment>>
ExpireStale(a) ==
  /\ audit[a] \in ActiveStatuses
  /\ audit' = [audit EXCEPT ![a] = "FAILED"]
  /\ UNCHANGED <<saved, held, writes, task, rechecked, decisions, environment>>
(* Neither task looks at the status of its run.                            *)
RefreshSources(a) ==
  /\ Stage(a, "queued")
  /\ audit' = [audit EXCEPT ![a] = "REFRESHING"]
  /\ task' = [task EXCEPT ![a] = [at |-> "refreshed"]]
  /\ UNCHANGED <<saved, held, writes, rechecked, decisions, environment>>

(* reconcile reads the exemptions and the configuration first.             *)
ExecuteAudit(a) ==
  /\ Stage(a, "refreshed")
  /\ task' = [task EXCEPT ![a] = [at |-> "reconcile", index |-> Index, full |-> rechecked # Index]]
  /\ UNCHANGED <<saved, held, writes, audit, rechecked, decisions, environment>>

(* synchronize_periods saves every period; the lines the ledger shows are  *)
(* written, and on a full recheck all preserved ones.                      *)
SynchronizeLines(a, shown) ==
  LET index == task[a].index
      written == shown \cup {l \in Lines : task[a].full /\ saved[Line(l)].present}
      Row(l) == LET user == UserFor(index, l[2], IF l \in shown THEN NoUser ELSE saved[Line(l)].user)
                IN [present |-> TRUE, user |-> user, exempt |-> Matches(index, l[2], user)]
  IN /\ Stage(a, "reconcile")
     /\ Write(a, {Period(q) : q \in Periods} \cup {Line(l) : l \in Lines},
              [r \in Rows |-> IF \E l \in written : r = Line(l) THEN Row(r[2]) ELSE saved[r]],
              [task[a] EXCEPT !.at = "rebuild"])
     /\ UNCHANGED <<audit, rechecked, decisions, environment>>

Rebuild(a) ==
  /\ Stage(a, "rebuild")
  /\ Write(a, {Bill(b) : b \in Bills}, RebuildAssessments(View(a), combine),
           [task[a] EXCEPT !.at = "import"])
  /\ UNCHANGED <<audit, rechecked, decisions, environment>>

(* import_payment_candidates, and the decision reconcile_payment_exemptions *)
(* takes from the rows it reads without a lock.                            *)
PaymentAction(index, p, row) ==
  LET user == UserFor(index, Payer[p], row.user)
  IN IF Matches(index, Payer[p], row.user)
     THEN IF row.status # "EXEMPT" \/ ~row.auto \/ user # row.user THEN "exclude" ELSE "none"
     ELSE IF row.status = "EXEMPT" /\ row.auto THEN "restore"
     ELSE IF user # row.user THEN "relink" ELSE "none"
ImportPayments(a, imported) ==
  LET db == [r \in Rows |-> IF \E p \in imported : r = Payment(p)
                            THEN [EmptyPayment EXCEPT !.present = TRUE, !.user = owner[Payer[r[2]]]]
                            ELSE View(a)[r]]
      scope == imported \cup {p \in Payments : task[a].full /\ saved[Payment(p)].present}
      actions == [p \in scope |-> PaymentAction(task[a].index, p, db[Payment(p)])]
  IN /\ Stage(a, "import")
     /\ \A p \in imported : ~saved[Payment(p)].present
     /\ Write(a, {Payment(p) : p \in imported}, db,
              [at |-> "payments", index |-> task[a].index, full |-> task[a].full,
               scope |-> scope, actions |-> actions])
     /\ UNCHANGED <<audit, rechecked, decisions, environment>>

Reconciled(run, db, p) ==
  LET linked == Relinked(db, p, UserFor(run.index, Payer[p], db[Payment(p)].user))
  IN CASE run.actions[p] = "exclude" -> Exclude(linked, p)
       [] run.actions[p] = "restore" -> IF db[Payment(p)].auto THEN Restore(linked, p) ELSE db
       [] run.actions[p] = "relink" -> linked
       [] OTHER -> db
AllReconciled(run, db, payments) ==
  FoldLeft(LAMBDA x, p : Reconciled(run, x, p), db, SetToSeq(payments))
ReconcilePayments(a) ==
  LET touched == {p \in task[a].scope : task[a].actions[p] # "none"}
  IN /\ Stage(a, "payments")
     /\ Write(a, {Payment(p) : p \in touched}, AllReconciled(task[a], View(a), touched),
              [task[a] EXCEPT !.at = "notify"])
     /\ UNCHANGED <<audit, rechecked, decisions, environment>>
CommitAudit(a) ==
  /\ Stage(a, "notify")
  /\ Commit(a, View(a))
  /\ rechecked' = task[a].index
  /\ audit' = [audit EXCEPT ![a] = "COMPLETE"]
  /\ UNCHANGED <<decisions, environment>>

(***************************************************************************)
(* Exemptions, character ownership and billing preferences change.         *)
(***************************************************************************)
Event == events < MaxEvents /\ events' = events + 1
         /\ UNCHANGED <<saved, held, writes, task, audit, rechecked, decisions>>
ChangeExemption(x) ==
  /\ Event
  /\ exempt' = IF x \in exempt THEN exempt \ {x} ELSE exempt \cup {x}
  /\ UNCHANGED <<owner, combine>>
ChangeOwner(c, u) ==
  /\ Event
  /\ owner[c] # u /\ owner' = [owner EXCEPT ![c] = u]
  /\ UNCHANGED <<exempt, combine>>
ChangePreference(u) ==
  /\ Event
  /\ combine' = [combine EXCEPT ![u] = ~@]
  /\ UNCHANGED <<exempt, owner>>

Decides(d) ==
  \/ \E payments \in SUBSET Payments, disposition \in Dispositions :
       LockPayments(d, payments, disposition)
  \/ Decide(d) \/ DecideRefused(d)
Adjusts(d) ==
  \/ \E b \in Bills, action \in {"WAIVE_BALANCE", "VOID_BILL", "CREDIT", "DEBIT"} :
       AdjustBill(d, b, action)
  \/ ReadPeriod(d) \/ SavePeriod(d)
  \/ \E b \in Bills : \E i \in DOMAIN saved[Bill(b)].adjustments : ReverseAdjustment(d, b, i)
Edits(d) ==
  \/ \E p \in Payments : OpenPayment(d, p)
  \/ \E b \in Bills : SavePayment(d, [NoTaxes EXCEPT ![b] = 1], "none", 0)
  \/ SavePayment(d, NoTaxes, "DONATION", 1)
  \/ KeepAllocations(d)
Reconciles(a) ==
  \/ CheckAudits(a) \/ CreateAudit(a) \/ ExpireStale(a) \/ RefreshSources(a)
  \/ ExecuteAudit(a)
  \/ \E shown \in Windows : SynchronizeLines(a, shown)
  \/ Rebuild(a)
  \/ \E imported \in SUBSET Payments : ImportPayments(a, imported)
  \/ ReconcilePayments(a) \/ CommitAudit(a)
Environment ==
  \/ \E x \in Exemptable : ChangeExemption(x)
  \/ \E c \in Characters, u \in Users : ChangeOwner(c, u)
  \/ \E u \in Users : ChangePreference(u)

BillingNext ==
  \/ \E d \in Directors : Decides(d) \/ Adjusts(d) \/ Edits(d)
  \/ \E a \in Audits : Reconciles(a)
  \/ \E t \in Tasks : Rollback(t)
  \/ Environment
BillingSpec == BillingInit /\ [][BillingNext]_billing
=============================================================================
