----------------------------- MODULE MoonTaxMC -----------------------------
(* An instance for TLC: one extraction mined by two characters, and a      *)
(* payment of the first.                                                   *)
EXTENDS MoonTaxProperties

MCPayer == [p \in Payments |-> "c1"]
MCAmount == [p \in Payments |-> 2]
MCTax == [l \in Periods \X Characters |-> IF l[2] = "c1" THEN 2 ELSE 1]
MCFirstOwner == [c \in Characters |-> IF c = "c1" THEN "u1" ELSE "u2"]
MCWindows == {{}, Lines}
MCAllowed == Payments \X Periods
MCBillOrder == <<<<"q", "u1">>, <<"q", "u2">>, <<"q", "c1">>, <<"q", "c2">>>>

Symmetry == Permutations(Directors) \cup Permutations(Audits)
=============================================================================
