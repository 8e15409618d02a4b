--------------------------- MODULE MCBudgetLedger ---------------------------
(* Instances of BudgetLedger for TLC. *)
EXTENDS BudgetLedger, TLC

CONSTANTS a1, a2, a3

ThreeAttempts == {a1, a2, a3}
\* Two large estimates do not fit together, a large and a small one just do.
ThreeEstimates == (a1 :> 3) @@ (a2 :> 3) @@ (a3 :> 1)

TwoAttempts == {a1, a2}
TwoEstimates == (a1 :> 2) @@ (a2 :> 2)

LargeAttempts == Permutations({a1, a2})

=============================================================================
