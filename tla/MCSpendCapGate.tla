--------------------------- MODULE MCSpendCapGate ---------------------------
(* Two runs on one cap of 2 per period, which together want more than the   *)
(* cap holds; the cfg says which of them are enforced.                      *)
EXTENDS SpendCapGate

CONSTANTS alice, usdc, default, r1, r2

MCKey == [account |-> alice, asset |-> usdc, permissionId |-> default]
MCRunKey == [r \in Runs |-> MCKey]
MCRunAmount == [r \in Runs |-> IF r = r2 THEN 2 ELSE 1]
MCLimits == {2}
MCPeriods == {2}
MCExpiries == {0, 1}
MCAmounts == {1}

=============================================================================
