------------------------- MODULE MCPortfolioLedger -------------------------
(* Ten units of starting cash; contracts of one share each.                *)
EXTENDS PortfolioLedger, TLC

CONSTANTS stock, put

Option(optionType, price) ==
    [type |-> optionType, underlying |-> "stock", strike |-> price, multiplier |-> 1]

Terms == (stock :> Option("share", 0) @@ put :> Option("put", 8))

OneSubmission == {[id |-> "s1", underlying |-> "stock", collateral |-> 2, covered |-> 0]}

SellOrTopUp == {-7, 1}
=============================================================================
