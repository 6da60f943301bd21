---------------------------- MODULE MCMandateLoop ----------------------------
(* A fund of one hundred units; option contracts are on two shares.        *)
EXTENDS MandateLoop, TLC

CONSTANTS acme, lowCall, highCall, bobPut, fundPut

Share(name, isEtf) ==
    [type |-> "share", underlying |-> name, strike |-> 0, multiplier |-> 1,
     issuer |-> name, sector |-> name, etf |-> isEtf, dte |-> 0, verified |-> TRUE]

Option(optionType, name, price, isEtf) ==
    [type |-> optionType, underlying |-> name, strike |-> price, multiplier |-> 2,
     issuer |-> name, sector |-> name, etf |-> isEtf, dte |-> 30, verified |-> TRUE]

AllTerms == (acme :> Share("acme", FALSE)
             @@ lowCall :> Option("call", "acme", 4, FALSE)
             @@ highCall :> Option("call", "acme", 5, FALSE)
             @@ bobPut :> Option("put", "bob", 5, FALSE)
             @@ fundPut :> Option("put", "fund", 10, TRUE))

Terms == [i \in Instrument |-> AllTerms[i]]

Trade(i, direction, number, purpose) ==
    [instrument |-> i, side |-> direction, quantity |-> number, intent |-> purpose,
     exitEntireHolding |-> FALSE, saleFloor |-> 3]

SellToOpen(i) == Trade(i, "sell", 1, "open")
BuyToClose(i) == Trade(i, "buy", 1, "close")

OpenAndClose == {SellToOpen(i) : i \in {lowCall, highCall, bobPut}}
                    \cup {BuyToClose(lowCall), BuyToClose(bobPut)}
OpenTwoCalls == {SellToOpen(lowCall), SellToOpen(highCall)}
ExitByCalls == {[Trade(lowCall, "sell", 4, "open") EXCEPT !.exitEntireHolding = TRUE]}
SellToClose == {Trade(lowCall, "sell", 1, "close")}
SellPut == {SellToOpen(bobPut)}
SellFundPut == {SellToOpen(fundPut)}
=============================================================================
