----------------------------- MODULE RiskEngine -----------------------------
(***************************************************************************)
(* RiskEngine.check of risk.py under the mandate of mandate.py: whether an *)
(* order is approved against the portfolio of an attested snapshot.  Rates *)
(* of the mandate are per cent; every rejection is a conjunct that fails.  *)
(*                                                                         *)
(* The terms further hold issuer, sector, etf, dte (days to expiry) and *)
(* verified (OCC-verified and not adjusted).                               *)
(***************************************************************************)
EXTENDS PortfolioLedger

IssuerLimit == 10
OneContractException == 15
EtfLimit == 20
SectorLimit == 25
DrawdownCspLimit == 25
MinimumFreeCash == 5
MaximumPotentialExposure == 95
MinimumOpeningDte == 14

NoFloor == -1

(* [instrument, side, quantity, intent, exitEntireHolding, saleFloor] *)
IsOrder(o) ==
    /\ o.instrument \in Instrument
    /\ o.side \in {"buy", "sell"}
    /\ o.quantity \in Nat \ {0}
    /\ o.intent \in {"open", "close", "assign"}
    /\ o.exitEntireHolding \in BOOLEAN
    /\ o.saleFloor \in Nat \cup {NoFloor}

IsOption(o) == terms[o.instrument].type # "share"

(* The portfolio has lost at least this share of its peak *)
DrawnDown(p, percent) == 100 * (p.peak - p.nav) >= percent * p.peak

(* Faulty variant: the second tier only halves capacity *)
NewRiskAllowedInTierTwo(p) == ~DrawnDown(p, 20)

NewRiskAllowed(p) == ~DrawnDown(p, 15)

CspLimit(p) == IF DrawnDown(p, 10) THEN DrawdownCspLimit ELSE CspCollateralLimit

(* Pounds of put strike, as the engine is given dollars per pound: it      *)
(* multiplies by the GBPUSD midpoint that operations.decide hands it.      *)
InPounds(dollars, mid) == dollars * mid

ExistingCollateral(p, mid) == InPounds(PutCollateral(p.replay), mid) + Reserved(p.replay)

Secured(o, mid) ==
    IF terms[o.instrument].type = "put" /\ o.side = "sell" /\ o.intent = "open"
    THEN InPounds(terms[o.instrument].strike * terms[o.instrument].multiplier * o.quantity, mid)
    ELSE 0

WithinCspCapacity(o, p, mid) ==
    100 * (ExistingCollateral(p, mid) + Secured(o, mid)) <= CspLimit(p) * p.nav

CoveredShares(p, underlying) ==
    SumFunction([i \in {j \in Short(p.replay, "call") : terms[j].underlying = underlying}
                     |-> Obliged(p.replay, i)])

(* Faulty variant: calls of other strikes do not use up the shares *)
WithinCoverOfContract(o, p) ==
    LET i == o.instrument
        shares == Shares(p.replay, terms[i].underlying)
    IN  Obliged(p.replay, i) + o.quantity * terms[i].multiplier
            <= (shares * CoveredCallFraction) \div 100

(* Faulty variant: every call may cover the whole holding *)
WithinCoverOfHolding(o, p) ==
    LET i == o.instrument IN
    CoveredShares(p, terms[i].underlying) + PendingCover(p.replay, terms[i].underlying)
        + o.quantity * terms[i].multiplier <= Shares(p.replay, terms[i].underlying)

WithinCover(o, p) ==
    LET i == o.instrument
        shares == Shares(p.replay, terms[i].underlying)
        maximum == IF o.exitEntireHolding THEN shares
                   ELSE (shares * CoveredCallFraction) \div 100
    IN  CoveredShares(p, terms[i].underlying) + PendingCover(p.replay, terms[i].underlying)
            + o.quantity * terms[i].multiplier <= maximum

(* A short opened with an option is a cash-secured put or a covered call *)
OpeningShortSecured(o, p, mid) ==
    IsOption(o) /\ o.side = "sell" /\ o.intent = "open" =>
        CASE terms[o.instrument].type = "put" -> WithinCspCapacity(o, p, mid)
          [] OTHER -> /\ WithinCover(o, p)
                      /\ o.saleFloor # NoFloor /\ terms[o.instrument].strike >= o.saleFloor

(* The engine has the marks of the snapshot's positions and no others: an  *)
(* instrument that is not held, or no longer, is worth nothing to it.      *)
MarkHeld(p, i) == IF i \in Held(p.replay) THEN MarkOf(p.replay, i) ELSE 0

Exposure(p, instruments) ==
    MapThenSumSet(LAMBDA i : Larger(p.replay.quantity[i], -p.replay.quantity[i])
                                 * terms[i].multiplier * MarkHeld(p, i), instruments)

TradeExposure(o, p, mid) ==
    LET i == o.instrument IN
    IF terms[i].type = "put" /\ o.side = "sell"
    THEN InPounds(terms[i].strike * terms[i].multiplier * o.quantity, mid)
    ELSE MarkHeld(p, i) * terms[i].multiplier * o.quantity

IssuerLimitOf(o) ==
    CASE IsOption(o) /\ o.quantity = 1 /\ ~terms[o.instrument].etf -> OneContractException
      [] terms[o.instrument].etf -> EtfLimit
      [] OTHER -> IssuerLimit

WithinExposure(o, p, mid) ==
    LET trade == TradeExposure(o, p, mid)
        Within(instruments, percent) ==
            100 * (Exposure(p, instruments) + trade) <= percent * p.nav
    IN  /\ Within({i \in Instrument : terms[i].issuer = terms[o.instrument].issuer}, IssuerLimitOf(o))
        /\ Within({i \in Instrument : terms[i].sector = terms[o.instrument].sector}, SectorLimit)
        /\ Within(Instrument, MaximumPotentialExposure)

(* Cash of existing puts is not set aside here, only that of this order *)
FreeCashLeft(o, p, mid) ==
    LET purchase == IF o.side = "buy" /\ o.intent = "open" THEN TradeExposure(o, p, mid) ELSE 0
        left == p.replay.cash - MapThenSumSet(LAMBDA s : s.cash, p.replay.pending)
                    - Secured(o, mid) - purchase
    IN  100 * left >= MinimumFreeCash * p.nav

Approves(o, p, mid) ==
    /\ terms[o.instrument].verified
    /\ o.intent = "open" => NewRiskAllowed(p)
    /\ IsOption(o) /\ o.intent = "open" => terms[o.instrument].dte >= MinimumOpeningDte
    /\ ~(IsOption(o) /\ o.side = "buy" /\ o.intent = "open")
    /\ ~IsOption(o) /\ o.side = "sell" => o.quantity <= p.replay.quantity[o.instrument]
    /\ OpeningShortSecured(o, p, mid)
    /\ WithinExposure(o, p, mid)
    /\ FreeCashLeft(o, p, mid)
=============================================================================
