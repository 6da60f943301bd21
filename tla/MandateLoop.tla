----------------------------- MODULE MandateLoop -----------------------------
(***************************************************************************)
(* The trading loop around one portfolio ledger: an order is approved by   *)
(* the risk engine against the latest attested snapshot (decision-collect),*)
(* its submission may be recorded as pending, its fill is recorded, and    *)
(* portfolio-collect attests the continued ledger.                         *)
(*                                                                         *)
(* Nothing in src/ writes ledger records: the one who does is external,    *)
(* and here a careful one.  Each fill is booked at the instrument's mark,  *)
(* each snapshot is preceded by a fresh FX and a valuation record, and     *)
(* marks and shares change only between trades.                            *)
(***************************************************************************)
EXTENDS RiskEngine, Sequences

CONSTANTS
    Order,           \* orders that proposals make
    Rate,            \* the GBPUSD midpoint of the whole run
    Premium,         \* price of an instrument that has no mark yet
    CloseHeldOnly,   \* whether proposals close only positions that are there
    Purchase,        \* numbers of shares that are bought at once
    MaxTrades,       \* bound: decisions taken
    MaxOutstanding   \* bound: submissions the latest snapshot knows nothing of

ASSUME LoopAssumption ==
    /\ \A o \in Order : IsOrder(o)
    /\ CloseHeldOnly \in BOOLEAN
    /\ Rate \in Nat \ {0} /\ Premium \in Nat /\ Purchase \subseteq Int
    /\ MaxTrades \in Nat /\ MaxOutstanding \in Nat

(* Reservations that Reservation makes *)
Pendings ==
    [id : Nat, underlying : {terms[i].underlying : i \in Instrument},
     cash : Int, collateral : Int, covered : Int]

(* Replays of ledgers whose latest fills may have overdrawn the cash *)
Books ==
    [cash : Int, peak : Nat, quantity : [Instrument -> Int],
     mark : [Instrument -> Nat \cup {Unmarked}], pending : SUBSET Pendings,
     fx : [mid : Nat, at : Nat], valuedAt : Nat \cup {NotValued}, length : Nat]

(* That nothing was attested is no snapshot *)
ASSUME SnapshotAssumption == NoSnapshot \notin [replay : Books, nav : Int, peak : Nat]

VARIABLE trades  \* decisions in order: [order, status, booked]

loopVars == <<working, head, highest, trades>>

Status == {"submitted", "pending", "filled"}

(* Submissions that no attested snapshot reflects yet *)
Outstanding == {k \in DOMAIN trades : ~trades[k].booked}

Unfilled == {k \in DOMAIN trades : trades[k].status # "filled"}

Settled == working = head.replay /\ Outstanding = {}

LoopInit == Init /\ trades = << >>

Open == Bootstrap /\ UNCHANGED trades

(* What a proposer may be expected to look at; the engine does not         *)
Proposed(o) ==
    CloseHeldOnly /\ o.intent = "close" =>
        /\ Settled /\ Unfilled = {}
        /\ o.side = "buy" /\ o.quantity <= -head.replay.quantity[o.instrument]

(* decision-collect: a decision and its submission, nothing else *)
Decide(o) ==
    /\ head # NoSnapshot
    /\ Len(trades) < MaxTrades /\ Cardinality(Outstanding) < MaxOutstanding
    /\ Proposed(o) /\ Approves(o, head, Rate)
    /\ trades' = Append(trades, [order |-> o, status |-> "submitted", booked |-> FALSE])
    /\ UNCHANGED <<working, head, highest>>

(* The reservation that a pending_submission record declares, in pounds *)
Reservation(k, o) ==
    LET i == o.instrument
        opens(type) == terms[i].type = type /\ o.side = "sell" /\ o.intent = "open"
        size == terms[i].multiplier * o.quantity
    IN  [id |-> k, underlying |-> terms[i].underlying, cash |-> 0,
         collateral |-> IF opens("put") THEN (size * terms[i].strike) \div Rate ELSE 0,
         covered |-> IF opens("call") THEN size ELSE 0]

(* Faulty variant: the trade takes on the kind of its record *)
ReserveByKind(k) ==
    /\ trades[k].status = "submitted"
    /\ working' = WithPending(working, Reservation(k, trades[k].order))
    /\ trades' = [trades EXCEPT ![k].status = "pending_submission"]
    /\ UNCHANGED <<head, highest>>

Reserve(k) ==
    /\ trades[k].status = "submitted"
    /\ working' = WithPending(working, Reservation(k, trades[k].order))
    /\ trades' = [trades EXCEPT ![k].status = "pending"]
    /\ UNCHANGED <<head, highest>>

PriceOf(i) == IF working.mark[i] = Unmarked THEN Premium ELSE working.mark[i]

Signed(o) == IF o.side = "buy" THEN o.quantity ELSE -o.quantity

(* The cash, position, mark and submission_resolved records of a fill *)
Filled(k) ==
    LET o == trades[k].order
        i == o.instrument
        price == PriceOf(i)
        paid == WithCash(working, -Signed(o) * terms[i].multiplier * price)
    IN  WithResolved(WithMark(WithPosition(paid, i, Signed(o)), i, price), Reservation(k, o))

Fill(k) ==
    /\ k \in Unfilled
    /\ working' = Filled(k)
    /\ trades' = [trades EXCEPT ![k].status = "filled"]
    /\ UNCHANGED <<head, highest>>

Valued(r) == WithValuation(WithFx(r, Rate, 0), 0)

(* portfolio-collect of the ledger as r's records continue it *)
Continue(r) ==
    /\ r.cash >= 0
    /\ Acceptable(Valued(r))
    /\ Attest(Valued(r))
    /\ working' = Valued(r)

Settle ==
    /\ head # NoSnapshot
    /\ Continue(working)
    /\ trades' = [k \in DOMAIN trades |->
                     [trades[k] EXCEPT !.booked = (@ \/ trades[k].status # "submitted")]]

(* The market moves between trades *)
Move(i, mark) ==
    /\ head # NoSnapshot /\ Settled
    /\ i \in Held(working)
    /\ Continue(WithMark(working, i, mark))
    /\ UNCHANGED trades

(* Shares are bought (or sold), at their mark, between trades *)
Invest(i, number) ==
    /\ head # NoSnapshot /\ Settled /\ Unfilled = {}
    /\ terms[i].type = "share"
    /\ working.quantity[i] + number \in 0 .. MaxQuantity
    /\ LET cost == number * terms[i].multiplier * PriceOf(i) IN
       Continue(WithMark(WithPosition(WithCash(working, -cost), i, number), i, PriceOf(i)))
    /\ UNCHANGED trades

LoopNext ==
    \/ Open
    \/ \E o \in Order : Decide(o)
    \/ \E k \in DOMAIN trades : Reserve(k) \/ Fill(k)
    \/ Settle
    \/ \E i \in Instrument, mark \in Mark : Move(i, mark)
    \/ \E i \in Instrument, number \in Purchase : Invest(i, number)

LoopSpec == LoopInit /\ [][LoopNext]_loopVars
-----------------------------------------------------------------------------
LoopTypeOK ==
    /\ Nav(working) \in Int /\ working.peak \in Nat
    /\ \A k \in DOMAIN trades :
          /\ trades[k].order \in Order /\ trades[k].status \in Status
          /\ trades[k].booked \in BOOLEAN

(* What the engine approved, once filled and recorded, portfolio-collect   *)
(* accepts: the two halves of the mandate, risk.py:54-106 and              *)
(* workflow.py:244-274, never leave a fund that cannot be attested.        *)
ApprovedImportable == working.cash >= 0 /\ Acceptable(Valued(working))

ObligedCalls(r, underlying) ==
    SumFunction([i \in {j \in Short(r, "call") : terms[j].underlying = underlying}
                     |-> Obliged(r, i)])

(* "Covered calls are limited to 50% of shares" (README.md:19), over all   *)
(* calls on the same shares, when no whole-holding exit was ordered.       *)
CoverWithinFraction ==
    \A i \in Instrument :
        100 * ObligedCalls(working, terms[i].underlying)
            <= CoveredCallFraction * Shares(working, terms[i].underlying)

(* "At 15% new risk stops" (README.md:20): in a fund 15% below the highest *)
(* NAV ever attested, no trade decided on that snapshot adds to the short  *)
(* obligations, whatever the ledger's own peak says.                       *)
DrawdownStopsNewRisk ==
    [][\A k \in DOMAIN trades' \ DOMAIN trades :
          100 * (highest - head.nav) >= 15 * highest => trades'[k].order.intent # "open"]_loopVars

(* "New option shorts are accepted only as a cash-secured put or covered   *)
(* call" (README.md:12): short puts never exceed the cash, short calls     *)
(* never exceed the shares.                                                *)
NoNakedShort ==
    /\ PutCollateral(working) <= working.cash * Rate
    /\ \A i \in Short(working, "call") :
          ObligedCalls(working, terms[i].underlying) <= Shares(working, terms[i].underlying)

(* "USD put collateral is converted to GBP by dividing by a fresh ...      *)
(* GBPUSD midpoint" (README.md:241), by the engine as by the ledger.       *)
CollateralConverted ==
    head # NoSnapshot =>
        ExistingCollateral(head, Rate) * Rate =
            PutCollateral(head.replay) + Reserved(head.replay) * Rate
=============================================================================
