--------------------------- MODULE PortfolioLedger ---------------------------
(***************************************************************************)
(* portfolio_collect of workflow.py: the paper ledger is a chain of sealed *)
(* records that is replayed into a portfolio snapshot.  The prefix that an *)
(* attested snapshot already holds is fixed; the records after it are a    *)
(* file, and the operator may supply other ones in the next run.           *)
(*                                                                         *)
(* A record the replay rejects makes every ledger that holds it rejected,  *)
(* so such a record is simply not added.  Cost basis is left out: it is an *)
(* input of its own that meets no other state.                             *)
(***************************************************************************)
EXTENDS Integers, FiniteSetsExt

CONSTANTS
    Instrument,
    terms,         \* [Instrument -> [type, underlying, strike, multiplier]]; a share underlies itself
    Submission,    \* [id, underlying, collateral, covered]: what a pending submission reserves
    StartingCash,  \* 100000 GBP, in units
    CashDelta,     \* amounts of cash records
    Mark,          \* prices of mark records
    Mid,           \* GBPUSD midpoints, dollars per pound
    MaxQuoteAge,   \* max_quote_age_seconds, in ticks
    NoSnapshot,    \* nothing has been attested
    MaxLength,     \* bound: records of the ledger
    MaxQuantity,   \* bound: size of a position
    MaxTime        \* bound: last instant a record is dated

InstrumentType == {"share", "put", "call"}

ASSUME LedgerAssumption ==
    /\ IsFiniteSet(Instrument)
    /\ \A i \in Instrument : /\ terms[i].type \in InstrumentType
                             /\ terms[i].strike \in Nat /\ terms[i].multiplier \in Nat \ {0}
    /\ \A s \in Submission : s.collateral \in Nat /\ s.covered \in Nat
    /\ StartingCash \in Nat \ {0} /\ CashDelta \subseteq Int /\ Mark \subseteq Nat
    /\ Mid \subseteq Nat \ {0}
    /\ MaxQuoteAge \in Nat /\ MaxTime \in Nat /\ MaxLength \in Nat /\ MaxQuantity \in Nat

VARIABLES
    working,  \* what replaying the supplied ledger reconstructs
    head,     \* the latest attested snapshot, or NoSnapshot
    highest   \* history: the largest NAV of an attested snapshot

vars == <<working, head, highest>>

Unmarked == -1
NotValued == -1
NoFx == [mid |-> 0, at |-> 0]

CspCollateralLimit == 40  \* per cent of NAV (mandate.py)
CoveredCallFraction == 50 \* per cent of shares

(* After the bootstrap record: 100000 of cash, NAV and peak *)
Initialized ==
    [cash |-> StartingCash, peak |-> StartingCash,
     quantity |-> [i \in Instrument |-> 0], mark |-> [i \in Instrument |-> Unmarked],
     pending |-> {}, fx |-> NoFx, valuedAt |-> NotValued, length |-> 1]

Larger(m, n) == IF m > n THEN m ELSE n

MarkOf(r, i) == IF r.mark[i] = Unmarked THEN 0 ELSE r.mark[i]

(* marked_nav(): cash and marked positions; short options count against it *)
Nav(r) ==
    r.cash + SumFunction([i \in Instrument |-> r.quantity[i] * terms[i].multiplier * MarkOf(r, i)])

Held(r) == {i \in Instrument : r.quantity[i] # 0}

Short(r, type) == {i \in Instrument : terms[i].type = type /\ r.quantity[i] < 0}

Shares(r, underlying) ==
    SumFunction([i \in {j \in Instrument : /\ terms[j].type = "share"
                                            /\ terms[j].underlying = underlying} |-> r.quantity[i]])

(* Contracts times multiplier of a short position *)
Obliged(r, i) == -r.quantity[i] * terms[i].multiplier

(* The dollars that all short puts could be assigned for *)
PutCollateral(r) == SumFunction([i \in Short(r, "put") |-> Obliged(r, i) * terms[i].strike])

Reserved(r) == SumFunction([s \in r.pending |-> s.collateral])

PendingCover(r, underlying) ==
    SumFunction([s \in {p \in r.pending : p.underlying = underlying} |-> s.covered])

(* assess() of the FX packet as of the valuation, which must both be there *)
FxFresh(r) ==
    /\ r.fx # NoFx /\ r.valuedAt # NotValued
    /\ r.fx.at <= r.valuedAt /\ r.valuedAt - r.fx.at <= MaxQuoteAge

PutsSecured(r) ==
    Short(r, "put") # {} => FxFresh(r) /\ PutCollateral(r) <= r.cash * r.fx.mid

(* put_collateral / mid + reserved <= nav * limit, multiplied out *)
WithinCspLimit(r) ==
    LET mid == IF Short(r, "put") = {} THEN 1 ELSE r.fx.mid IN
    100 * (PutCollateral(r) + Reserved(r) * mid) <= CspCollateralLimit * Nav(r) * mid

(* Each short call on its own is covered, and within the covered fraction *)
CallsCovered(r) ==
    \A i \in Short(r, "call") :
        LET shares == Shares(r, terms[i].underlying) IN
        /\ Obliged(r, i) <= shares
        /\ Obliged(r, i) + PendingCover(r, terms[i].underlying)
               <= (shares * CoveredCallFraction) \div 100

(* The final validation of portfolio_collect and of _portfolio_payload *)
Acceptable(r) ==
    /\ \A i \in Held(r) : r.mark[i] # Unmarked
    /\ \A i \in Held(r) : terms[i].type # "share" => r.quantity[i] < 0
    /\ PutsSecured(r)
    /\ WithinCspLimit(r)
    /\ CallsCovered(r)
    /\ Nav(r) > 0

Snapshot(r) == [replay |-> r, nav |-> Nav(r), peak |-> Larger(r.peak, Nav(r))]

Init == working = Initialized /\ head = NoSnapshot /\ highest = 0

(* portfolio-collect --initialize of the empty ledger *)
Bootstrap ==
    /\ head = NoSnapshot
    /\ head' = Snapshot(Initialized)
    /\ highest' = StartingCash
    /\ UNCHANGED working

(* What a record of each kind does to the replayed state *)
WithCash(r, amount) == [r EXCEPT !.cash = @ + amount]
WithPosition(r, i, delta) == [r EXCEPT !.quantity[i] = @ + delta]
WithMark(r, i, mark) == [r EXCEPT !.mark[i] = mark]
WithPending(r, s) == [r EXCEPT !.pending = @ \cup {s}]
WithResolved(r, s) == [r EXCEPT !.pending = @ \ {s}]
(* Faulty variant: the latest stated NAV replaces the peak *)
WithValuationOnly(r, at) == [r EXCEPT !.peak = Nav(r), !.valuedAt = at]
WithValuation(r, at) == [r EXCEPT !.peak = Larger(@, Nav(r)), !.valuedAt = at]
WithFx(r, mid, at) == [r EXCEPT !.fx = [mid |-> mid, at |-> at]]

(* A further record, in a ledger that continues the attested head *)
Extend(r) ==
    /\ head # NoSnapshot
    /\ working.length < MaxLength
    /\ working' = [r EXCEPT !.length = @ + 1]
    /\ UNCHANGED <<head, highest>>

(* Faulty variant: cash may be overdrawn *)
RecordCashUnchecked(amount) == Extend(WithCash(working, amount))

(* 'paper ledger cash cannot be negative or non-finite' *)
RecordCash(amount) ==
    /\ working.cash + amount >= 0
    /\ Extend(WithCash(working, amount))

(* A position never changes sign in one record; shares are never short *)
RecordPosition(i, delta) ==
    LET before == working.quantity[i]
        after == before + delta
    IN  /\ before * after >= 0
        /\ terms[i].type = "share" => after >= 0
        /\ after \in -MaxQuantity .. MaxQuantity
        /\ Extend(WithPosition(working, i, delta))

RecordMark(i, mark) == Extend(WithMark(working, i, mark))

(* 'duplicate pending submission ID' *)
RecordPending(s) ==
    /\ s.id \notin {p.id : p \in working.pending}
    /\ Extend(WithPending(working, s))

(* 'unknown pending submission resolution' *)
RecordResolved(s) ==
    /\ s \in working.pending
    /\ Extend(WithResolved(working, s))

(* The stated NAV and peak agree with the reconstructed ones *)
RecordValuation(at) == Extend(WithValuation(working, at))

RecordFx(mid, at) == Extend(WithFx(working, mid, at))

Attest(r) ==
    /\ head' = Snapshot(r)
    /\ highest' = Larger(highest, Nav(r))

(* portfolio-collect of a continued ledger *)
Collect ==
    /\ head # NoSnapshot
    /\ Acceptable(working)
    /\ Attest(working)
    /\ UNCHANGED working

(* The next ledger supplied keeps the attested prefix, and nothing else *)
SupplyOther ==
    /\ head # NoSnapshot
    /\ working' = head.replay
    /\ UNCHANGED <<head, highest>>

Next ==
    \/ Bootstrap
    \/ \E amount \in CashDelta : RecordCash(amount)
    \/ \E i \in Instrument, delta \in {-1, 1} : RecordPosition(i, delta)
    \/ \E i \in Instrument, mark \in Mark : RecordMark(i, mark)
    \/ \E s \in Submission : RecordPending(s)
    \/ \E s \in Submission : RecordResolved(s)
    \/ \E at \in 0 .. MaxTime : RecordValuation(at)
    \/ \E mid \in Mid, at \in 0 .. MaxTime : RecordFx(mid, at)
    \/ Collect
    \/ SupplyOther

Spec == Init /\ [][Next]_vars
-----------------------------------------------------------------------------
Replay(r) ==
    /\ r.cash \in Nat
    /\ r.peak \in Nat
    /\ r.quantity \in [Instrument -> Int]
    /\ r.mark \in [Instrument -> Nat \cup {Unmarked}]
    /\ r.pending \subseteq Submission
    /\ r.fx \in [mid : Nat, at : Nat]
    /\ r.valuedAt \in Nat \cup {NotValued}
    /\ r.length \in Nat

TypeOK ==
    /\ Replay(working)
    /\ head # NoSnapshot => Replay(head.replay) /\ head.nav \in Nat /\ head.peak \in Nat
    /\ highest \in Nat

(* The peak that valuations put on record survives every continuation of   *)
(* the attested ledger, whatever suffixes are thrown away in between.      *)
RecordedPeakKept ==
    [][head # NoSnapshot => head'.replay.peak >= head.replay.peak]_vars

(* "Portfolio snapshots reconstruct actual cash, NAV, peak NAV/drawdown"   *)
(* (README): the peak is no less than any attested NAV.                    *)
PeakIsHighest == head # NoSnapshot => head.peak >= highest
=============================================================================
