------------------------- MODULE MandateLoop_proofs -------------------------
(***************************************************************************)
(* The loop for any orders, terms, marks, purchases, rate and any number   *)
(* of trades.                                                              *)
(*                                                                         *)
(* LoopInv holds because a valuation precedes every snapshot: the peak     *)
(* that is replayed is then no less than any attested NAV, which it is not *)
(* in the ledger alone.                                                    *)
(*                                                                         *)
(* PlanInv is about the mandate's limits, which the engine checks against  *)
(* a snapshot that is already old and the ledger checks after the fill.    *)
(* Its limits are those of the book as it is planned (Planned), in which   *)
(* each submission that is not filled has its reservation, recorded or     *)
(* not. Decide adds to the plan what the engine has counted, Reserve does  *)
(* not change it, Fill moves a reservation into the positions. The         *)
(* engine's reading of the head is good for the plan because nothing is    *)
(* outstanding when it reads, and the head then reflects all that was      *)
(* decided (Reflected).                                                    *)
(***************************************************************************)
EXTENDS MandateLoop, PortfolioLedger_proofs

Trades == [order : Order, status : Status, booked : BOOLEAN]

LoopInv ==
    /\ working \in Books
    /\ working.peak >= StartingCash /\ working.peak >= highest
    /\ highest \in Nat
    /\ trades \in Seq(Trades)
    /\ head # NoSnapshot =>
          /\ head.replay \in Books
          /\ head.nav \in Int /\ head.peak \in Nat /\ head.peak >= highest

-----------------------------------------------------------------------------
LEMMA NavOfBook == \A r \in Books : Nav(r) \in Int
BY NavIsInteger DEF Books

(* Without short puts there is no collateral to be had. *)
LEMMA NoPutsNoCollateral ==
  ASSUME NEW r, Short(r, "put") = {}
  PROVE  PutCollateral(r) = 0
<1> DEFINE g == [i \in Short(r, "put") |-> Obliged(r, i) * terms[i].strike]
<1>1. DOMAIN g = {}
  OBVIOUS
<1>2. SumFunction(g) = 0
  <2> HIDE DEF g
  <2> QED
    BY <1>1, TotalOfNothing
<1> QED
  BY <1>2 DEF PutCollateral

(* A rate and a valuation leave the worth as it is, and put it on record. *)
LEMMA ValuedIsBook ==
  ASSUME NEW r \in Books
  PROVE  /\ Valued(r) \in Books
         /\ Nav(Valued(r)) = Nav(r)
         /\ Valued(r).peak >= r.peak /\ Valued(r).peak >= Nav(r)
<1> DEFINE f == WithFx(r, Rate, 0)
<1>1. f \in Books /\ f.peak = r.peak
  BY LoopAssumption DEF WithFx, Books
<1>2. /\ f.cash = r.cash /\ f.quantity = r.quantity /\ f.mark = r.mark
  BY DEF WithFx, Books
<1>3. Nav(f) = Nav(r)
  BY <1>2 DEF Nav, MarkOf
<1>4. Nav(r) \in Int /\ r.peak \in Nat
  BY NavOfBook DEF Books
<1>5. /\ Larger(f.peak, Nav(f)) \in Nat
      /\ Larger(f.peak, Nav(f)) >= r.peak /\ Larger(f.peak, Nav(f)) >= Nav(r)
  BY <1>1, <1>3, <1>4 DEF Larger
<1> DEFINE v == WithValuation(f, 0)
<1>6. /\ v \in Books /\ v.peak = Larger(f.peak, Nav(f))
      /\ v.cash = f.cash /\ v.quantity = f.quantity /\ v.mark = f.mark
  <2> HIDE DEF f
  <2> QED
    BY <1>1, <1>5 DEF WithValuation, Books
<1>7. Nav(v) = Nav(f)
  BY <1>6 DEF Nav, MarkOf
<1> QED
  BY <1>3, <1>5, <1>6, <1>7 DEF Valued

LEMMA TradesAreOfOrders ==
  ASSUME LoopInv, NEW k \in DOMAIN trades
  PROVE  /\ k \in Nat
         /\ trades[k] \in Trades
         /\ trades[k].order \in Order
         /\ trades[k].order.instrument \in Instrument
         /\ trades[k].order.quantity \in Nat
<1>1. trades \in Seq(Trades)
  BY DEF LoopInv
<1>2. k \in Nat /\ trades[k] \in Trades
  BY <1>1
<1>3. trades[k].order \in Order
  BY <1>2 DEF Trades
<1> QED
  BY <1>2, <1>3, LoopAssumption DEF IsOrder

(* What an order adds to a position, and pays for it *)
LEMMA FilledIsBook ==
  ASSUME NEW k \in DOMAIN trades, LoopInv
  PROVE  Filled(k) \in Books /\ Filled(k).peak = working.peak
<1> DEFINE o == trades[k].order
           i == o.instrument
           price == PriceOf(i)
           cost == -Signed(o) * terms[i].multiplier * price
           paid == WithCash(working, cost)
           moved == WithPosition(paid, i, Signed(o))
           marked == WithMark(moved, i, price)
<1>1. i \in Instrument /\ Signed(o) \in Int
  BY TradesAreOfOrders DEF Signed
<1>2. price \in Nat /\ terms[i].multiplier \in Int
  BY <1>1, LoopAssumption, LedgerAssumption DEF PriceOf, LoopInv, Books, Unmarked
<1>3. cost \in Int
  <2> DEFINE s == Signed(o)
             m == terms[i].multiplier
  <2>1. s \in Int /\ m \in Int /\ price \in Int
    BY <1>1, <1>2
  <2> HIDE DEF s, m, price
  <2>2. -s * m * price \in Int
    BY <2>1
  <2> QED
    BY <2>2 DEF s, m
<1> HIDE DEF cost, price
<1>4. paid \in Books /\ paid.peak = working.peak
  <2>1. working \in Books /\ working.cash + cost \in Int
    BY <1>3 DEF LoopInv, Books
  <2> QED
    BY <2>1 DEF Books, WithCash
<1> HIDE DEF paid, o, i
<1>5. moved \in Books /\ moved.peak = working.peak
  BY <1>4, <1>1 DEF Books, WithPosition
<1> HIDE DEF moved
<1>6. marked \in Books /\ marked.peak = working.peak
  BY <1>5, <1>1, <1>2 DEF Books, WithMark
<1> HIDE DEF marked
<1>7. WithResolved(marked, Reservation(k, trades[k].order)) \in Books
      /\ WithResolved(marked, Reservation(k, trades[k].order)).peak = working.peak
  BY <1>6 DEF Books, WithResolved
<1> QED
  BY <1>7 DEF Filled, o, i, price, cost, paid, moved, marked

LEMMA ReservedIsBook ==
  ASSUME NEW k \in DOMAIN trades, LoopInv
  PROVE  /\ WithPending(working, Reservation(k, trades[k].order)) \in Books
         /\ WithPending(working, Reservation(k, trades[k].order)).peak = working.peak
<1> DEFINE o == trades[k].order
           i == o.instrument
<1>1. i \in Instrument /\ k \in Nat /\ o.quantity \in Nat
  BY TradesAreOfOrders
<1>2. /\ terms[i].multiplier \in Int /\ terms[i].strike \in Int
  BY <1>1, LedgerAssumption
<1>3. /\ terms[i].multiplier * o.quantity \in Int
  BY <1>1, <1>2
<1>4. /\ (terms[i].multiplier * o.quantity * terms[i].strike) \in Int
  BY <1>2, <1>3
<1>5. (terms[i].multiplier * o.quantity * terms[i].strike) \div Rate \in Int
  BY <1>4, LoopAssumption
<1>6. Reservation(k, trades[k].order) \in Pendings
  BY <1>1, <1>3, <1>5 DEF Reservation, Pendings
<1> QED
  BY <1>6 DEF WithPending, LoopInv, Books

LEMMA LoopInitEstablishes == LoopInit => LoopInv
<1>1. Initialized \in Books /\ Initialized.peak = StartingCash
  BY LedgerAssumption DEF Initialized, Books, NoFx
<1> QED
  BY <1>1, LedgerAssumption DEF LoopInit, Init, LoopInv

(* Attesting a valued book keeps what is replayed above what is attested. *)
LEMMA ContinueKeeps ==
  ASSUME LoopInv, NEW r \in Books, r.peak >= working.peak, Continue(r),
         trades' \in Seq(Trades)
  PROVE  LoopInv'
<1> DEFINE v == Valued(r)
<1>1. v \in Books /\ Nav(v) = Nav(r) /\ v.peak >= r.peak /\ v.peak >= Nav(r)
  BY ValuedIsBook
<1>2. Nav(v) \in Int /\ Nav(v) > 0 /\ v.peak \in Nat /\ r.peak \in Nat /\ working.peak \in Nat
  BY <1>1, NavOfBook DEF Continue, Acceptable, Books, LoopInv
<1>3. working' = v /\ head' = Snapshot(v) /\ highest' = Larger(highest, Nav(v))
  BY DEF Continue, Attest
<1> HIDE DEF v
<1>4. highest' \in Nat /\ v.peak >= highest' /\ v.peak >= StartingCash
  BY <1>1, <1>2, <1>3, LedgerAssumption DEF LoopInv, Larger
<1>5. head'.replay = v /\ head'.nav = Nav(v) /\ head'.peak = Larger(v.peak, Nav(v))
  BY <1>3 DEF Snapshot
<1>6. head'.peak \in Nat /\ head'.peak >= highest'
  BY <1>1, <1>2, <1>4, <1>5 DEF Larger
<1> QED
  BY <1>1, <1>2, <1>3, <1>4, <1>5, <1>6 DEF LoopInv

LEMMA LoopNextKeeps == LoopInv /\ [LoopNext]_loopVars => LoopInv'
<1> SUFFICES ASSUME LoopInv, [LoopNext]_loopVars PROVE LoopInv'
  OBVIOUS
<1>0. /\ working \in Books /\ working.peak >= working.peak
      /\ trades \in Seq(Trades)
  BY DEF LoopInv, Books
<1>1. CASE Open
  <2>1. Initialized \in Books /\ Initialized.peak = StartingCash
    BY LedgerAssumption DEF Initialized, Books, NoFx
  <2>2. /\ head' = Snapshot(Initialized) /\ working' = working
        /\ highest' = StartingCash /\ trades' = trades
    BY <1>1 DEF Open, Bootstrap
  <2>3. /\ head'.replay = Initialized /\ head'.nav = StartingCash
        /\ head'.peak = Larger(StartingCash, StartingCash)
    BY <2>1, <2>2, BootstrapNav DEF Snapshot
  <2>4. StartingCash \in Nat /\ Larger(StartingCash, StartingCash) = StartingCash
    BY LedgerAssumption DEF Larger
  <2> QED
    BY <2>1, <2>2, <2>3, <2>4 DEF LoopInv
<1>2. ASSUME NEW o \in Order, Decide(o) PROVE LoopInv'
  <2>1. [order |-> o, status |-> "submitted", booked |-> FALSE] \in Trades
    BY DEF Trades, Status
  <2>2. trades' \in Seq(Trades)
    BY <1>0, <1>2, <2>1 DEF Decide
  <2> QED
    BY <1>2, <2>2 DEF Decide, LoopInv
<1>3. ASSUME NEW k \in DOMAIN trades, Reserve(k) PROVE LoopInv'
  <2>1. [trades[k] EXCEPT !.status = "pending"] \in Trades
    BY TradesAreOfOrders DEF Trades, Status
  <2>2. trades' \in Seq(Trades)
    BY <1>0, <1>3, <2>1 DEF Reserve
  <2> QED
    BY <1>3, <2>2, ReservedIsBook DEF Reserve, LoopInv
<1>4. ASSUME NEW k \in DOMAIN trades, Fill(k) PROVE LoopInv'
  <2>1. [trades[k] EXCEPT !.status = "filled"] \in Trades
    BY TradesAreOfOrders DEF Trades, Status
  <2>2. trades' \in Seq(Trades)
    BY <1>0, <1>4, <2>1 DEF Fill
  <2> QED
    BY <1>4, <2>2, FilledIsBook DEF Fill, LoopInv
<1>5. CASE Settle
  <2>1. \A k \in DOMAIN trades :
           [trades[k] EXCEPT !.booked = (@ \/ trades[k].status # "submitted")] \in Trades
    BY TradesAreOfOrders DEF Trades
  <2>2. trades' \in Seq(Trades)
    BY <1>0, <1>5, <2>1 DEF Settle
  <2> QED
    BY <1>0, <1>5, <2>2, ContinueKeeps DEF Settle
<1>6. ASSUME NEW i \in Instrument, NEW mark \in Mark, Move(i, mark) PROVE LoopInv'
  <2>1. mark \in Nat
    BY LedgerAssumption
  <2>2. /\ WithMark(working, i, mark) \in Books
        /\ WithMark(working, i, mark).peak = working.peak
    BY <1>0, <2>1 DEF Books, WithMark
  <2> QED
    BY <1>0, <1>6, <2>2, ContinueKeeps DEF Move
<1>7. ASSUME NEW i \in Instrument, NEW number \in Purchase, Invest(i, number) PROVE LoopInv'
  <2> DEFINE cost == number * terms[i].multiplier * PriceOf(i)
             paid == WithCash(working, -cost)
             moved == WithPosition(paid, i, number)
             marked == WithMark(moved, i, PriceOf(i))
  <2>1. number \in Int /\ terms[i].multiplier \in Int /\ PriceOf(i) \in Nat
    BY <1>0, LoopAssumption, LedgerAssumption DEF PriceOf, Books, Unmarked
  <2>2. cost \in Int
    <3> DEFINE m == terms[i].multiplier
               price == PriceOf(i)
    <3>1. m \in Int /\ price \in Int
      BY <2>1
    <3> HIDE DEF m, price
    <3>2. number * m * price \in Int
      BY <2>1, <3>1
    <3> QED
      BY <3>2 DEF m, price
  <2>3. Continue(marked) /\ trades' = trades
    BY <1>7 DEF Invest
  <2> HIDE DEF cost
  <2>4. paid \in Books /\ paid.peak = working.peak
    <3>1. working.cash + -cost \in Int
      BY <1>0, <2>2 DEF Books
    <3> QED
      BY <1>0, <3>1 DEF Books, WithCash
  <2> HIDE DEF paid
  <2>5. moved \in Books /\ moved.peak = working.peak
    BY <2>1, <2>4 DEF Books, WithPosition
  <2> HIDE DEF moved
  <2>6. marked \in Books /\ marked.peak = working.peak
    BY <2>1, <2>5 DEF Books, WithMark
  <2> HIDE DEF marked
  <2> QED
    BY <1>0, <2>3, <2>6, ContinueKeeps
<1>8. CASE UNCHANGED loopVars
  BY <1>8 DEF loopVars, LoopInv
<1> QED
  BY <1>1, <1>2, <1>3, <1>4, <1>5, <1>6, <1>7, <1>8 DEF LoopNext

LEMMA LoopInvCorrect == LoopSpec => []LoopInv
<1> QED
  BY LoopInitEstablishes, LoopNextKeeps, PTL DEF LoopSpec

(* The worth of what is booked is a number and its peak a natural one,     *)
(* and every trade is one of the orders, through all fills and marks.      *)
THEOREM LoopTypeCorrect == LoopSpec => []LoopTypeOK
<1>1. LoopInv => LoopTypeOK
  <2> SUFFICES ASSUME LoopInv PROVE LoopTypeOK
    OBVIOUS
  <2>1. Nav(working) \in Int /\ working.peak \in Nat
    BY NavOfBook DEF LoopInv, Books
  <2> QED
    BY <2>1, TradesAreOfOrders DEF LoopTypeOK, Trades
<1> QED
  BY <1>1, LoopInvCorrect, PTL

(* In a fund 15% below the highest NAV that was ever attested the engine   *)
(* approves no order to open (risk.py:40-47), for any orders and markets,  *)
(* provided that a valuation precedes every snapshot.                      *)
THEOREM NewRiskStops == LoopSpec => DrawdownStopsNewRisk
<1>1. LoopInv /\ [LoopNext]_loopVars =>
        [\A k \in DOMAIN trades' \ DOMAIN trades :
            100 * (highest - head.nav) >= 15 * highest =>
                trades'[k].order.intent # "open"]_loopVars
  <2> SUFFICES ASSUME LoopInv, LoopNext, NEW k \in DOMAIN trades' \ DOMAIN trades,
                      100 * (highest - head.nav) >= 15 * highest
               PROVE  trades'[k].order.intent # "open"
    OBVIOUS
  <2>1. PICK o \in Order : Decide(o)
    BY DEF LoopNext, Open, Reserve, Fill, Settle, Move, Invest
  <2>2. trades \in Seq(Trades)
    BY DEF LoopInv
  <2>3. trades'[k].order = o
    BY <2>1, <2>2 DEF Decide
  <2>4. /\ highest \in Nat /\ head.nav \in Int /\ head.peak \in Nat
        /\ head.peak >= highest
    BY <2>1 DEF Decide, LoopInv
  <2>5. DrawnDown(head, 15)
    <3> DEFINE h == highest
               n == head.nav
               p == head.peak
    <3>1. h \in Nat /\ n \in Int /\ p \in Nat /\ p >= h /\ 100 * (h - n) >= 15 * h
      BY <2>4
    <3> HIDE DEF h, n, p
    <3>2. 100 * (p - n) >= 15 * p
      BY <3>1
    <3> QED
      BY <3>2 DEF DrawnDown, h, n, p
  <2> QED
    BY <2>1, <2>3, <2>5 DEF Decide, Approves, NewRiskAllowed
<1> QED
  BY <1>1, LoopInvCorrect, PTL DEF LoopSpec, DrawdownStopsNewRisk

(* "Portfolio snapshots reconstruct actual cash, NAV, peak NAV/drawdown"   *)
(* (README): with a valuation before every snapshot the peak is no less    *)
(* than any NAV that was ever attested.  The ledger alone, which takes     *)
(* snapshots without one (workflow.py:225-243), does not keep it.          *)
THEOREM ValuedPeakIsHighest == LoopSpec => []PeakIsHighest
<1>1. LoopInv => PeakIsHighest
  BY DEF LoopInv, PeakIsHighest
<1> QED
  BY <1>1, LoopInvCorrect, PTL
-----------------------------------------------------------------------------
(* What the limits take for granted: trades are taken one at a time, no    *)
(* shares are sold that calls were written on, no order exits a holding or *)
(* assigns, and reservations are exact in pounds.  Without any one of the  *)
(* first four TLC finds a limit that is passed.                            *)
SerialTrading ==
    /\ MaxOutstanding <= 1 /\ CloseHeldOnly /\ Purchase \subseteq Nat
    /\ \A o \in Order :
          /\ o.intent \in {"open", "close"} /\ ~o.exitEntireHolding
          /\ ~IsOption(o) => o.side = "buy"

ReservationsOf(numbers) == {Reservation(k, trades[k].order) : k \in numbers}

Recorded == {k \in DOMAIN trades : trades[k].status = "pending"}

(* The book as if every submission that is not filled were recorded *)
Planned == [working EXCEPT !.pending = ReservationsOf(Unfilled)]

Covers(r, underlying) == ObligedCalls(r, underlying) + PendingCover(r, underlying)

Secures(r) == PutCollateral(r) + Reserved(r) * Rate

CoverLimit(r, underlying) == (Shares(r, underlying) * CoveredCallFraction) \div 100

Buys(k) == trades[k].order.side = "buy" /\ IsOption(trades[k].order)

(* What an opened put may cost, and how many shares an opened call takes *)
Opens(o, type) == terms[o.instrument].type = type /\ o.side = "sell" /\ o.intent = "open"

Size(o) == terms[o.instrument].multiplier * o.quantity

Dollars(o) == IF Opens(o, "put") THEN Size(o) * terms[o.instrument].strike ELSE 0

ExactReservations ==
    \A o \in Order : (Dollars(o) \div Rate) * Rate = Dollars(o)

CoverOf(o, underlying) ==
    IF Opens(o, "call") /\ terms[o.instrument].underlying = underlying THEN Size(o) ELSE 0

(* Finitely many reservations of natural amounts *)
Sound(pending) ==
    IsFiniteSet(pending) /\ \A s \in pending : s.collateral \in Nat /\ s.covered \in Nat

(* Quantities of which no option is held long *)
ShortOptions(r) ==
    /\ r.quantity \in [Instrument -> Int]
    /\ \A i \in Instrument : terms[i].type # "share" => r.quantity[i] <= 0

(* What is attested limits what is planned, once all of it is booked. *)
Reflected ==
    /\ Secures(Planned) <= Secures(head.replay)
    /\ \A i \in Instrument :
          LET u == terms[i].underlying IN
          /\ Covers(Planned, u) <= Covers(head.replay, u)
          /\ Shares(head.replay, u) <= Shares(working, u)

(* Of the trades: recorded as pending until they are filled, and closing   *)
(* one at a time what is there to close *)
TradeInv ==
    /\ working.pending = ReservationsOf(Recorded)
    /\ \A k \in DOMAIN trades :
          /\ trades[k].status = "submitted" => ~trades[k].booked
          /\ IsOption(trades[k].order) =>
                 (trades[k].order.side = "buy" <=> trades[k].order.intent = "close")
    /\ \A k \in Unfilled :
          Buys(k) => trades[k].order.quantity <= -working.quantity[trades[k].order.instrument]
    /\ \A k, l \in Unfilled : Buys(k) /\ Buys(l) => k = l

PositionInv ==
    /\ \A i \in Held(working) : working.mark[i] # Unmarked
    /\ ShortOptions(working)

LimitInv ==
    /\ \A i \in Instrument : Covers(Planned, terms[i].underlying) <= CoverLimit(working, terms[i].underlying)
    /\ 100 * Secures(Planned) <= CspCollateralLimit * Nav(working) * Rate
    /\ Nav(working) > 0
    /\ head = NoSnapshot => working = Initialized /\ trades = << >>
    /\ head # NoSnapshot =>
          /\ head.nav = Nav(working)
          /\ Sound(head.replay.pending) /\ ShortOptions(head.replay)
          /\ Outstanding = {} => Reflected

PlanInv == TradeInv /\ PositionInv /\ LimitInv
-----------------------------------------------------------------------------
Calls(underlying) ==
    {i \in Instrument : terms[i].type = "call" /\ terms[i].underlying = underlying}

Puts == {i \in Instrument : terms[i].type = "put"}

LEMMA TermsAreNatural ==
  ASSUME NEW i \in Instrument
  PROVE  /\ terms[i].multiplier \in Int /\ terms[i].multiplier > 0
         /\ terms[i].strike \in Nat
BY LedgerAssumption

LEMMA ObligedIsInteger ==
  ASSUME NEW r, r.quantity \in [Instrument -> Int], NEW i \in Instrument
  PROVE  /\ Obliged(r, i) \in Int /\ Obliged(r, i) * terms[i].strike \in Int
         /\ r.quantity[i] = 0 => Obliged(r, i) = 0 /\ Obliged(r, i) * terms[i].strike = 0
         /\ r.quantity[i] <= 0 => Obliged(r, i) \in Nat /\ Obliged(r, i) * terms[i].strike \in Nat
<1> DEFINE q == r.quantity[i]
           m == terms[i].multiplier
           k == terms[i].strike
           o == Obliged(r, i)
<1>1. q \in Int /\ m \in Int /\ m > 0 /\ k \in Nat /\ o = -q * m
  BY TermsAreNatural DEF Obliged
<1> HIDE DEF q, m, k, o
<1>2. o \in Int
  BY <1>1
<1>3. o * k \in Int
  BY <1>1, <1>2
<1>4. q = 0 => o = 0 /\ o * k = 0
  BY <1>1
<1>5. q <= 0 => o \in Nat
  BY <1>1
<1>6. q <= 0 => o * k \in Nat
  BY <1>1, <1>5
<1> QED
  BY <1>2, <1>3, <1>4, <1>5, <1>6 DEF q, k, o

(* Calls that are not short owe nothing. *)
LEMMA CallsAreSummed ==
  ASSUME NEW r, ShortOptions(r), NEW u
  PROVE  /\ ObligedCalls(r, u) = SumFunction([i \in Calls(u) |-> Obliged(r, i)])
         /\ [i \in Calls(u) |-> Obliged(r, i)] \in [Calls(u) -> Nat]
         /\ IsFiniteSet(Calls(u))
<1> DEFINE T == Calls(u)
           S == {j \in Short(r, "call") : terms[j].underlying = u}
           g == [i \in S |-> Obliged(r, i)]
           h == [i \in T |-> Obliged(r, i)]
<1>1. IsFiniteSet(T)
  BY LedgerAssumption, FS_Subset DEF Calls
<1>2. S \in SUBSET T
  BY DEF Short, Calls
<1>3. \A i \in T : Obliged(r, i) \in Nat
  BY ObligedIsInteger DEF ShortOptions, Calls
<1>4. \A i \in T \ S : Obliged(r, i) = 0
  <2> TAKE i \in T \ S
  <2>1. i \in Instrument /\ terms[i].type = "call" /\ ~(r.quantity[i] < 0) /\ r.quantity[i] <= 0
        /\ r.quantity[i] \in Int
    BY DEF Short, Calls, ShortOptions
  <2> QED
    BY <2>1, ObligedIsInteger DEF ShortOptions
<1>5. h \in [T -> Nat]
  BY <1>3
<1>6. /\ g \in [S -> Int] /\ h \in [T -> Int]
      /\ \A i \in S : g[i] = h[i]
      /\ \A i \in T \ S : h[i] = 0
  BY <1>2, <1>3, <1>4
<1>7. SumFunction(h) = SumFunction(g)
  <2> HIDE DEF S, T, g, h
  <2> QED
    BY <1>1, <1>2, <1>6, TotalWithoutZeros
<1>8. ObligedCalls(r, u) = SumFunction(g)
  BY DEF ObligedCalls
<1> QED
  BY <1>1, <1>5, <1>7, <1>8

LEMMA PutsAreSummed ==
  ASSUME NEW r, ShortOptions(r)
  PROVE  /\ PutCollateral(r) = SumFunction([i \in Puts |-> Obliged(r, i) * terms[i].strike])
         /\ [i \in Puts |-> Obliged(r, i) * terms[i].strike] \in [Puts -> Nat]
         /\ IsFiniteSet(Puts)
<1> DEFINE T == Puts
           S == Short(r, "put")
           g == [i \in S |-> Obliged(r, i) * terms[i].strike]
           h == [i \in T |-> Obliged(r, i) * terms[i].strike]
<1>1. IsFiniteSet(T)
  BY LedgerAssumption, FS_Subset DEF Puts
<1>2. S \in SUBSET T
  BY DEF Short, Puts
<1>3. \A i \in T : Obliged(r, i) * terms[i].strike \in Nat
  BY ObligedIsInteger DEF ShortOptions, Puts
<1>4. \A i \in T \ S : Obliged(r, i) * terms[i].strike = 0
  <2> TAKE i \in T \ S
  <2>1. i \in Instrument /\ terms[i].type = "put" /\ ~(r.quantity[i] < 0) /\ r.quantity[i] <= 0
        /\ r.quantity[i] \in Int
    BY DEF Short, Puts, ShortOptions
  <2> QED
    BY <2>1, ObligedIsInteger DEF ShortOptions
<1>5. h \in [T -> Nat]
  BY <1>3
<1>6. /\ g \in [S -> Int] /\ h \in [T -> Int]
      /\ \A i \in S : g[i] = h[i]
      /\ \A i \in T \ S : h[i] = 0
  BY <1>2, <1>3, <1>4
<1>7. SumFunction(h) = SumFunction(g)
  <2> HIDE DEF S, T, g, h
  <2> QED
    BY <1>1, <1>2, <1>6, TotalWithoutZeros
<1>8. PutCollateral(r) = SumFunction(g)
  BY DEF PutCollateral
<1> QED
  BY <1>1, <1>5, <1>7, <1>8

LEMMA ObligationsAreNatural ==
  ASSUME NEW r, ShortOptions(r)
  PROVE  /\ PutCollateral(r) \in Nat
         /\ \A u : ObligedCalls(r, u) \in Nat
         /\ \A i \in Short(r, "call") : Obliged(r, i) <= ObligedCalls(r, terms[i].underlying)
<1>1. PutCollateral(r) \in Nat
  BY PutsAreSummed, TotalIsNatural
<1>2. ASSUME NEW u PROVE ObligedCalls(r, u) \in Nat
  BY CallsAreSummed, TotalIsNatural
<1>3. ASSUME NEW i \in Short(r, "call") PROVE Obliged(r, i) <= ObligedCalls(r, terms[i].underlying)
  <2> DEFINE T == Calls(terms[i].underlying)
             h == [j \in T |-> Obliged(r, j)]
  <2>1. i \in T /\ h[i] = Obliged(r, i)
    BY DEF Calls, Short
  <2>2. IsFiniteSet(T) /\ h \in [T -> Nat] /\ ObligedCalls(r, terms[i].underlying) = SumFunction(h)
    BY CallsAreSummed
  <2> HIDE DEF h, T
  <2> QED
    BY <2>1, <2>2, TotalHasMember
<1> QED
  BY <1>1, <1>2, <1>3

(* What a change of one position does to each of the totals. *)
LEMMA CallsChange ==
  ASSUME NEW r, NEW t, ShortOptions(r), ShortOptions(t), NEW i \in Instrument, NEW d \in Int,
         t.quantity = [r.quantity EXCEPT ![i] = @ + d], NEW u
  PROVE  ObligedCalls(t, u) =
             ObligedCalls(r, u) - (IF i \in Calls(u) THEN d * terms[i].multiplier ELSE 0)
<1> DEFINE T == Calls(u)
           g == [j \in T |-> Obliged(r, j)]
           h == [j \in T |-> Obliged(t, j)]
           m == terms[i].multiplier
<1>1. /\ IsFiniteSet(T) /\ g \in [T -> Int] /\ h \in [T -> Int]
      /\ ObligedCalls(r, u) = SumFunction(g) /\ ObligedCalls(t, u) = SumFunction(h)
  BY CallsAreSummed
<1>2. \A j \in T \ {i} : g[j] = h[j]
  BY DEF Obliged, Calls, ShortOptions
<1>3. CASE i \in T
  <2>1. g[i] = -r.quantity[i] * m /\ h[i] = -(r.quantity[i] + d) * m
    BY <1>3 DEF Obliged, ShortOptions
  <2>2. m \in Int /\ r.quantity[i] \in Int
    BY TermsAreNatural DEF ShortOptions
  <2> DEFINE q == r.quantity[i]
  <2>3. -(q + d) * m = -q * m - d * m
    <3>1. q \in Int
      BY <2>2
    <3> HIDE DEF q, m
    <3> QED
      BY <3>1, <2>2
  <2>4. SumFunction(h) = SumFunction(g) - g[i] + h[i]
    <3> HIDE DEF T, g, h
    <3> QED
      BY <1>1, <1>2, <1>3, TotalWithOneChanged
  <2>5. d * m \in Int /\ SumFunction(g) \in Int /\ g[i] \in Int
    <3> HIDE DEF T, g, m
    <3> QED
      BY <1>1, <1>3, <2>2, TotalIsInteger
  <2>6. h[i] = g[i] - d * m
    BY <2>1, <2>3
  <2> HIDE DEF g, h, T, m
  <2>7. SumFunction(h) = SumFunction(g) - d * m
    BY <2>4, <2>5, <2>6
  <2> QED
    BY <1>1, <1>3, <2>7 DEF T, m
<1>4. CASE i \notin T
  <2>1. g = h
    BY <1>2, <1>4
  <2>2. ObligedCalls(t, u) = ObligedCalls(r, u)
    BY <1>1, <2>1
  <2>3. ObligedCalls(r, u) \in Nat
    BY ObligationsAreNatural
  <2> QED
    BY <1>4, <2>2, <2>3
<1> QED
  BY <1>3, <1>4

LEMMA PutsChange ==
  ASSUME NEW r, NEW t, ShortOptions(r), ShortOptions(t), NEW i \in Instrument, NEW d \in Int,
         t.quantity = [r.quantity EXCEPT ![i] = @ + d]
  PROVE  PutCollateral(t) =
             PutCollateral(r) - (IF i \in Puts THEN d * terms[i].multiplier * terms[i].strike ELSE 0)
<1> DEFINE T == Puts
           g == [j \in T |-> Obliged(r, j) * terms[j].strike]
           h == [j \in T |-> Obliged(t, j) * terms[j].strike]
           m == terms[i].multiplier
           k == terms[i].strike
<1>1. /\ IsFiniteSet(T) /\ g \in [T -> Int] /\ h \in [T -> Int]
      /\ PutCollateral(r) = SumFunction(g) /\ PutCollateral(t) = SumFunction(h)
  BY PutsAreSummed
<1>2. \A j \in T \ {i} : g[j] = h[j]
  BY DEF Obliged, Puts, ShortOptions
<1>3. CASE i \in T
  <2> DEFINE q == r.quantity[i]
  <2>1. g[i] = (-q * m) * k /\ h[i] = (-(q + d) * m) * k
    BY <1>3 DEF Obliged, ShortOptions
  <2>2. m \in Int /\ q \in Int /\ k \in Int
    BY TermsAreNatural DEF ShortOptions
  <2>3. (-(q + d) * m) * k = (-q * m) * k - d * m * k
    <3> HIDE DEF q, m, k
    <3> QED
      BY <2>2
  <2>4. SumFunction(h) = SumFunction(g) - g[i] + h[i]
    <3> HIDE DEF T, g, h
    <3> QED
      BY <1>1, <1>2, <1>3, TotalWithOneChanged
  <2>5. d * m * k \in Int /\ SumFunction(g) \in Int /\ g[i] \in Int
    <3> HIDE DEF T, g, m, k
    <3> QED
      BY <1>1, <1>3, <2>2, TotalIsInteger
  <2>6. h[i] = g[i] - d * m * k
    BY <2>1, <2>3
  <2> HIDE DEF g, h, T, m, k
  <2>7. SumFunction(h) = SumFunction(g) - d * m * k
    BY <2>4, <2>5, <2>6
  <2> QED
    BY <1>1, <1>3, <2>7 DEF T, m, k
<1>4. CASE i \notin T
  <2>1. g = h
    BY <1>2, <1>4
  <2>2. PutCollateral(t) = PutCollateral(r)
    BY <1>1, <2>1
  <2>3. PutCollateral(r) \in Nat
    BY ObligationsAreNatural
  <2> QED
    BY <1>4, <2>2, <2>3
<1> QED
  BY <1>3, <1>4

ShareOf(underlying) ==
    {j \in Instrument : terms[j].type = "share" /\ terms[j].underlying = underlying}

LEMMA SharesAreInteger ==
  ASSUME NEW r, r.quantity \in [Instrument -> Int], NEW u
  PROVE  Shares(r, u) \in Int
<1> DEFINE T == ShareOf(u)
           g == [j \in T |-> r.quantity[j]]
<1>1. IsFiniteSet(T)
  BY LedgerAssumption, FS_Subset DEF ShareOf
<1>2. g \in [T -> Int] /\ Shares(r, u) = SumFunction(g)
  BY DEF ShareOf, Shares
<1> HIDE DEF T, g
<1> QED
  BY <1>1, <1>2, TotalIsInteger

LEMMA SharesChange ==
  ASSUME NEW r, NEW t, r.quantity \in [Instrument -> Int], NEW i \in Instrument, NEW d \in Int,
         t.quantity = [r.quantity EXCEPT ![i] = @ + d], NEW u
  PROVE  Shares(t, u) = Shares(r, u) + (IF i \in ShareOf(u) THEN d ELSE 0)
<1> DEFINE T == ShareOf(u)
           g == [j \in T |-> r.quantity[j]]
           h == [j \in T |-> t.quantity[j]]
<1>1. IsFiniteSet(T)
  BY LedgerAssumption, FS_Subset DEF ShareOf
<1>2. t.quantity \in [Instrument -> Int]
  OBVIOUS
<1>3. /\ g \in [T -> Int] /\ h \in [T -> Int]
      /\ Shares(r, u) = SumFunction(g) /\ Shares(t, u) = SumFunction(h)
  BY <1>2 DEF ShareOf, Shares
<1>4. \A j \in T \ {i} : g[j] = h[j]
  BY DEF ShareOf
<1>5. CASE i \in T
  <2>1. h[i] = g[i] + d
    BY <1>5
  <2> HIDE DEF g, h
  <2>2. SumFunction(h) = SumFunction(g) - g[i] + h[i]
    <3> HIDE DEF T
    <3> QED
      BY <1>1, <1>3, <1>4, <1>5, TotalWithOneChanged
  <2>3. SumFunction(g) \in Int /\ g[i] \in Int
    <3> HIDE DEF T
    <3> QED
      BY <1>1, <1>3, <1>5, TotalIsInteger
  <2> QED
    BY <1>3, <1>5, <2>1, <2>2, <2>3
<1>6. CASE i \notin T
  <2>1. g = h
    BY <1>4, <1>6
  <2> HIDE DEF g, h
  <2>2. Shares(t, u) = Shares(r, u) /\ Shares(r, u) \in Int
    BY <1>3, <2>1, SharesAreInteger
  <2> QED
    BY <1>6, <2>2
<1> QED
  BY <1>5, <1>6
(* A trade at the mark changes what the fund holds, not what it is worth. *)
Paid(i, d, price) == -d * terms[i].multiplier * price

(* t is r after d of i were bought at its mark, or at its first one *)
TradedAtMark(r, t, i, d, price) ==
    /\ r.cash \in Int /\ r.quantity \in [Instrument -> Int]
    /\ r.mark \in [Instrument -> Nat \cup {Unmarked}]
    /\ i \in Instrument /\ d \in Int /\ price \in Nat
    /\ r.mark[i] = Unmarked => r.quantity[i] = 0
    /\ r.mark[i] # Unmarked => price = r.mark[i]
    /\ t.cash = r.cash + Paid(i, d, price)
    /\ t.quantity = [r.quantity EXCEPT ![i] = @ + d]
    /\ t.mark = [r.mark EXCEPT ![i] = price]

LEMMA NavAtMark ==
  ASSUME NEW r, NEW t, NEW i, NEW d, NEW price, TradedAtMark(r, t, i, d, price)
  PROVE  Nav(t) = Nav(r)
<1> DEFINE g == [j \in Instrument |-> r.quantity[j] * terms[j].multiplier * MarkOf(r, j)]
           h == [j \in Instrument |-> t.quantity[j] * terms[j].multiplier * MarkOf(t, j)]
           m == terms[i].multiplier
           q == r.quantity[i]
           cost == Paid(i, d, price)
<1> USE DEF TradedAtMark
<1>0. m \in Int /\ q \in Int /\ IsFiniteSet(Instrument)
  BY TermsAreNatural, LedgerAssumption
<1>1. cost \in Int /\ cost = -d * m * price
  <2>1. cost = -d * m * price
    BY DEF Paid
  <2> HIDE DEF m, cost
  <2> QED
    BY <1>0, <2>1
<1> HIDE DEF cost
<1>2. t.cash \in Int /\ t.quantity \in [Instrument -> Int] /\ t.mark \in [Instrument -> Nat \cup {Unmarked}]
  <2>1. t.cash = r.cash + cost
    BY DEF cost
  <2> HIDE DEF m
  <2> QED
    BY <1>1, <2>1
<1>3. ASSUME NEW b, b.quantity \in [Instrument -> Int], b.mark \in [Instrument -> Nat \cup {Unmarked}],
             NEW j \in Instrument
      PROVE  b.quantity[j] * terms[j].multiplier * MarkOf(b, j) \in Int
  <2> DEFINE x == b.quantity[j]
             y == terms[j].multiplier
             z == MarkOf(b, j)
  <2>1. x \in Int /\ y \in Int /\ z \in Int
    BY <1>3, TermsAreNatural DEF MarkOf, Unmarked
  <2> HIDE DEF x, y, z
  <2>2. x * y * z \in Int
    BY <2>1
  <2> QED
    BY <2>2 DEF x, y, z
<1>4. g \in [Instrument -> Int] /\ h \in [Instrument -> Int]
  BY <1>2, <1>3
<1>5. \A j \in Instrument \ {i} : g[j] = h[j]
  BY DEF MarkOf
<1>6. g[i] = q * m * price
  <2>1. CASE r.mark[i] = Unmarked
    <3>1. q = 0 /\ g[i] = 0 * m * MarkOf(r, i) /\ MarkOf(r, i) = 0
      BY <2>1 DEF MarkOf
    <3>2. \A n \in Int, p \in Nat : 0 * n * 0 = 0 /\ 0 * n * p = 0
      OBVIOUS
    <3> HIDE DEF m
    <3> QED
      BY <1>0, <3>1, <3>2
  <2>2. CASE r.mark[i] # Unmarked
    BY <2>2 DEF MarkOf
  <2> QED
    BY <2>1, <2>2
<1>7. h[i] = (q + d) * m * price
  <2>1. t.mark[i] = price /\ price # Unmarked /\ t.quantity[i] = q + d
    BY DEF Unmarked
  <2> QED
    BY <2>1 DEF MarkOf
<1>8. (q + d) * m * price = q * m * price - cost
  <2> HIDE DEF m, q
  <2>1. (q + d) * m * price = q * m * price - (-d * m * price)
    BY <1>0
  <2> QED
    BY <1>1, <2>1
<1> HIDE DEF g, h, m, q
<1>9. SumFunction(h) = SumFunction(g) - g[i] + h[i]
  BY <1>0, <1>4, <1>5, TotalWithOneChanged
<1>10. SumFunction(g) \in Int /\ g[i] \in Int
  BY <1>0, <1>4, TotalIsInteger
<1>11. SumFunction(h) = SumFunction(g) - cost
  BY <1>1, <1>6, <1>7, <1>8, <1>9, <1>10
<1>12. t.cash = r.cash + cost
  BY DEF cost
<1>13. t.cash + SumFunction(h) = r.cash + SumFunction(g)
  BY <1>1, <1>10, <1>11, <1>12
<1> QED
  BY <1>13 DEF Nav, g, h

-----------------------------------------------------------------------------
LEMMA ReservesAreNatural ==
  ASSUME NEW r, Sound(r.pending)
  PROVE  Reserved(r) \in Nat /\ \A u : PendingCover(r, u) \in Nat
<1>1. Reserved(r) \in Nat
  <2> DEFINE g == [s \in r.pending |-> s.collateral]
  <2>1. g \in [r.pending -> Nat] /\ IsFiniteSet(r.pending)
    BY DEF Sound
  <2> HIDE DEF g
  <2> QED
    BY <2>1, TotalIsNatural DEF Reserved, g
<1>2. ASSUME NEW u PROVE PendingCover(r, u) \in Nat
  <2> DEFINE T == {p \in r.pending : p.underlying = u}
             g == [s \in T |-> s.covered]
  <2>1. g \in [T -> Nat] /\ IsFiniteSet(T)
    BY FS_Subset DEF Sound
  <2>2. PendingCover(r, u) = SumFunction(g)
    BY DEF PendingCover
  <2> HIDE DEF g, T
  <2> QED
    BY <2>1, <2>2, TotalIsNatural
<1> QED
  BY <1>1, <1>2

(* One reservation more *)
LEMMA ReservesGrow ==
  ASSUME NEW r, NEW t, NEW s, Sound(t.pending), s \notin r.pending,
         t.pending = r.pending \cup {s}
  PROVE  /\ Sound(r.pending) /\ s.collateral \in Nat /\ s.covered \in Nat
         /\ Reserved(t) = Reserved(r) + s.collateral
<1>0. Sound(r.pending) /\ s.collateral \in Nat /\ s.covered \in Nat
  BY FS_Subset DEF Sound
<1> DEFINE S == r.pending
           g == [p \in S |-> p.collateral]
           h == [p \in S \cup {s} |-> p.collateral]
<1>1. /\ IsFiniteSet(S) /\ s \notin S /\ g \in [S -> Int] /\ h \in [S \cup {s} -> Int]
      /\ \A p \in S : g[p] = h[p]
      /\ h[s] = s.collateral
  BY <1>0 DEF Sound
<1>2. Reserved(t) = SumFunction(h) /\ Reserved(r) = SumFunction(g)
  BY DEF Reserved
<1> HIDE DEF g, h, S
<1>3. SumFunction(h) = SumFunction(g) + h[s]
  BY <1>1, TotalWithOneMore
<1> QED
  BY <1>0, <1>1, <1>2, <1>3

CoverBy(s, underlying) == IF s.underlying = underlying THEN s.covered ELSE 0

LEMMA CoverGrows ==
  ASSUME NEW r, NEW t, NEW s, Sound(t.pending), s \notin r.pending,
         t.pending = r.pending \cup {s}, NEW u
  PROVE  PendingCover(t, u) = PendingCover(r, u) + CoverBy(s, u)
<1>0. Sound(r.pending) /\ s.covered \in Nat
  BY ReservesGrow
<1> DEFINE S == {p \in r.pending : p.underlying = u}
           T == {p \in t.pending : p.underlying = u}
           g == [p \in S |-> p.covered]
           h == [p \in T |-> p.covered]
<1>1. IsFiniteSet(S) /\ IsFiniteSet(T)
  BY <1>0, FS_Subset DEF Sound
<1>2. /\ s \notin S /\ g \in [S -> Int] /\ h \in [T -> Int]
      /\ \A p \in S : g[p] = h[p]
  BY <1>0 DEF Sound
<1>3. PendingCover(t, u) = SumFunction(h) /\ PendingCover(r, u) = SumFunction(g)
  BY DEF PendingCover
<1> USE DEF CoverBy
<1>4. CASE s.underlying = u
  <2>1. T = S \cup {s} /\ h[s] = s.covered
    BY <1>4
  <2> HIDE DEF g, h, S, T
  <2>2. h \in [S \cup {s} -> Int]
    BY <1>2, <2>1
  <2>3. IsFiniteSet(S) /\ s \notin S /\ g \in [S -> Int] /\ \A p \in S : g[p] = h[p]
    BY <1>1, <1>2
  <2>4. SumFunction(h) = SumFunction(g) + h[s]
    BY <2>2, <2>3, TotalWithOneMore
  <2> QED
    BY <1>3, <1>4, <2>1, <2>4
<1>5. CASE s.underlying # u
  <2>1. T = S
    BY <1>5
  <2>2. PendingCover(t, u) = PendingCover(r, u)
    BY <2>1 DEF PendingCover
  <2> QED
    BY <1>0, <1>5, <2>2, ReservesAreNatural
<1> QED
  BY <1>4, <1>5

LEMMA ReservesOfPart ==
  ASSUME NEW r, NEW t, Sound(t.pending), r.pending \subseteq t.pending
  PROVE  /\ Sound(r.pending) /\ Reserved(r) <= Reserved(t)
         /\ \A u : PendingCover(r, u) <= PendingCover(t, u)
<1>0. Sound(r.pending)
  BY FS_Subset DEF Sound
<1>1. Reserved(r) <= Reserved(t)
  <2> DEFINE S == r.pending
             T == t.pending
             g == [p \in S |-> p.collateral]
             h == [p \in T |-> p.collateral]
  <2>1. /\ IsFiniteSet(T) /\ S \in SUBSET T /\ g \in [S -> Nat] /\ h \in [T -> Nat]
        /\ \A p \in S : g[p] = h[p]
    BY DEF Sound
  <2>2. Reserved(t) = SumFunction(h) /\ Reserved(r) = SumFunction(g)
    BY DEF Reserved
  <2> HIDE DEF g, h, S, T
  <2> QED
    BY <2>1, <2>2, TotalOfPart
<1>2. ASSUME NEW u PROVE PendingCover(r, u) <= PendingCover(t, u)
  <2> DEFINE S == {p \in r.pending : p.underlying = u}
             T == {p \in t.pending : p.underlying = u}
             g == [p \in S |-> p.covered]
             h == [p \in T |-> p.covered]
  <2>0. IsFiniteSet(T)
    BY FS_Subset DEF Sound
  <2>1. /\ S \in SUBSET T /\ g \in [S -> Nat] /\ h \in [T -> Nat]
        /\ \A p \in S : g[p] = h[p]
    BY DEF Sound
  <2>2. PendingCover(t, u) = SumFunction(h) /\ PendingCover(r, u) = SumFunction(g)
    BY DEF PendingCover
  <2> HIDE DEF g, h, S, T
  <2> QED
    BY <2>0, <2>1, <2>2, TotalOfPart
<1> QED
  BY <1>0, <1>1, <1>2
-----------------------------------------------------------------------------
(* What an order takes of the limits while it is not filled *)
LEMMA OrderReserves ==
  ASSUME ExactReservations, NEW o \in Order, NEW k
  PROVE  /\ Reservation(k, o).id = k
         /\ Reservation(k, o).collateral \in Nat /\ Reservation(k, o).covered \in Nat
         /\ Reservation(k, o).collateral * Rate = Dollars(o)
         /\ \A u : CoverOf(o, u) =
                       IF Reservation(k, o).underlying = u THEN Reservation(k, o).covered ELSE 0
         /\ Dollars(o) \in Nat /\ Size(o) \in Nat
<1> DEFINE m == terms[o.instrument].multiplier
           q == o.quantity
           c == terms[o.instrument].strike
<1>1. o.instrument \in Instrument /\ q \in Nat
  BY LoopAssumption DEF IsOrder
<1>2. m \in Nat /\ c \in Nat /\ Rate \in Nat /\ Rate > 0
  BY <1>1, LedgerAssumption, LoopAssumption
<1>3. m * q \in Nat /\ (m * q) * c \in Nat
  <2> HIDE DEF m, q, c
  <2>1. m * q \in Nat
    BY <1>1, <1>2
  <2> QED
    BY <1>2, <2>1
<1>4. Size(o) \in Nat /\ Dollars(o) \in Nat
  BY <1>3 DEF Size, Dollars
<1>5. ((m * q) * c) \div Rate \in Nat /\ 0 \div Rate = 0 /\ 0 * Rate = 0
  <2> DEFINE x == (m * q) * c
  <2>1. x \in Nat
    BY <1>3
  <2> HIDE DEF x
  <2> QED
    BY <1>2, <2>1 DEF x
<1>6. /\ Reservation(k, o).collateral = (IF Opens(o, "put") THEN ((m * q) * c) \div Rate ELSE 0)
      /\ Reservation(k, o).covered = (IF Opens(o, "call") THEN m * q ELSE 0)
      /\ Reservation(k, o).id = k
      /\ Reservation(k, o).underlying = terms[o.instrument].underlying
  BY DEF Reservation, Opens
<1>7. (Dollars(o) \div Rate) * Rate = Dollars(o)
  BY DEF ExactReservations
<1>8. Dollars(o) = IF Opens(o, "put") THEN (m * q) * c ELSE 0
  BY DEF Dollars, Size
<1>9. Reservation(k, o).collateral = Dollars(o) \div Rate
  BY <1>5, <1>6, <1>8
<1>10. \A u : CoverOf(o, u) =
                  IF Reservation(k, o).underlying = u THEN Reservation(k, o).covered ELSE 0
  BY <1>6 DEF CoverOf, Size
<1> QED
  BY <1>3, <1>4, <1>5, <1>6, <1>7, <1>9, <1>10

LEMMA TotalsAgree ==
  ASSUME NEW r, NEW t, r.quantity = t.quantity
  PROVE  /\ PutCollateral(r) = PutCollateral(t)
         /\ \A u : ObligedCalls(r, u) = ObligedCalls(t, u) /\ Shares(r, u) = Shares(t, u)
BY DEF PutCollateral, ObligedCalls, Shares, Short, Obliged

LEMMA ReservesAgree ==
  ASSUME NEW r, NEW t, r.pending = t.pending
  PROVE  Reserved(r) = Reserved(t) /\ \A u : PendingCover(r, u) = PendingCover(t, u)
BY DEF Reserved, PendingCover

LEMMA PlansAgree ==
  ASSUME NEW r, NEW t, r.quantity = t.quantity, r.pending = t.pending
  PROVE  Secures(r) = Secures(t) /\ \A u : Covers(r, u) = Covers(t, u)
BY TotalsAgree, ReservesAgree DEF Secures, Covers

LEMMA PlansAreNatural ==
  ASSUME NEW r, ShortOptions(r), Sound(r.pending)
  PROVE  Secures(r) \in Nat /\ \A u : Covers(r, u) \in Nat
<1>1. PutCollateral(r) \in Nat /\ Reserved(r) \in Nat /\ Rate \in Nat
  BY ObligationsAreNatural, ReservesAreNatural, LoopAssumption
<1>2. \A u : ObligedCalls(r, u) \in Nat /\ PendingCover(r, u) \in Nat
  BY ObligationsAreNatural, ReservesAreNatural
<1>3. Reserved(r) * Rate \in Nat
  BY <1>1
<1> QED
  BY <1>1, <1>2, <1>3 DEF Secures, Covers

(* One submission more takes what its order takes. *)
LEMMA SubmissionAdds ==
  ASSUME ExactReservations, NEW o \in Order, NEW k, NEW r, NEW t,
         ShortOptions(r), Sound(t.pending), r.quantity = t.quantity,
         Reservation(k, o) \notin r.pending, t.pending = r.pending \cup {Reservation(k, o)}
  PROVE  /\ Sound(r.pending)
         /\ Secures(t) = Secures(r) + Dollars(o)
         /\ \A u : Covers(t, u) = Covers(r, u) + CoverOf(o, u) /\ CoverOf(o, u) \in Nat
<1> DEFINE s == Reservation(k, o)
<1>1. /\ Sound(r.pending) /\ Reserved(t) = Reserved(r) + s.collateral
      /\ \A u : PendingCover(t, u) = PendingCover(r, u) + CoverOf(o, u)
  <2>1. /\ s \notin r.pending /\ t.pending = r.pending \cup {s}
        /\ \A u : CoverOf(o, u) = IF s.underlying = u THEN s.covered ELSE 0
    BY OrderReserves
  <2> HIDE DEF s
  <2>2. Sound(r.pending) /\ Reserved(t) = Reserved(r) + s.collateral
    BY <2>1, ReservesGrow
  <2>3. ASSUME NEW u
        PROVE  PendingCover(t, u) = PendingCover(r, u) + CoverOf(o, u)
    <3>1. PendingCover(t, u) = PendingCover(r, u) + CoverBy(s, u)
      BY <2>1, CoverGrows
    <3> QED
      BY <2>1, <3>1 DEF CoverBy
  <2> QED
    BY <2>1, <2>2, <2>3
<1>2. /\ s.collateral \in Nat /\ s.collateral * Rate = Dollars(o) /\ Rate \in Nat
      /\ \A u : CoverOf(o, u) \in Nat
  BY OrderReserves, LoopAssumption
<1>3. /\ PutCollateral(t) = PutCollateral(r) /\ PutCollateral(r) \in Nat
      /\ \A u : ObligedCalls(t, u) = ObligedCalls(r, u) /\ ObligedCalls(r, u) \in Nat
  BY TotalsAgree, ObligationsAreNatural
<1>4. Reserved(r) \in Nat /\ \A u : PendingCover(r, u) \in Nat
  BY <1>1, ReservesAreNatural
<1> HIDE DEF s
<1>5. (Reserved(r) + s.collateral) * Rate = Reserved(r) * Rate + s.collateral * Rate
  BY <1>2, <1>4
<1>6. Reserved(r) * Rate \in Nat /\ Dollars(o) \in Nat
  BY <1>2, <1>4
<1>7. Secures(t) = Secures(r) + Dollars(o)
  BY <1>1, <1>2, <1>3, <1>5, <1>6 DEF Secures
<1>8. ASSUME NEW u PROVE Covers(t, u) = Covers(r, u) + CoverOf(o, u) /\ CoverOf(o, u) \in Nat
  BY <1>1, <1>2, <1>3, <1>4 DEF Covers
<1> QED
  BY <1>1, <1>7, <1>8

(* What a fill takes it no longer reserves, or it gives back. *)
LEMMA FillKeepsPlan ==
  ASSUME SerialTrading, ExactReservations, NEW o \in Order, NEW k, NEW r, NEW t,
         IsOption(o) => (o.side = "buy" <=> o.intent = "close"),
         ShortOptions(r), ShortOptions(t), Sound(r.pending),
         t.quantity = [r.quantity EXCEPT ![o.instrument] = @ + Signed(o)],
         Reservation(k, o) \in r.pending, t.pending = r.pending \ {Reservation(k, o)}
  PROVE  /\ Secures(t) <= Secures(r)
         /\ \A u : Covers(t, u) <= Covers(r, u) /\ Shares(r, u) <= Shares(t, u)
<1> DEFINE i == o.instrument
           d == Signed(o)
           b == [quantity |-> t.quantity, pending |-> r.pending]
           m == terms[i].multiplier
           c == terms[i].strike
           q == o.quantity
<1>1. i \in Instrument /\ d \in Int /\ q \in Nat /\ o.side \in {"buy", "sell"}
  BY LoopAssumption DEF IsOrder, Signed
<1>2. m \in Nat /\ c \in Nat
  BY <1>1, LedgerAssumption
<1>3. /\ b.quantity = t.quantity /\ b.pending = r.pending
      /\ ShortOptions(b) /\ b.pending = t.pending \cup {Reservation(k, o)}
      /\ Reservation(k, o) \notin t.pending
  BY DEF ShortOptions
<1>4. /\ Secures(b) = Secures(t) + Dollars(o)
      /\ \A u : Covers(b, u) = Covers(t, u) + CoverOf(o, u) /\ CoverOf(o, u) \in Nat
      /\ Sound(t.pending)
  <2> HIDE DEF b
  <2> QED
    BY <1>3, SubmissionAdds
<1>5. /\ PutCollateral(t) = PutCollateral(r) - (IF i \in Puts THEN d * m * c ELSE 0)
      /\ \A u : ObligedCalls(t, u) = ObligedCalls(r, u) - (IF i \in Calls(u) THEN d * m ELSE 0)
      /\ \A u : Shares(t, u) = Shares(r, u) + (IF i \in ShareOf(u) THEN d ELSE 0)
  <2>1. PutCollateral(t) = PutCollateral(r) - (IF i \in Puts THEN d * m * c ELSE 0)
    BY <1>1, PutsChange
  <2>2. \A u : ObligedCalls(t, u) = ObligedCalls(r, u) - (IF i \in Calls(u) THEN d * m ELSE 0)
    BY <1>1, CallsChange
  <2>3. \A u : Shares(t, u) = Shares(r, u) + (IF i \in ShareOf(u) THEN d ELSE 0)
    <3>1. r.quantity \in [Instrument -> Int]
      BY DEF ShortOptions
    <3> QED
      BY <1>1, <3>1, SharesChange
  <2> QED
    BY <2>1, <2>2, <2>3
<1>6. /\ PutCollateral(b) = PutCollateral(t) /\ Reserved(b) = Reserved(r)
      /\ \A u : ObligedCalls(b, u) = ObligedCalls(t, u) /\ PendingCover(b, u) = PendingCover(r, u)
  <2> HIDE DEF b
  <2> QED
    BY <1>3, TotalsAgree, ReservesAgree
<1>7. /\ d = q \/ d = -q
      /\ Opens(o, "put") => i \in Puts /\ d = -q
      /\ i \in Puts /\ ~Opens(o, "put") => d = q
      /\ \A u : Opens(o, "call") /\ terms[i].underlying = u => i \in Calls(u) /\ d = -q
      /\ \A u : i \in Calls(u) /\ ~Opens(o, "call") => d = q
      /\ \A u : i \in Calls(u) => terms[i].underlying = u
      /\ \A u : i \in ShareOf(u) => d = q
  BY <1>1, LedgerAssumption
  DEF SerialTrading, Opens, Puts, Calls, ShareOf, Signed, IsOption
<1>8. q * m \in Nat /\ q * m * c \in Nat /\ (-q) * m = -(m * q) /\ ((-q) * m) * c = -((m * q) * c)
      /\ q * m = m * q /\ (q * m) * c = (m * q) * c
  <2> HIDE DEF m, c, q
  <2> QED
    BY <1>1, <1>2
<1>9. /\ PutCollateral(t) \in Nat /\ PutCollateral(r) \in Nat /\ Reserved(r) \in Nat
      /\ Reserved(t) \in Nat /\ Rate \in Nat
      /\ \A u : /\ ObligedCalls(t, u) \in Nat /\ ObligedCalls(r, u) \in Nat
                /\ PendingCover(r, u) \in Nat /\ PendingCover(t, u) \in Nat
                /\ Shares(r, u) \in Int
  <2>1. r.quantity \in [Instrument -> Int]
    BY DEF ShortOptions
  <2> QED
    BY <1>4, <2>1, ObligationsAreNatural, ReservesAreNatural, SharesAreInteger, LoopAssumption
<1>10. /\ Dollars(o) = (IF Opens(o, "put") THEN (m * q) * c ELSE 0)
       /\ \A u : CoverOf(o, u) = (IF Opens(o, "call") /\ terms[i].underlying = u THEN m * q ELSE 0)
  BY DEF Dollars, CoverOf, Size
<1> HIDE DEF b, m, c, q, d, i
<1>11. Secures(t) <= Secures(r)
  <2>1. PutCollateral(t) <= PutCollateral(r) + Dollars(o)
    <3>1. CASE Opens(o, "put")
      <4>1. PutCollateral(t) = PutCollateral(r) - ((-q) * m) * c
        BY <1>5, <1>7, <3>1
      <4> QED
        BY <1>8, <1>9, <1>10, <3>1, <4>1
    <3>2. CASE ~Opens(o, "put")
      <4>1. CASE i \in Puts
        <5>1. PutCollateral(t) = PutCollateral(r) - q * m * c
          BY <1>5, <1>7, <3>2, <4>1
        <5> QED
          BY <1>8, <1>9, <1>10, <3>2, <5>1
      <4>2. CASE i \notin Puts
        BY <1>5, <1>9, <1>10, <3>2, <4>2
      <4> QED
        BY <4>1, <4>2
    <3> QED
      BY <3>1, <3>2
  <2>2. Secures(t) + Dollars(o) = PutCollateral(t) + Reserved(r) * Rate
    BY <1>4, <1>6 DEF Secures
  <2>3. Secures(r) = PutCollateral(r) + Reserved(r) * Rate
    BY DEF Secures
  <2>4. Secures(t) \in Nat /\ Dollars(o) \in Nat /\ Reserved(r) * Rate \in Nat
    <3>1. Reserved(r) * Rate \in Nat
      BY <1>9
    <3> QED
      BY <1>4, <3>1, PlansAreNatural, OrderReserves
  <2> QED
    BY <1>9, <2>1, <2>2, <2>3, <2>4
<1>12. ASSUME NEW u PROVE Covers(t, u) <= Covers(r, u) /\ Shares(r, u) <= Shares(t, u)
  <2>1. ObligedCalls(t, u) <= ObligedCalls(r, u) + CoverOf(o, u)
    <3>1. CASE Opens(o, "call") /\ terms[i].underlying = u
      <4>1. ObligedCalls(t, u) = ObligedCalls(r, u) - ((-q) * m)
        BY <1>5, <1>7, <3>1
      <4> QED
        BY <1>8, <1>9, <1>10, <3>1, <4>1
    <3>2. CASE ~(Opens(o, "call") /\ terms[i].underlying = u)
      <4>1. CASE i \in Calls(u)
        <5>1. ObligedCalls(t, u) = ObligedCalls(r, u) - q * m
          BY <1>5, <1>7, <3>2, <4>1
        <5> QED
          BY <1>8, <1>9, <1>10, <3>2, <5>1
      <4>2. CASE i \notin Calls(u)
        BY <1>5, <1>9, <1>10, <3>2, <4>2
      <4> QED
        BY <4>1, <4>2
    <3> QED
      BY <3>1, <3>2
  <2>2. Covers(t, u) + CoverOf(o, u) = ObligedCalls(t, u) + PendingCover(r, u)
    BY <1>4, <1>6 DEF Covers
  <2>3. Covers(r, u) = ObligedCalls(r, u) + PendingCover(r, u)
    BY DEF Covers
  <2>4. Covers(t, u) \in Nat /\ CoverOf(o, u) \in Nat
    BY <1>4, PlansAreNatural
  <2>5. Shares(r, u) <= Shares(t, u)
    BY <1>1, <1>5, <1>7, <1>9 DEF q, i, d
  <2> QED
    BY <1>9, <2>1, <2>2, <2>3, <2>4, <2>5
<1> QED
  BY <1>11, <1>12
-----------------------------------------------------------------------------
LEMMA CoverLimitGrows ==
  ASSUME NEW x \in Int, NEW y \in Int, x <= y
  PROVE  (x * CoveredCallFraction) \div 100 <= (y * CoveredCallFraction) \div 100
BY DEF CoveredCallFraction

(* What the engine's multiplied limit says of the ledger's divided one *)
LEMMA EngineLimitIsLedgers ==
  ASSUME NEW p \in Nat, NEW v \in Nat, NEW d \in Nat, NEW n \in Nat, NEW x \in Nat,
         NEW rate \in Nat \ {0}, NEW limit \in {25, 40},
         100 * (p * rate + v + d * rate) <= limit * n,
         x <= p + v * rate
  PROVE  100 * (x + d) <= 40 * n * rate
<1>1. 100 * (p * rate + v + d * rate) <= 40 * n
  OBVIOUS
<1> DEFINE a == p * rate
           b == d * rate
           e == v * rate
           c == n * rate
<1>2. a \in Nat /\ b \in Nat /\ e \in Nat /\ c \in Nat
  OBVIOUS
<1>3. a >= p /\ b >= d
  OBVIOUS
<1>4. (a + v + b) * rate = a * rate + e + b * rate
  OBVIOUS
<1>5. a * rate >= a /\ b * rate >= b /\ a * rate \in Nat /\ b * rate \in Nat
  <2> HIDE DEF a, b
  <2> QED
    BY <1>2
<1>6. 100 * (a + v + b) * rate <= 40 * n * rate
  <2> DEFINE y == 100 * (a + v + b)
             z == 40 * n
  <2>1. y \in Nat /\ z \in Nat /\ y <= z
    BY <1>1, <1>2
  <2> HIDE DEF y, z
  <2>2. y * rate <= z * rate
    BY <2>1
  <2> QED
    BY <2>2 DEF y, z
<1>7. 100 * (a + v + b) * rate = 100 * ((a + v + b) * rate) /\ 40 * n * rate = 40 * c
  <2> DEFINE w == a + v + b
  <2>1. w \in Nat
    BY <1>2
  <2> HIDE DEF w
  <2>2. 100 * w * rate = 100 * (w * rate)
    BY <2>1
  <2> QED
    BY <2>2 DEF w
<1> HIDE DEF a, b, e
<1>8. 100 * (a * rate + e + b * rate) <= 40 * n * rate
  BY <1>4, <1>6, <1>7
<1>9. x <= p + e
  BY DEF e
<1> DEFINE ar == a * rate
           br == b * rate
           f == 40 * n * rate
<1>10. ar \in Nat /\ br \in Nat /\ ar >= a /\ br >= b /\ 100 * (ar + e + br) <= f /\ f \in Int
  BY <1>5, <1>8, <1>7, <1>2
<1> HIDE DEF ar, br, f, c
<1>11. 100 * (x + d) <= f
  BY <1>2, <1>3, <1>9, <1>10
<1> QED
  BY <1>11 DEF f

-----------------------------------------------------------------------------
LEMMA SnapshotOfBook ==
  ASSUME NEW r \in Books
  PROVE  Snapshot(r) # NoSnapshot
<1>1. Nav(r) \in Int /\ r.peak \in Nat
  BY NavOfBook DEF Books
<1>2. Larger(r.peak, Nav(r)) \in Nat
  BY <1>1 DEF Larger
<1> QED
  BY <1>1, <1>2, SnapshotAssumption DEF Snapshot

LEMMA ValuedFields ==
  ASSUME NEW r \in Books
  PROVE  /\ Valued(r).cash = r.cash /\ Valued(r).quantity = r.quantity
         /\ Valued(r).mark = r.mark /\ Valued(r).pending = r.pending
         /\ Valued(r).fx = [mid |-> Rate, at |-> 0] /\ Valued(r).valuedAt = 0
<1> DEFINE f == WithFx(r, Rate, 0)
<1>1. /\ f \in Books
      /\ f.cash = r.cash /\ f.quantity = r.quantity /\ f.mark = r.mark /\ f.pending = r.pending
      /\ f.fx = [mid |-> Rate, at |-> 0]
  BY LoopAssumption DEF WithFx, Books
<1> HIDE DEF f
<1>2. /\ WithValuation(f, 0).cash = f.cash /\ WithValuation(f, 0).quantity = f.quantity
      /\ WithValuation(f, 0).mark = f.mark /\ WithValuation(f, 0).pending = f.pending
      /\ WithValuation(f, 0).fx = f.fx /\ WithValuation(f, 0).valuedAt = 0
  BY <1>1 DEF WithValuation, Books
<1> QED
  BY <1>1, <1>2 DEF Valued, f

LEMMA PlannedFields ==
  ASSUME ExactReservations, LoopInv
  PROVE  /\ Planned.quantity = working.quantity
         /\ Planned.pending = ReservationsOf(Unfilled)
         /\ Sound(ReservationsOf(DOMAIN trades)) /\ Sound(Planned.pending)
         /\ IsFiniteSet(Outstanding)
<1>1. /\ Planned.quantity = working.quantity
      /\ Planned.pending = ReservationsOf(Unfilled)
  BY DEF Planned, LoopInv, Books
<1>2. IsFiniteSet(DOMAIN trades)
  <2>1. trades \in Seq(Trades)
    BY DEF LoopInv
  <2>2. DOMAIN trades = 1 .. Len(trades) /\ Len(trades) \in Nat
    BY <2>1
  <2> QED
    BY <2>2, FS_Interval
<1>3. Sound(ReservationsOf(DOMAIN trades))
  <2>1. IsFiniteSet(ReservationsOf(DOMAIN trades))
    <3> DEFINE f == [k \in DOMAIN trades |-> Reservation(k, trades[k].order)]
    <3>1. f \in Surjection(DOMAIN trades, ReservationsOf(DOMAIN trades))
      BY DEF Surjection, ReservationsOf
    <3> QED
      BY <1>2, <3>1, FS_Surjection
  <2>2. ASSUME NEW k \in DOMAIN trades
        PROVE  /\ Reservation(k, trades[k].order).collateral \in Nat
               /\ Reservation(k, trades[k].order).covered \in Nat
    BY TradesAreOfOrders, OrderReserves
  <2> QED
    BY <2>1, <2>2 DEF Sound, ReservationsOf
<1>4. ReservationsOf(Unfilled) \in SUBSET ReservationsOf(DOMAIN trades)
  BY DEF Unfilled, ReservationsOf
<1>5. Sound(Planned.pending)
  BY <1>1, <1>3, <1>4, FS_Subset DEF Sound
<1>6. Outstanding \in SUBSET DOMAIN trades
  BY DEF Outstanding
<1> QED
  BY <1>1, <1>2, <1>3, <1>5, <1>6, FS_Subset

LEMMA SubmissionsAreUnfilled ==
  ASSUME LoopInv, TradeInv
  PROVE  /\ working.pending \subseteq ReservationsOf(Unfilled)
         /\ Outstanding = {} => working.pending = ReservationsOf(Unfilled)
<1>1. \A k \in DOMAIN trades : trades[k].status \in Status /\ trades[k].booked \in BOOLEAN
  BY TradesAreOfOrders DEF Trades
<1>2. Recorded \subseteq Unfilled
  BY DEF Recorded, Unfilled
<1>3. Outstanding = {} => Recorded = Unfilled
  BY <1>1 DEF Recorded, Unfilled, Outstanding, TradeInv, Status
<1> QED
  BY <1>2, <1>3 DEF TradeInv, ReservationsOf

LEMMA ReservationsWithout ==
  ASSUME NEW numbers, NEW k \in numbers
  PROVE  ReservationsOf(numbers \ {k}) =
             ReservationsOf(numbers) \ {Reservation(k, trades[k].order)}
<1>1. \A l, o : Reservation(l, o).id = l
  BY DEF Reservation
<1> QED
  BY <1>1 DEF ReservationsOf

(* Nothing is planned in an empty fund. *)
LEMMA NothingPlanned ==
  /\ \A u : Covers(Initialized, u) = 0 /\ CoverLimit(Initialized, u) = 0
  /\ Secures(Initialized) = 0
  /\ ShortOptions(Initialized) /\ Held(Initialized) = {} /\ Sound(Initialized.pending)
<1>1. /\ Initialized.quantity = [i \in Instrument |-> 0] /\ Initialized.pending = {}
      /\ \A type : Short(Initialized, type) = {}
  BY DEF Initialized, Short
<1>2. ASSUME NEW u PROVE ObligedCalls(Initialized, u) = 0 /\ PendingCover(Initialized, u) = 0
  <2>1. {j \in Short(Initialized, "call") : terms[j].underlying = u} = {}
        /\ {p \in Initialized.pending : p.underlying = u} = {}
    BY <1>1
  <2>2. \A g : DOMAIN g = {} => SumFunction(g) = 0
    BY TotalOfNothing
  <2> QED
    BY <2>1, <2>2 DEF ObligedCalls, PendingCover
<1>3. PutCollateral(Initialized) = 0
  BY <1>1, NoPutsNoCollateral
<1>4. Reserved(Initialized) = 0
  <2>1. \A g : DOMAIN g = {} => SumFunction(g) = 0
    BY TotalOfNothing
  <2> QED
    BY <1>1, <2>1 DEF Reserved
<1>5. ASSUME NEW u PROVE Shares(Initialized, u) = 0
  <2> DEFINE T == ShareOf(u)
             g == [j \in T |-> Initialized.quantity[j]]
  <2>1. IsFiniteSet(T)
    BY LedgerAssumption, FS_Subset DEF ShareOf
  <2>2. g \in [T -> {0}] /\ Shares(Initialized, u) = SumFunction(g)
    BY <1>1 DEF ShareOf, Shares
  <2> HIDE DEF T, g
  <2> QED
    BY <2>1, <2>2, TotalOfZeros
<1>6. \A u : Covers(Initialized, u) = 0
  BY <1>2 DEF Covers
<1>7. Secures(Initialized) = 0
  BY <1>3, <1>4, LoopAssumption DEF Secures
<1>8. (0 * 50) \div 100 = 0
  OBVIOUS
<1>9. \A u : CoverLimit(Initialized, u) = 0
  BY <1>5, <1>8 DEF CoverLimit, CoveredCallFraction
<1>10. ShortOptions(Initialized) /\ Held(Initialized) = {} /\ Sound(Initialized.pending)
  BY <1>1, FS_EmptySet DEF ShortOptions, Held, Sound
<1> QED
  BY <1>6, <1>7, <1>9, <1>10
-----------------------------------------------------------------------------
LEMMA LoopInitPlans == LoopInit => PlanInv
<1> SUFFICES ASSUME LoopInit PROVE PlanInv
  OBVIOUS
<1>1. working = Initialized /\ head = NoSnapshot /\ trades = << >>
  BY DEF LoopInit, Init
<1>2. /\ DOMAIN trades = {} /\ Unfilled = {} /\ Recorded = {}
      /\ ReservationsOf(Unfilled) = {} /\ ReservationsOf(Recorded) = {}
  BY <1>1 DEF Unfilled, Recorded, ReservationsOf
<1>3. Planned.quantity = Initialized.quantity /\ Planned.pending = Initialized.pending
  BY <1>1, <1>2 DEF Planned, Initialized
<1>4. TradeInv
  BY <1>1, <1>2 DEF TradeInv, Initialized
<1>5. PositionInv
  BY <1>1, NothingPlanned DEF PositionInv
<1>6. Secures(Planned) = 0 /\ \A u : Covers(Planned, u) = 0 /\ CoverLimit(working, u) = 0
  BY <1>1, <1>3, NothingPlanned, PlansAgree
<1>7. Nav(working) = StartingCash /\ StartingCash \in Nat /\ StartingCash > 0
  BY <1>1, BootstrapNav, LedgerAssumption
<1>8. 100 * 0 <= 40 * StartingCash * Rate
  <2> DEFINE n == StartingCash
  <2>1. n \in Nat /\ Rate \in Nat
    BY <1>7, LoopAssumption
  <2> HIDE DEF n
  <2>2. n * Rate \in Nat /\ 40 * n * Rate = 40 * (n * Rate)
    BY <2>1
  <2> HIDE DEF n
  <2>3. 100 * 0 <= 40 * n * Rate
    <3> DEFINE x == n * Rate
    <3>1. x \in Nat
      BY <2>2
    <3> HIDE DEF x
    <3>2. 100 * 0 <= 40 * x
      BY <3>1
    <3> QED
      BY <2>2, <3>2 DEF x
  <2> QED
    BY <2>3 DEF n
<1>9. LimitInv
  BY <1>1, <1>6, <1>7, <1>8 DEF LimitInv, CspCollateralLimit
<1> QED
  BY <1>4, <1>5, <1>9 DEF PlanInv

LEMMA OpenPlans ==
  ASSUME LoopInv, PlanInv, Open
  PROVE  PlanInv'
<1>1. /\ head = NoSnapshot /\ head' = Snapshot(Initialized)
      /\ working' = working /\ trades' = trades
  BY DEF Open, Bootstrap
<1>2. working = Initialized /\ trades = << >>
  BY <1>1 DEF PlanInv, LimitInv
<1>3. head'.replay = Initialized /\ head'.nav = Nav(Initialized)
  BY <1>1 DEF Snapshot
<1>4. /\ Unfilled = {} /\ Planned' = Planned
      /\ Planned.quantity = Initialized.quantity /\ Planned.pending = Initialized.pending
  BY <1>1, <1>2 DEF Planned, Unfilled, ReservationsOf, Initialized
<1>5. Reflected'
  <2>1. Secures(Planned) = 0 /\ Secures(Initialized) = 0
        /\ \A u : Covers(Planned, u) = 0 /\ Covers(Initialized, u) = 0
    BY <1>4, NothingPlanned, PlansAgree
  <2>2. \A u : Shares(Initialized, u) \in Int
    BY NothingPlanned, SharesAreInteger DEF ShortOptions
  <2> QED
    BY <1>1, <1>2, <1>3, <1>4, <2>1, <2>2 DEF Reflected
<1>6. TradeInv' /\ PositionInv'
  BY <1>1 DEF PlanInv, TradeInv, PositionInv, Recorded, Unfilled, ReservationsOf, Buys, Held,
              ShortOptions
<1>7. LimitInv'
  <2>1. LimitInv
    BY DEF PlanInv
  <2> QED
    BY <1>1, <1>2, <1>3, <1>4, <1>5, <2>1, NothingPlanned DEF LimitInv
<1> QED
  BY <1>6, <1>7 DEF PlanInv

LEMMA DecidePlans ==
  ASSUME SerialTrading, ExactReservations, LoopInv, PlanInv, NEW o \in Order, Decide(o)
  PROVE  PlanInv'
<1> DEFINE k == Len(trades) + 1
           s == Reservation(k, o)
           i == o.instrument
           v == head.replay
<1>1. /\ trades \in Seq(Trades) /\ working' = working /\ head' = head /\ head # NoSnapshot
      /\ trades' = Append(trades, [order |-> o, status |-> "submitted", booked |-> FALSE])
  BY DEF Decide, LoopInv
<1>2. /\ DOMAIN trades' = DOMAIN trades \cup {k} /\ k \notin DOMAIN trades
      /\ trades'[k] = [order |-> o, status |-> "submitted", booked |-> FALSE]
      /\ \A l \in DOMAIN trades : trades'[l] = trades[l]
  BY <1>1
<1> HIDE DEF k
<1>3. Outstanding = {}
  <2>1. Cardinality(Outstanding) < MaxOutstanding /\ MaxOutstanding <= 1
    BY DEF Decide, SerialTrading
  <2>2. IsFiniteSet(Outstanding) /\ MaxOutstanding \in Nat
    BY PlannedFields, LoopAssumption
  <2>3. Cardinality(Outstanding) \in Nat
    BY <2>2, FS_CardinalityType
  <2>4. Cardinality(Outstanding) = 0
    BY <2>1, <2>2, <2>3
  <2> QED
    BY <2>2, <2>4, FS_EmptySet
<1>4. /\ Unfilled' = Unfilled \cup {k} /\ Recorded' = Recorded /\ k \in Outstanding'
      /\ Unfilled \subseteq DOMAIN trades /\ Recorded \subseteq DOMAIN trades
  BY <1>2 DEF Unfilled, Recorded, Outstanding
<1>5. /\ ReservationsOf(Unfilled)' = ReservationsOf(Unfilled) \cup {s}
      /\ ReservationsOf(Recorded)' = ReservationsOf(Recorded)
  <2>1. ReservationsOf(Unfilled)' = {Reservation(l, trades'[l].order) : l \in Unfilled \cup {k}}
    BY <1>4 DEF ReservationsOf
  <2>2. ReservationsOf(Recorded)' = {Reservation(l, trades'[l].order) : l \in Recorded}
    BY <1>4 DEF ReservationsOf
  <2>3. trades'[k].order = o /\ \A l \in Unfilled \cup Recorded : trades'[l].order = trades[l].order
    BY <1>2, <1>4
  <2>4. {Reservation(l, trades'[l].order) : l \in Recorded} = ReservationsOf(Recorded)
    BY <2>3 DEF ReservationsOf
  <2>5. {Reservation(l, trades'[l].order) : l \in Unfilled \cup {k}} = ReservationsOf(Unfilled) \cup {s}
    <3>1. {Reservation(l, trades'[l].order) : l \in Unfilled} = ReservationsOf(Unfilled)
      BY <2>3 DEF ReservationsOf
    <3>2. {Reservation(l, trades'[l].order) : l \in Unfilled \cup {k}} =
             {Reservation(l, trades'[l].order) : l \in Unfilled} \cup {Reservation(k, trades'[k].order)}
      OBVIOUS
    <3> QED
      BY <2>3, <3>1, <3>2
  <2> QED
    BY <2>1, <2>2, <2>4, <2>5
<1>6. /\ Planned'.quantity = working.quantity
      /\ Planned.quantity = working.quantity
      /\ Planned'.pending = Planned.pending \cup {s}
      /\ Planned.pending = ReservationsOf(Unfilled)
      /\ Sound(Planned.pending)
  BY <1>1, <1>5, PlannedFields DEF Planned, LoopInv, Books
<1>7. s \notin Planned.pending
  <2>1. \A l, p : Reservation(l, p).id = l
    BY DEF Reservation
  <2> QED
    BY <1>2, <1>4, <1>6, <2>1 DEF ReservationsOf
<1>8. Sound(Planned'.pending)
  <2>1. s.collateral \in Nat /\ s.covered \in Nat
    BY OrderReserves
  <2> HIDE DEF s
  <2> QED
    BY <1>6, <2>1, FS_AddElement DEF Sound
<1>9. ShortOptions(working) /\ ShortOptions(Planned) /\ ShortOptions(v) /\ Sound(v.pending)
  BY <1>1, <1>6 DEF PlanInv, PositionInv, LimitInv, ShortOptions
<1>10. /\ Secures(Planned') = Secures(Planned) + Dollars(o)
       /\ \A u : Covers(Planned', u) = Covers(Planned, u) + CoverOf(o, u) /\ CoverOf(o, u) \in Nat
  <2> HIDE DEF v
  <2> QED
    BY <1>6, <1>7, <1>8, <1>9, SubmissionAdds
<1>11. /\ Secures(Planned) \in Nat /\ Dollars(o) \in Nat
       /\ \A u : Covers(Planned, u) \in Nat
       /\ PutCollateral(v) \in Nat /\ Reserved(v) \in Nat
       /\ \A u : /\ ObligedCalls(v, u) \in Nat /\ PendingCover(v, u) \in Nat
                 /\ Shares(v, u) \in Int /\ Shares(working, u) \in Int
  <2>1. v.quantity \in [Instrument -> Int] /\ working.quantity \in [Instrument -> Int]
    BY <1>9 DEF ShortOptions
  <2> HIDE DEF v
  <2> QED
    BY <1>6, <1>9, <2>1, PlansAreNatural, ObligationsAreNatural, ReservesAreNatural,
       SharesAreInteger, OrderReserves
<1>12. Reflected
  BY <1>1, <1>3 DEF PlanInv, LimitInv
<1>13. /\ i \in Instrument /\ Approves(o, head, Rate) /\ Proposed(o)
       /\ o.side \in {"buy", "sell"} /\ o.intent \in {"open", "close"} /\ ~o.exitEntireHolding
       /\ o.quantity \in Nat
  BY LoopAssumption DEF IsOrder, Decide, SerialTrading
<1>14. IsOption(o) => (o.side = "buy" <=> o.intent = "close")
  BY <1>13 DEF Approves, Proposed, SerialTrading
<1>15. TradeInv'
  <2>1. working'.pending = ReservationsOf(Recorded)'
    BY <1>1, <1>5 DEF PlanInv, TradeInv
  <2>2. ASSUME NEW l \in DOMAIN trades'
        PROVE  /\ trades'[l].status = "submitted" => ~trades'[l].booked
               /\ IsOption(trades'[l].order) =>
                      (trades'[l].order.side = "buy" <=> trades'[l].order.intent = "close")
    BY <1>2, <1>14 DEF PlanInv, TradeInv
  <2>3. o.side = "buy" /\ IsOption(o) =>
            Unfilled = {} /\ o.quantity <= -working.quantity[i]
    BY <1>14 DEF Decide, Proposed, SerialTrading, Settled
  <2>4. ASSUME NEW l \in Unfilled', Buys(l)'
        PROVE  trades'[l].order.quantity <= -working'.quantity[trades'[l].order.instrument]
    <3>1. CASE l = k
      BY <1>1, <1>2, <2>3, <2>4, <3>1 DEF Buys
    <3>2. CASE l \in Unfilled
      <4>1. trades'[l] = trades[l]
        BY <1>2, <1>4, <3>2
      <4>2. Buys(l)
        BY <2>4, <4>1 DEF Buys
      <4> QED
        BY <1>1, <3>2, <4>1, <4>2 DEF PlanInv, TradeInv
    <3> QED
      BY <1>4, <3>1, <3>2
  <2>5. ASSUME NEW l \in Unfilled', NEW m \in Unfilled', Buys(l)', Buys(m)'
        PROVE  l = m
    <3>1. CASE Unfilled = {}
      BY <1>4, <3>1
    <3>2. CASE Unfilled # {}
      <4>1. l # k /\ m # k
        BY <1>2, <2>3, <2>5, <3>2 DEF Buys
      <4>2. l \in Unfilled /\ m \in Unfilled /\ trades'[l] = trades[l] /\ trades'[m] = trades[m]
        BY <1>2, <1>4, <4>1
      <4>3. Buys(l) /\ Buys(m)
        BY <2>5, <4>2 DEF Buys
      <4> QED
        BY <4>2, <4>3 DEF PlanInv, TradeInv
    <3> QED
      BY <3>1, <3>2
  <2> QED
    BY <2>1, <2>2, <2>4, <2>5 DEF TradeInv
<1>16. PositionInv'
  BY <1>1 DEF PlanInv, PositionInv, Held, ShortOptions
<1>17. Nav(working) \in Nat /\ head.nav = Nav(working) /\ Nav(working) > 0
  BY <1>1, NavOfBook DEF PlanInv, LimitInv, LoopInv
<1>18. 100 * Secures(Planned') <= 40 * Nav(working) * Rate
  <2>1. CASE Opens(o, "put")
    <3> DEFINE p == PutCollateral(v)
               w == Reserved(v)
               d == Dollars(o)
               x == Secures(Planned)
               n == Nav(working)
               m == terms[i].multiplier
               c == terms[i].strike
               q == o.quantity
    <3>1. WithinCspCapacity(o, head, Rate)
      BY <1>13, <2>1 DEF Approves, OpeningShortSecured, Opens, IsOption
    <3>2. m \in Nat /\ c \in Nat /\ q \in Nat
      BY <1>13, LedgerAssumption
    <3>3. (c * m * q) = (m * q) * c
      <4> HIDE DEF m, c, q
      <4> QED
        BY <3>2
    <3>4. d = (m * q) * c
      BY <2>1 DEF Dollars, Size
    <3>5. Secured(o, Rate) = d * Rate
      BY <2>1, <3>3, <3>4 DEF Secured, InPounds, Opens
    <3>6. ExistingCollateral(head, Rate) = p * Rate + w
      BY DEF ExistingCollateral, InPounds
    <3>7. 100 * ((p * Rate + w) + d * Rate) <= CspLimit(head) * n
      BY <1>17, <3>1, <3>5, <3>6 DEF WithinCspCapacity
    <3>8. CspLimit(head) \in {25, 40}
      BY DEF CspLimit, DrawdownCspLimit, CspCollateralLimit
    <3>9. x <= p + w * Rate
      BY <1>12 DEF Reflected, Secures
    <3>10. /\ p \in Nat /\ w \in Nat /\ d \in Nat /\ x \in Nat /\ n \in Nat
           /\ Rate \in Nat \ {0} /\ Secures(Planned') = x + d
      BY <1>10, <1>11, <1>17, LoopAssumption
    <3> HIDE DEF p, w, d, x, n, m, c, q, v
    <3>11. 100 * (x + d) <= 40 * n * Rate
      BY <3>7, <3>8, <3>9, <3>10, EngineLimitIsLedgers
    <3> QED
      BY <3>10, <3>11 DEF n
  <2>2. CASE ~Opens(o, "put")
    <3>1. Secures(Planned') = Secures(Planned)
      BY <1>10, <1>11, <2>2 DEF Dollars
    <3> QED
      BY <3>1 DEF PlanInv, LimitInv, CspCollateralLimit
  <2> QED
    BY <2>1, <2>2
<1>19. ASSUME NEW j \in Instrument
       PROVE  Covers(Planned', terms[j].underlying) <= CoverLimit(working, terms[j].underlying)
  <2> DEFINE u == terms[j].underlying
  <2>1. CASE Opens(o, "call") /\ terms[i].underlying = u
    <3>1. WithinCover(o, head)
      BY <1>13, <2>1 DEF Approves, OpeningShortSecured, Opens, IsOption
    <3>2. CoveredShares(head, u) = ObligedCalls(v, u)
      BY DEF CoveredShares, ObligedCalls
    <3>3. CoverOf(o, u) = o.quantity * terms[i].multiplier
      <4>1. terms[i].multiplier \in Nat /\ o.quantity \in Nat
        BY <1>13, LedgerAssumption
      <4>2. \A x, y \in Nat : x * y = y * x
        OBVIOUS
      <4> QED
        BY <2>1, <4>1, <4>2 DEF CoverOf, Size
    <3>4. ObligedCalls(v, u) + PendingCover(v, u) + CoverOf(o, u) <= CoverLimit(v, u)
      BY <1>13, <2>1, <3>1, <3>2, <3>3 DEF WithinCover, CoverLimit
    <3>5. Covers(Planned, u) <= ObligedCalls(v, u) + PendingCover(v, u)
          /\ Shares(v, u) <= Shares(working, u)
      BY <1>12 DEF Reflected, Covers
    <3>6. CoverLimit(v, u) <= CoverLimit(working, u)
      BY <1>11, <3>5, CoverLimitGrows DEF CoverLimit
    <3>7. CoverLimit(v, u) \in Int /\ CoverLimit(working, u) \in Int
      BY <1>11 DEF CoverLimit, CoveredCallFraction
    <3> HIDE DEF u, v
    <3> QED
      BY <1>10, <1>11, <3>4, <3>5, <3>6, <3>7 DEF u
  <2>2. CASE ~(Opens(o, "call") /\ terms[i].underlying = u)
    <3>1. CoverOf(o, u) = 0
      BY <2>2 DEF CoverOf
    <3>2. Covers(Planned', u) = Covers(Planned, u)
      BY <1>10, <1>11, <3>1
    <3> QED
      BY <3>2 DEF PlanInv, LimitInv
  <2> QED
    BY <2>1, <2>2
<1>20. LimitInv'
  BY <1>1, <1>4, <1>9, <1>17, <1>18, <1>19 DEF LimitInv, CspCollateralLimit
<1> QED
  BY <1>15, <1>16, <1>20 DEF PlanInv
(* A trade that advances keeps its order, and with it its reservation. *)
LEMMA StatusAdvances ==
  ASSUME LoopInv, NEW k \in DOMAIN trades, NEW v \in Status,
         trades' = [trades EXCEPT ![k].status = v]
  PROVE  /\ DOMAIN trades' = DOMAIN trades /\ trades'[k].status = v
         /\ \A l \in DOMAIN trades : trades'[l].order = trades[l].order
                                     /\ trades'[l].booked = trades[l].booked
         /\ \A l \in DOMAIN trades \ {k} : trades'[l] = trades[l]
         /\ Outstanding' = Outstanding
         /\ ReservationsOf(Unfilled)' = ReservationsOf(Unfilled')
         /\ ReservationsOf(Recorded)' = ReservationsOf(Recorded')
<1>1. trades[k] \in Trades
  BY TradesAreOfOrders
<1>2. /\ [trades[k] EXCEPT !.status = v].status = v
      /\ [trades[k] EXCEPT !.status = v].order = trades[k].order
      /\ [trades[k] EXCEPT !.status = v].booked = trades[k].booked
  BY <1>1 DEF Trades
<1>3. DOMAIN trades' = DOMAIN trades /\ trades'[k] = [trades[k] EXCEPT !.status = v]
      /\ \A l \in DOMAIN trades \ {k} : trades'[l] = trades[l]
  OBVIOUS
<1>4. /\ trades'[k].status = v
      /\ \A l \in DOMAIN trades : trades'[l].order = trades[l].order
                                  /\ trades'[l].booked = trades[l].booked
  BY <1>2, <1>3
<1>5. Outstanding' = Outstanding
  BY <1>3, <1>4 DEF Outstanding
<1>6. Unfilled' \subseteq DOMAIN trades /\ Recorded' \subseteq DOMAIN trades
  BY <1>3 DEF Unfilled, Recorded
<1>7. /\ ReservationsOf(Unfilled)' = ReservationsOf(Unfilled')
      /\ ReservationsOf(Recorded)' = ReservationsOf(Recorded')
  <2>1. ASSUME NEW numbers \in SUBSET DOMAIN trades
        PROVE  {Reservation(l, trades'[l].order) : l \in numbers} = ReservationsOf(numbers)
    BY <1>4 DEF ReservationsOf
  <2>2. /\ ReservationsOf(Unfilled)' = {Reservation(l, trades'[l].order) : l \in Unfilled'}
        /\ ReservationsOf(Recorded)' = {Reservation(l, trades'[l].order) : l \in Recorded'}
    BY DEF ReservationsOf
  <2> QED
    BY <1>6, <2>1, <2>2
<1> QED
  BY <1>3, <1>4, <1>5, <1>7

LEMMA ReservePlans ==
  ASSUME ExactReservations, LoopInv, PlanInv, NEW k \in DOMAIN trades, Reserve(k)
  PROVE  PlanInv'
<1> DEFINE s == Reservation(k, trades[k].order)
<1>1. /\ trades[k].status = "submitted" /\ head' = head
      /\ working' = WithPending(working, s)
      /\ trades' = [trades EXCEPT ![k].status = "pending"]
  BY DEF Reserve
<1>2. /\ DOMAIN trades' = DOMAIN trades /\ trades'[k].status = "pending"
      /\ \A l \in DOMAIN trades : trades'[l].order = trades[l].order
                                  /\ trades'[l].booked = trades[l].booked
      /\ \A l \in DOMAIN trades \ {k} : trades'[l] = trades[l]
      /\ Outstanding' = Outstanding
      /\ ReservationsOf(Unfilled)' = ReservationsOf(Unfilled')
      /\ ReservationsOf(Recorded)' = ReservationsOf(Recorded')
  BY <1>1, StatusAdvances DEF Status
<1>3. Unfilled' = Unfilled /\ Recorded' = Recorded \cup {k} /\ k \in Outstanding /\ k \in Unfilled
  BY <1>1, <1>2 DEF Unfilled, Recorded, Outstanding, PlanInv, TradeInv
<1>4. /\ working'.cash = working.cash /\ working'.quantity = working.quantity
      /\ working'.mark = working.mark /\ working'.pending = working.pending \cup {s}
  BY <1>1 DEF WithPending, LoopInv, Books
<1>5. ReservationsOf(Recorded') = working.pending \cup {s}
  BY <1>3 DEF PlanInv, TradeInv, ReservationsOf
<1>6. TradeInv'
  <2>1. working'.pending = ReservationsOf(Recorded)'
    BY <1>2, <1>4, <1>5
  <2>2. \A l \in DOMAIN trades' :
          /\ trades'[l].status = "submitted" => ~trades'[l].booked
          /\ IsOption(trades'[l].order) =>
                 (trades'[l].order.side = "buy" <=> trades'[l].order.intent = "close")
    BY <1>1, <1>2 DEF PlanInv, TradeInv
  <2>3. \A l \in Unfilled : Buys(l)' => Buys(l)
    BY <1>2 DEF Buys, Unfilled
  <2>4. \A l \in Unfilled : trades'[l].order = trades[l].order
    BY <1>2 DEF Unfilled
  <2> QED
    BY <1>3, <1>4, <2>1, <2>2, <2>3, <2>4 DEF PlanInv, TradeInv
<1>7. PositionInv'
  BY <1>4 DEF PlanInv, PositionInv, Held, ShortOptions
<1>8. Planned'.quantity = Planned.quantity /\ Planned'.pending = Planned.pending
  <2>1. Planned'.quantity = working'.quantity /\ Planned'.pending = ReservationsOf(Unfilled)'
    BY <1>1 DEF Planned, WithPending, LoopInv, Books
  <2> QED
    BY <1>2, <1>3, <1>4, <2>1, PlannedFields
<1>9. /\ Secures(Planned') = Secures(Planned)
      /\ \A u : Covers(Planned', u) = Covers(Planned, u)
      /\ \A u : CoverLimit(working', u) = CoverLimit(working, u)
  BY <1>4, <1>8, PlansAgree, TotalsAgree DEF CoverLimit
<1>10. Nav(working') = Nav(working)
  BY <1>4 DEF Nav, MarkOf
<1>11. head # NoSnapshot
  BY DEF PlanInv, LimitInv
<1>12. LimitInv'
  BY <1>1, <1>2, <1>3, <1>9, <1>10, <1>11 DEF PlanInv, LimitInv
<1> QED
  BY <1>6, <1>7, <1>12 DEF PlanInv

(* The records of a fill, together *)
LEMMA FilledFields ==
  ASSUME LoopInv, NEW k \in DOMAIN trades
  PROVE  LET o == trades[k].order
             i == o.instrument
         IN  /\ Filled(k).cash = working.cash + (-Signed(o) * terms[i].multiplier * PriceOf(i))
             /\ Filled(k).quantity = [working.quantity EXCEPT ![i] = @ + Signed(o)]
             /\ Filled(k).mark = [working.mark EXCEPT ![i] = PriceOf(i)]
             /\ Filled(k).pending = working.pending \ {Reservation(k, o)}
             /\ PriceOf(i) \in Nat /\ Signed(o) \in Int /\ i \in Instrument
<1> DEFINE o == trades[k].order
           i == o.instrument
           price == PriceOf(i)
           cost == -Signed(o) * terms[i].multiplier * price
           paid == WithCash(working, cost)
           moved == WithPosition(paid, i, Signed(o))
           marked == WithMark(moved, i, price)
           s == Reservation(k, o)
<1>1. i \in Instrument /\ Signed(o) \in Int
  BY TradesAreOfOrders DEF Signed
<1>2. price \in Nat
  BY <1>1, LoopAssumption, LedgerAssumption DEF PriceOf, LoopInv, Books, Unmarked
<1>3. working \in Books
  BY DEF LoopInv
<1> HIDE DEF cost, price, s, o
<1>4. /\ paid.cash = working.cash + cost /\ paid.quantity = working.quantity
      /\ paid.mark = working.mark /\ paid.pending = working.pending
      /\ DOMAIN paid = DOMAIN working
  BY <1>3 DEF WithCash, Books
<1>d. DOMAIN working = {"cash", "peak", "quantity", "mark", "pending", "fx", "valuedAt", "length"}
  BY <1>3 DEF Books
<1> HIDE DEF paid
<1>5. /\ moved.cash = paid.cash /\ moved.quantity = [paid.quantity EXCEPT ![i] = @ + Signed(o)]
      /\ moved.mark = paid.mark /\ moved.pending = paid.pending
      /\ DOMAIN moved = DOMAIN paid
  BY <1>4, <1>d DEF WithPosition
<1> HIDE DEF moved
<1>6. /\ marked.cash = moved.cash /\ marked.quantity = moved.quantity
      /\ marked.mark = [moved.mark EXCEPT ![i] = price] /\ marked.pending = moved.pending
      /\ DOMAIN marked = DOMAIN moved
  BY <1>4, <1>5, <1>d DEF WithMark
<1> HIDE DEF marked
<1>7. /\ WithResolved(marked, s).cash = marked.cash
      /\ WithResolved(marked, s).quantity = marked.quantity
      /\ WithResolved(marked, s).mark = marked.mark
      /\ WithResolved(marked, s).pending = marked.pending \ {s}
  BY <1>4, <1>5, <1>6, <1>d DEF WithResolved
<1>8. Filled(k) = WithResolved(marked, s)
  BY DEF Filled, marked, moved, paid, cost, price, s, o
<1>9. /\ Filled(k).cash = working.cash + cost
      /\ Filled(k).quantity = [working.quantity EXCEPT ![i] = @ + Signed(o)]
      /\ Filled(k).mark = [working.mark EXCEPT ![i] = price]
      /\ Filled(k).pending = working.pending \ {s}
  BY <1>4, <1>5, <1>6, <1>7, <1>8
<1> QED
  BY <1>1, <1>2, <1>9 DEF cost, price, s, o

LEMMA FillPlans ==
  ASSUME SerialTrading, ExactReservations, LoopInv, PlanInv, NEW k \in DOMAIN trades, Fill(k)
  PROVE  PlanInv'
<1> DEFINE o == trades[k].order
           i == o.instrument
           s == Reservation(k, o)
           price == PriceOf(i)
           d == Signed(o)
<1>1. /\ k \in Unfilled /\ head' = head /\ working' = Filled(k)
      /\ trades' = [trades EXCEPT ![k].status = "filled"]
  BY DEF Fill
<1>2. /\ DOMAIN trades' = DOMAIN trades /\ trades'[k].status = "filled"
      /\ \A l \in DOMAIN trades : trades'[l].order = trades[l].order
                                  /\ trades'[l].booked = trades[l].booked
      /\ \A l \in DOMAIN trades \ {k} : trades'[l] = trades[l]
      /\ Outstanding' = Outstanding
      /\ ReservationsOf(Unfilled)' = ReservationsOf(Unfilled')
      /\ ReservationsOf(Recorded)' = ReservationsOf(Recorded')
  BY <1>1, StatusAdvances DEF Status
<1>3. Unfilled' = Unfilled \ {k} /\ Recorded' = Recorded \ {k}
  BY <1>1, <1>2 DEF Unfilled, Recorded
<1>4. /\ o \in Order /\ i \in Instrument /\ o.quantity \in Nat /\ o.side \in {"buy", "sell"}
      /\ IsOption(o) => (o.side = "buy" <=> o.intent = "close")
  BY TradesAreOfOrders, LoopAssumption DEF IsOrder, PlanInv, TradeInv
<1>5. /\ working'.cash = working.cash + (-d * terms[i].multiplier * price)
      /\ working'.quantity = [working.quantity EXCEPT ![i] = @ + d]
      /\ working'.mark = [working.mark EXCEPT ![i] = price]
      /\ working'.pending = working.pending \ {s}
      /\ price \in Nat /\ d \in Int
  BY <1>1, FilledFields
<1>6. ShortOptions(working) /\ working \in Books
  BY DEF PlanInv, PositionInv, LoopInv
<1>7. /\ d = IF o.side = "buy" THEN o.quantity ELSE -o.quantity
      /\ IsOption(o) /\ o.side = "buy" => o.quantity <= -working.quantity[i]
      /\ ~IsOption(o) => o.side = "buy"
      /\ IsOption(o) <=> terms[i].type # "share"
  BY <1>1, <1>4 DEF Signed, Buys, PlanInv, TradeInv, SerialTrading, IsOption
<1>8. working.quantity[i] \in Int
  BY <1>4, <1>6 DEF ShortOptions
<1> HIDE DEF o, i, s, price, d
<1>9. ShortOptions(working')
  <2>1. working'.quantity \in [Instrument -> Int]
    <3>1. working.quantity[i] + d \in Int
      BY <1>5, <1>8
    <3> QED
      BY <1>5, <1>6, <3>1 DEF ShortOptions
  <2>2. terms[i].type # "share" => working'.quantity[i] <= 0
    <3>1. terms[i].type # "share" => working.quantity[i] <= 0
      BY <1>4, <1>6 DEF ShortOptions
    <3>2. working'.quantity[i] = working.quantity[i] + d
      BY <1>4, <1>5, <1>6 DEF ShortOptions
    <3> QED
      BY <1>4, <1>7, <1>8, <3>1, <3>2
  <2>3. \A j \in Instrument \ {i} : working'.quantity[j] = working.quantity[j]
    BY <1>5, <1>6 DEF ShortOptions
  <2> QED
    BY <1>6, <2>1, <2>2, <2>3 DEF ShortOptions
<1>10. PositionInv'
  <2>1. working.mark \in [Instrument -> Nat \cup {Unmarked}] /\ price # Unmarked
    BY <1>5, <1>6 DEF Books, Unmarked
  <2>2. ASSUME NEW j \in Held(working') PROVE working'.mark[j] # Unmarked
    <3>1. CASE j = i
      BY <1>4, <1>5, <2>1, <3>1
    <3>2. CASE j # i
      <4>1. j \in Held(working) /\ working'.mark[j] = working.mark[j]
        BY <1>5, <1>6, <2>1, <3>2 DEF Held, ShortOptions
      <4> QED
        BY <4>1 DEF PlanInv, PositionInv
    <3> QED
      BY <3>1, <3>2
  <2> QED
    BY <1>9, <2>2 DEF PositionInv
<1>11. TradeInv'
  <2>1. working'.pending = ReservationsOf(Recorded)'
    <3>1. CASE k \in Recorded
      <4>1. ReservationsOf(Recorded \ {k}) = ReservationsOf(Recorded) \ {s}
        BY <3>1, ReservationsWithout DEF s, o
      <4> QED
        BY <1>2, <1>3, <1>5, <4>1 DEF PlanInv, TradeInv
    <3>2. CASE k \notin Recorded
      <4>1. s \notin ReservationsOf(Recorded)
        <5>1. \A l, p : Reservation(l, p).id = l
          BY DEF Reservation
        <5> QED
          BY <3>2, <5>1 DEF ReservationsOf, s
      <4>2. Recorded \ {k} = Recorded
        BY <3>2
      <4> QED
        BY <1>2, <1>3, <1>5, <4>1, <4>2 DEF PlanInv, TradeInv
    <3> QED
      BY <3>1, <3>2
  <2>2. \A l \in DOMAIN trades' :
          /\ trades'[l].status = "submitted" => ~trades'[l].booked
          /\ IsOption(trades'[l].order) =>
                 (trades'[l].order.side = "buy" <=> trades'[l].order.intent = "close")
    BY <1>1, <1>2 DEF PlanInv, TradeInv
  <2>3. \A l \in Unfilled' : (Buys(l)' => Buys(l)) /\ l \in Unfilled /\ l # k
                             /\ trades'[l].order = trades[l].order
    BY <1>2, <1>3 DEF Buys, Unfilled
  <2>4. ASSUME NEW l \in Unfilled', Buys(l)'
        PROVE  trades'[l].order.quantity <= -working'.quantity[trades'[l].order.instrument]
    <3> DEFINE j == trades[l].order.instrument
    <3>1. Buys(l) /\ l \in Unfilled /\ trades'[l].order = trades[l].order
      BY <2>3, <2>4
    <3>2. trades[l].order.quantity <= -working.quantity[j]
      BY <3>1 DEF PlanInv, TradeInv
    <3>3. l \in DOMAIN trades
      BY <3>1 DEF Unfilled
    <3>4. j \in Instrument /\ trades[l].order.quantity \in Nat /\ working.quantity[j] \in Int
      BY <1>6, <3>3, TradesAreOfOrders DEF ShortOptions
    <3>5. CASE j # i
      <4>1. working'.quantity[j] = working.quantity[j]
        BY <1>5, <1>6, <3>4, <3>5 DEF ShortOptions
      <4> QED
        BY <3>1, <3>2, <4>1
    <3>6. CASE j = i
      <4>1. IsOption(o)
        BY <1>7, <3>1, <3>6 DEF Buys, IsOption
      <4>2. o.side # "buy"
        <5> SUFFICES ASSUME o.side = "buy" PROVE FALSE
          OBVIOUS
        <5>1. Buys(k)
          BY <4>1 DEF Buys, o
        <5> QED
          BY <1>1, <2>3, <3>1, <5>1 DEF PlanInv, TradeInv
      <4>3. d = -o.quantity
        BY <1>7, <4>2
      <4>4. working'.quantity[i] = working.quantity[i] + d
        BY <1>4, <1>5, <1>6 DEF ShortOptions
      <4>5. trades[l].order.quantity <= -(working.quantity[i] + d)
        <5> DEFINE x == trades[l].order.quantity
                   y == working.quantity[i]
                   z == o.quantity
        <5>1. x \in Nat /\ y \in Int /\ z \in Nat /\ x <= -y
          BY <1>4, <1>8, <3>2, <3>4, <3>6
        <5> HIDE DEF x, y, z
        <5>2. x <= -(y + -z)
          BY <5>1
        <5> QED
          BY <4>3, <5>2 DEF x, y, z
      <4> QED
        BY <3>1, <3>6, <4>4, <4>5
    <3> QED
      BY <3>5, <3>6
  <2>5. ASSUME NEW l \in Unfilled', NEW m \in Unfilled', Buys(l)', Buys(m)'
        PROVE  l = m
    BY <2>3, <2>5 DEF PlanInv, TradeInv
  <2> QED
    BY <2>1, <2>2, <2>4, <2>5 DEF TradeInv
<1>12. Nav(working') = Nav(working)
  <2>1. /\ working.cash \in Int /\ working.quantity \in [Instrument -> Int]
        /\ working.mark \in [Instrument -> Nat \cup {Unmarked}]
    BY <1>6 DEF Books
  <2>2. /\ working.mark[i] = Unmarked => working.quantity[i] = 0
        /\ working.mark[i] # Unmarked => price = working.mark[i]
    BY <1>4 DEF PlanInv, PositionInv, Held, price, PriceOf
  <2>3. working'.cash = working.cash + Paid(i, d, price)
    BY <1>5 DEF Paid
  <2>4. /\ i \in Instrument /\ d \in Int /\ price \in Nat
        /\ working'.quantity = [working.quantity EXCEPT ![i] = @ + d]
        /\ working'.mark = [working.mark EXCEPT ![i] = price]
    BY <1>4, <1>5
  <2>5. TradedAtMark(working, working', i, d, price)
    BY <2>1, <2>2, <2>3, <2>4 DEF TradedAtMark
  <2> QED
    BY <2>5, NavAtMark
<1>13. /\ Planned'.quantity = working'.quantity /\ Planned.quantity = working.quantity
       /\ Planned'.pending = Planned.pending \ {s} /\ s \in Planned.pending
       /\ Sound(Planned.pending)
  <2>1. working' \in Books
    BY <1>1, FilledIsBook
  <2>2. Planned'.quantity = working'.quantity /\ Planned'.pending = ReservationsOf(Unfilled)'
    BY <2>1 DEF Planned, Books
  <2>3. ReservationsOf(Unfilled \ {k}) = ReservationsOf(Unfilled) \ {s}
        /\ s \in ReservationsOf(Unfilled)
    BY <1>1, ReservationsWithout DEF s, o, ReservationsOf
  <2> QED
    BY <1>2, <1>3, <2>2, <2>3, PlannedFields
<1>14. /\ Secures(Planned') <= Secures(Planned)
       /\ \A u : Covers(Planned', u) <= Covers(Planned, u) /\ Shares(working, u) <= Shares(working', u)
  <2>1. ShortOptions(Planned) /\ ShortOptions(Planned')
    BY <1>6, <1>9, <1>13 DEF ShortOptions
  <2>2. Planned'.quantity = [Planned.quantity EXCEPT ![o.instrument] = @ + Signed(o)]
    BY <1>5, <1>13 DEF i, d
  <2>3. /\ Reservation(k, o) \in Planned.pending
        /\ Planned'.pending = Planned.pending \ {Reservation(k, o)}
    BY <1>13 DEF s
  <2>4. /\ Secures(Planned') <= Secures(Planned)
        /\ \A u : Covers(Planned', u) <= Covers(Planned, u) /\ Shares(Planned, u) <= Shares(Planned', u)
    BY <1>4, <1>13, <2>1, <2>2, <2>3, FillKeepsPlan
  <2>5. \A u : Shares(Planned, u) = Shares(working, u) /\ Shares(Planned', u) = Shares(working', u)
    BY <1>13, TotalsAgree
  <2> QED
    BY <2>4, <2>5
<1>15. /\ Secures(Planned) \in Nat /\ Secures(Planned') \in Nat
       /\ \A u : /\ Covers(Planned, u) \in Nat /\ Covers(Planned', u) \in Nat
                 /\ Shares(working, u) \in Int /\ Shares(working', u) \in Int
  <2>1. ShortOptions(Planned) /\ ShortOptions(Planned')
    BY <1>6, <1>9, <1>13 DEF ShortOptions
  <2>2. Sound(Planned'.pending)
    BY <1>13, FS_Subset DEF Sound
  <2>3. working.quantity \in [Instrument -> Int] /\ working'.quantity \in [Instrument -> Int]
    BY <1>6, <1>9 DEF ShortOptions
  <2> QED
    BY <1>13, <2>1, <2>2, <2>3, PlansAreNatural, SharesAreInteger
<1>16. head # NoSnapshot
  BY <1>1 DEF PlanInv, LimitInv, Unfilled
<1>17. LimitInv
  BY DEF PlanInv
<1>18. ASSUME NEW j \in Instrument
       PROVE  Covers(Planned', terms[j].underlying) <= CoverLimit(working', terms[j].underlying)
  <2> DEFINE u == terms[j].underlying
  <2>1. Covers(Planned', u) <= Covers(Planned, u) /\ Covers(Planned, u) <= CoverLimit(working, u)
    BY <1>14, <1>17 DEF LimitInv
  <2>2. CoverLimit(working, u) <= CoverLimit(working', u)
    BY <1>14, <1>15, CoverLimitGrows DEF CoverLimit
  <2>3. CoverLimit(working, u) \in Int /\ CoverLimit(working', u) \in Int
    BY <1>15 DEF CoverLimit, CoveredCallFraction
  <2> HIDE DEF u
  <2> QED
    BY <1>15, <2>1, <2>2, <2>3 DEF u
<1>19. 100 * Secures(Planned') <= CspCollateralLimit * Nav(working') * Rate
  <2> DEFINE x == Secures(Planned)
             y == Secures(Planned')
             f == CspCollateralLimit * Nav(working) * Rate
  <2>1. x \in Nat /\ y \in Nat /\ y <= x /\ 100 * x <= f
    BY <1>14, <1>15, <1>17 DEF LimitInv
  <2>2. f \in Int
    <3> DEFINE n == Nav(working)
    <3>1. n \in Int /\ Rate \in Int
      BY <1>6, NavOfBook, LoopAssumption
    <3> HIDE DEF n
    <3>2. 40 * n * Rate \in Int
      BY <3>1
    <3> QED
      BY <3>2 DEF n, CspCollateralLimit
  <2>3. f = CspCollateralLimit * Nav(working') * Rate
    BY <1>12
  <2> HIDE DEF x, y, f
  <2>4. 100 * y <= f
    BY <2>1, <2>2
  <2> QED
    BY <2>3, <2>4 DEF y
<1>20. Outstanding' = {} => Reflected'
  <2> SUFFICES ASSUME Outstanding' = {} PROVE Reflected'
    OBVIOUS
  <2>1. Reflected /\ ShortOptions(head.replay) /\ Sound(head.replay.pending)
    BY <1>2, <1>16, <1>17 DEF LimitInv
  <2>2. /\ Secures(head.replay) \in Nat
        /\ \A u : Covers(head.replay, u) \in Nat /\ Shares(head.replay, u) \in Int
    BY <2>1, PlansAreNatural, SharesAreInteger DEF ShortOptions
  <2>3. Secures(Planned') <= Secures(head.replay)
    BY <1>14, <1>15, <2>1, <2>2 DEF Reflected
  <2>4. ASSUME NEW j \in Instrument
        PROVE  /\ Covers(Planned', terms[j].underlying) <= Covers(head.replay, terms[j].underlying)
               /\ Shares(head.replay, terms[j].underlying) <= Shares(working', terms[j].underlying)
    BY <1>14, <1>15, <2>1, <2>2 DEF Reflected
  <2> QED
    BY <1>1, <2>3, <2>4 DEF Reflected
<1>21. LimitInv'
  BY <1>1, <1>12, <1>16, <1>17, <1>18, <1>19, <1>20 DEF LimitInv
<1> QED
  BY <1>10, <1>11, <1>21 DEF PlanInv

(* A snapshot of the book keeps what is planned; once it reflects all, the *)
(* plan is what it holds.                                                  *)
LEMMA SettlePlans ==
  ASSUME ExactReservations, LoopInv, LoopInv', PlanInv, Settle
  PROVE  PlanInv'
<1>1. /\ head # NoSnapshot /\ working' = Valued(working)
      /\ head' = Snapshot(Valued(working))
      /\ trades' = [k \in DOMAIN trades |->
                       [trades[k] EXCEPT !.booked = (@ \/ trades[k].status # "submitted")]]
  BY DEF Settle, Continue, Attest
<1>2. working \in Books
  BY DEF LoopInv
<1>3. /\ working'.quantity = working.quantity /\ working'.mark = working.mark
      /\ working'.pending = working.pending /\ Nav(working') = Nav(working)
      /\ head'.replay = working' /\ head'.nav = Nav(working')
  BY <1>1, <1>2, ValuedFields, ValuedIsBook DEF Snapshot
<1>4. /\ DOMAIN trades' = DOMAIN trades
      /\ \A k \in DOMAIN trades :
            /\ trades'[k].order = trades[k].order /\ trades'[k].status = trades[k].status
            /\ trades'[k].booked <=> trades[k].booked \/ trades[k].status # "submitted"
  <2>1. ASSUME NEW k \in DOMAIN trades
        PROVE  /\ trades'[k].order = trades[k].order /\ trades'[k].status = trades[k].status
               /\ trades'[k].booked <=> trades[k].booked \/ trades[k].status # "submitted"
    <3>1. trades[k] \in Trades
      BY TradesAreOfOrders
    <3>2. trades'[k] =
             [trades[k] EXCEPT !.booked = (@ \/ trades[k].status # "submitted")]
      BY <1>1
    <3> QED
      BY <3>1, <3>2 DEF Trades
  <2>2. DOMAIN trades' = DOMAIN trades
    BY <1>1
  <2> QED
    BY <2>1, <2>2
<1>5. Unfilled' = Unfilled /\ Recorded' = Recorded
  BY <1>4 DEF Unfilled, Recorded
<1>6. /\ ReservationsOf(Unfilled)' = ReservationsOf(Unfilled)
      /\ ReservationsOf(Recorded)' = ReservationsOf(Recorded)
  <2>1. Unfilled \subseteq DOMAIN trades /\ Recorded \subseteq DOMAIN trades
    BY DEF Unfilled, Recorded
  <2>2. ASSUME NEW numbers \in SUBSET DOMAIN trades
        PROVE  {Reservation(k, trades'[k].order) : k \in numbers} = ReservationsOf(numbers)
    BY <1>4 DEF ReservationsOf
  <2>3. /\ ReservationsOf(Unfilled)' = {Reservation(k, trades'[k].order) : k \in Unfilled'}
        /\ ReservationsOf(Recorded)' = {Reservation(k, trades'[k].order) : k \in Recorded'}
    BY DEF ReservationsOf
  <2> QED
    BY <1>5, <2>1, <2>2, <2>3
<1>7. TradeInv'
  <2>1. TradeInv
    BY DEF PlanInv
  <2>2. \A k \in Unfilled : /\ trades'[k].order = trades[k].order
                            /\ Buys(k)' <=> Buys(k)
    BY <1>4 DEF Buys, Unfilled
  <2>3. \A k \in DOMAIN trades' :
          /\ trades'[k].status = "submitted" => ~trades'[k].booked
          /\ IsOption(trades'[k].order) =>
                 (trades'[k].order.side = "buy" <=> trades'[k].order.intent = "close")
    BY <1>4, <2>1 DEF TradeInv
  <2> QED
    BY <1>3, <1>5, <1>6, <2>1, <2>2, <2>3 DEF TradeInv
<1>8. PositionInv'
  BY <1>3 DEF PlanInv, PositionInv, Held, ShortOptions
<1>9. /\ Planned'.quantity = Planned.quantity /\ Planned'.pending = Planned.pending
      /\ Planned'.quantity = working'.quantity /\ Planned'.pending = ReservationsOf(Unfilled)'
  <2>1. Planned'.quantity = working'.quantity /\ Planned'.pending = ReservationsOf(Unfilled)'
    BY DEF Planned, LoopInv, Books
  <2> QED
    BY <1>3, <1>6, <2>1, PlannedFields
<1>10. /\ Secures(Planned') = Secures(Planned)
       /\ \A u : Covers(Planned', u) = Covers(Planned, u)
       /\ \A u : CoverLimit(working', u) = CoverLimit(working, u)
  BY <1>3, <1>9, PlansAgree, TotalsAgree DEF CoverLimit
<1>11. ShortOptions(working') /\ Sound(Planned.pending)
  BY <1>8, PlannedFields DEF PositionInv
<1>12. Sound(head'.replay.pending)
  <2>1. head'.replay.pending \subseteq Planned.pending
    BY <1>3, SubmissionsAreUnfilled, PlannedFields DEF PlanInv
  <2> QED
    BY <1>11, <2>1, FS_Subset DEF Sound
<1>13. Outstanding' = {} => Reflected'
  <2> SUFFICES ASSUME Outstanding' = {} PROVE Reflected'
    OBVIOUS
  <2>1. working'.pending = ReservationsOf(Unfilled)'
    <3>1. \A k \in DOMAIN trades : trades[k].status \in Status
      BY TradesAreOfOrders DEF Trades
    <3>2. \A k \in DOMAIN trades : trades[k].status # "submitted"
      BY <1>4, <1>7 DEF TradeInv, Outstanding
    <3>3. Unfilled = Recorded
      BY <3>1, <3>2 DEF Unfilled, Recorded, Status
    <3> QED
      BY <1>5, <1>6, <1>7, <3>3 DEF TradeInv
  <2>2. /\ Secures(Planned') = Secures(head'.replay)
        /\ \A u : Covers(Planned', u) = Covers(head'.replay, u)
    BY <1>3, <1>9, <2>1, PlansAgree
  <2>3. /\ Secures(Planned') \in Nat /\ \A u : Covers(Planned', u) \in Nat
        /\ \A u : Shares(working', u) \in Int
    <3>1. ShortOptions(Planned') /\ Sound(Planned'.pending)
      BY <1>9, <1>11 DEF ShortOptions
    <3> QED
      BY <1>11, <3>1, PlansAreNatural, SharesAreInteger DEF ShortOptions
  <2> QED
    BY <1>3, <2>2, <2>3 DEF Reflected
<1>14. LimitInv
  BY DEF PlanInv
<1>15. head' # NoSnapshot => ShortOptions(head'.replay)
  BY <1>3, <1>11
<1>16. head' # NoSnapshot
  BY <1>1, SnapshotOfBook DEF LoopInv
<1>17. LimitInv'
  BY <1>3, <1>10, <1>11, <1>12, <1>13, <1>14, <1>15, <1>16 DEF LimitInv
<1> QED
  BY <1>7, <1>8, <1>17 DEF PlanInv

(* The ledger's limit, which has no rate in a fund without short puts *)
LEMMA LimitAtRate ==
  ASSUME NEW p \in Nat, NEW v \in Nat, NEW n \in Int, NEW rate \in Nat \ {0}, NEW mid,
         mid = rate \/ (p = 0 /\ mid = 1),
         100 * (p + v * mid) <= 40 * n * mid
  PROVE  100 * (p + v * rate) <= 40 * n * rate
<1>1. CASE mid = rate
  BY <1>1
<1>2. CASE p = 0 /\ mid = 1
  <2>1. 100 * v <= 40 * n
    BY <1>2
  <2> DEFINE y == 100 * v
             z == 40 * n
  <2>2. y \in Int /\ z \in Int /\ y <= z
    BY <2>1
  <2>3. 100 * (v * rate) = (100 * v) * rate
    OBVIOUS
  <2>4. y * rate <= z * rate
    <3> HIDE DEF y, z
    <3> QED
      BY <2>2
  <2>5. 100 * (0 + v * rate) = 100 * (v * rate)
    <3> DEFINE w == v * rate
    <3>1. w \in Nat
      OBVIOUS
    <3> HIDE DEF w
    <3>2. 100 * (0 + w) = 100 * w
      BY <3>1
    <3> QED
      BY <3>2 DEF w
  <2> QED
    BY <1>2, <2>3, <2>4, <2>5
<1> QED
  BY <1>1, <1>2

(* Between trades, what the ledger accepts is within every limit, provided *)
(* that the obligations of calls stay and the shares do not become fewer.  *)
LEMMA ContinuePlans ==
  ASSUME ExactReservations, LoopInv, LoopInv', PlanInv, NEW r \in Books, Continue(r),
         trades' = trades, Outstanding = {}, r.pending = working.pending, ShortOptions(r),
         \A k \in Unfilled :
             Buys(k) => trades[k].order.quantity <= -r.quantity[trades[k].order.instrument],
         \A i \in Instrument :
             LET u == terms[i].underlying IN
             ObligedCalls(r, u) = ObligedCalls(working, u) /\ Shares(working, u) <= Shares(r, u)
  PROVE  PlanInv'
<1> DEFINE v == Valued(r)
<1>1. working' = v /\ head' = Snapshot(v) /\ Acceptable(v)
  BY DEF Continue, Attest
<1>2. /\ v.quantity = r.quantity /\ v.pending = r.pending /\ v.mark = r.mark
      /\ v.fx.mid = Rate /\ Nav(v) = Nav(r) /\ v \in Books
  BY ValuedFields, ValuedIsBook
<1> HIDE DEF v
<1>3. head'.replay = working' /\ head'.nav = Nav(working') /\ head' # NoSnapshot
  BY <1>1, <1>2, SnapshotOfBook DEF Snapshot
<1>4. Unfilled' = Unfilled /\ Recorded' = Recorded /\ Outstanding' = {}
      /\ ReservationsOf(Unfilled)' = ReservationsOf(Unfilled)
      /\ ReservationsOf(Recorded)' = ReservationsOf(Recorded)
  BY DEF Unfilled, Recorded, Outstanding, ReservationsOf
<1>5. working'.pending = ReservationsOf(Unfilled) /\ working.pending = ReservationsOf(Unfilled)
  BY <1>1, <1>2, SubmissionsAreUnfilled DEF PlanInv
<1>6. TradeInv'
  BY <1>1, <1>2, <1>4 DEF PlanInv, TradeInv, Buys
<1>7. ShortOptions(working')
  BY <1>1, <1>2 DEF ShortOptions
<1>8. PositionInv'
  BY <1>1, <1>7 DEF PositionInv, Acceptable
<1>9. /\ Planned'.quantity = working'.quantity /\ Planned'.pending = working'.pending
      /\ Planned.quantity = working.quantity /\ Planned.pending = working.pending
  BY <1>4, <1>5, PlannedFields DEF Planned, LoopInv, Books
<1>10. Sound(working'.pending)
  BY <1>5, PlannedFields
<1>11. /\ Secures(Planned') = Secures(working')
       /\ \A u : Covers(Planned', u) = Covers(working', u) /\ Covers(Planned, u) = Covers(working, u)
  BY <1>9, PlansAgree
<1>12. /\ Secures(working') \in Nat
       /\ \A u : Covers(working', u) \in Nat /\ Shares(working', u) \in Int
  BY <1>7, <1>10, PlansAreNatural, SharesAreInteger DEF ShortOptions
<1>13. Reflected'
  BY <1>3, <1>11, <1>12 DEF Reflected
<1>14. ASSUME NEW i \in Instrument
       PROVE  Covers(Planned', terms[i].underlying) <= CoverLimit(working', terms[i].underlying)
  <2> DEFINE u == terms[i].underlying
  <2>1. Covers(working', u) = Covers(working, u)
    <3>1. /\ ObligedCalls(working', u) = ObligedCalls(working, u)
          /\ PendingCover(working', u) = PendingCover(working, u)
      BY <1>1, <1>2, <1>5, TotalsAgree, ReservesAgree
    <3> QED
      BY <3>1 DEF Covers
  <2>2. Covers(working, u) <= CoverLimit(working, u)
    BY <1>11 DEF PlanInv, LimitInv
  <2>3. Shares(working', u) = Shares(r, u) /\ Shares(working, u) \in Int
    <3>1. working'.quantity = r.quantity /\ working.quantity \in [Instrument -> Int]
      BY <1>1, <1>2 DEF LoopInv, Books
    <3>2. Shares(working', u) = Shares(r, u)
      BY <3>1, TotalsAgree
    <3> QED
      BY <3>1, <3>2, SharesAreInteger
  <2>4. CoverLimit(working, u) <= CoverLimit(working', u)
    BY <1>12, <2>3, CoverLimitGrows DEF CoverLimit
  <2>5. CoverLimit(working, u) \in Int /\ CoverLimit(working', u) \in Int
    BY <1>12, <2>3 DEF CoverLimit, CoveredCallFraction
  <2>6. Covers(Planned', u) = Covers(working', u) /\ Covers(working', u) \in Nat
    BY <1>11, <1>12
  <2> HIDE DEF u
  <2> QED
    BY <2>1, <2>2, <2>4, <2>5, <2>6 DEF u
<1>15. 100 * Secures(Planned') <= CspCollateralLimit * Nav(working') * Rate
  <2> DEFINE mid == IF Short(v, "put") = {} THEN 1 ELSE v.fx.mid
             p == PutCollateral(v)
             w == Reserved(v)
             n == Nav(v)
  <2>1. p \in Nat /\ w \in Nat /\ n \in Int /\ Rate \in Nat \ {0}
    BY <1>1, <1>2, <1>7, <1>10, ObligationsAreNatural, ReservesAreNatural, NavOfBook,
       LoopAssumption
  <2>2. mid = Rate \/ (p = 0 /\ mid = 1)
    BY <1>2, NoPutsNoCollateral
  <2>3. 100 * (p + w * mid) <= 40 * n * mid
    BY <1>1 DEF Acceptable, WithinCspLimit, CspCollateralLimit
  <2>4. 100 * (p + w * Rate) <= 40 * n * Rate
    <3> HIDE DEF mid, p, w, n
    <3> QED
      BY <2>1, <2>2, <2>3, LimitAtRate
  <2> QED
    BY <1>1, <1>11, <2>4 DEF Secures, CspCollateralLimit
<1>16. Nav(working') > 0
  BY <1>1 DEF Acceptable
<1>17. LimitInv'
  BY <1>3, <1>7, <1>10, <1>13, <1>14, <1>15, <1>16 DEF LimitInv
<1> QED
  BY <1>6, <1>8, <1>17 DEF PlanInv

LEMMA MovePlans ==
  ASSUME ExactReservations, LoopInv, LoopInv', PlanInv, NEW i \in Instrument,
         NEW mark \in Mark, Move(i, mark)
  PROVE  PlanInv'
<1> DEFINE r == WithMark(working, i, mark)
<1>1. Outstanding = {} /\ Continue(r) /\ trades' = trades
  BY DEF Move, Settled
<1>2. r \in Books /\ r.quantity = working.quantity /\ r.pending = working.pending
  BY LedgerAssumption DEF LoopInv, Books, WithMark
<1> HIDE DEF r
<1>3. ShortOptions(r)
  BY <1>2 DEF PlanInv, PositionInv, ShortOptions
<1>4. \A u : ObligedCalls(r, u) = ObligedCalls(working, u) /\ Shares(working, u) = Shares(r, u)
  BY <1>2, TotalsAgree
<1>5. \A u : Shares(working, u) \in Int
  BY SharesAreInteger DEF LoopInv, Books
<1>6. \A k \in Unfilled :
         Buys(k) => trades[k].order.quantity <= -r.quantity[trades[k].order.instrument]
  BY <1>2 DEF PlanInv, TradeInv
<1> QED
  BY <1>1, <1>2, <1>3, <1>4, <1>5, <1>6, ContinuePlans

LEMMA InvestPlans ==
  ASSUME SerialTrading, ExactReservations, LoopInv, LoopInv', PlanInv, NEW i \in Instrument,
         NEW number \in Purchase, Invest(i, number)
  PROVE  PlanInv'
<1> DEFINE cost == number * terms[i].multiplier * PriceOf(i)
           price == PriceOf(i)
           paid == WithCash(working, -cost)
           moved == WithPosition(paid, i, number)
           r == WithMark(moved, i, price)
<1>1. /\ Outstanding = {} /\ Unfilled = {} /\ terms[i].type = "share"
      /\ Continue(r) /\ trades' = trades
  BY DEF Invest, Settled
<1>2. number \in Nat /\ terms[i].multiplier \in Int /\ price \in Nat /\ working \in Books
  <2>1. working \in Books /\ number \in Nat
    BY DEF LoopInv, SerialTrading
  <2>2. price \in Nat
    BY <2>1, LoopAssumption DEF PriceOf, Books, Unmarked
  <2> QED
    BY <2>1, <2>2, TermsAreNatural
<1>3. cost \in Int
  <2> DEFINE m == terms[i].multiplier
  <2>1. m \in Int
    BY <1>2
  <2> HIDE DEF m, price
  <2>2. number * m * price \in Int
    BY <1>2, <2>1
  <2> QED
    BY <2>2 DEF m, price
<1> HIDE DEF cost, price
<1>4. paid \in Books /\ paid.quantity = working.quantity /\ paid.pending = working.pending
  <2>1. working.cash + -cost \in Int
    BY <1>2, <1>3 DEF Books
  <2> QED
    BY <1>2, <2>1 DEF Books, WithCash
<1> HIDE DEF paid
<1>5. /\ moved \in Books /\ moved.quantity = [working.quantity EXCEPT ![i] = @ + number]
      /\ moved.pending = working.pending
  BY <1>2, <1>4 DEF Books, WithPosition
<1> HIDE DEF moved
<1>6. /\ r \in Books /\ r.quantity = [working.quantity EXCEPT ![i] = @ + number]
      /\ r.pending = working.pending
  BY <1>2, <1>5 DEF Books, WithMark
<1> HIDE DEF r
<1>7. ShortOptions(working) /\ ShortOptions(r)
  BY <1>1, <1>2, <1>6 DEF PlanInv, PositionInv, ShortOptions
<1>8. ASSUME NEW u
      PROVE  ObligedCalls(r, u) = ObligedCalls(working, u) /\ Shares(working, u) <= Shares(r, u)
  <2>1. number \in Int /\ i \notin Calls(u)
    BY <1>1, <1>2 DEF Calls
  <2>2. ObligedCalls(r, u) = ObligedCalls(working, u) - 0
    BY <1>6, <1>7, <2>1, CallsChange
  <2>3. ObligedCalls(working, u) \in Nat
    BY <1>7, ObligationsAreNatural
  <2>4. Shares(r, u) = Shares(working, u) + (IF i \in ShareOf(u) THEN number ELSE 0)
    <3>1. working.quantity \in [Instrument -> Int]
      BY <1>7 DEF ShortOptions
    <3>2. r.quantity = [working.quantity EXCEPT ![i] = @ + number]
      BY <1>6
    <3> QED
      BY <2>1, <3>1, <3>2, SharesChange
  <2>5. Shares(working, u) \in Int
    BY <1>7, SharesAreInteger DEF ShortOptions
  <2> QED
    BY <1>2, <2>2, <2>3, <2>4, <2>5
<1> QED
  BY <1>1, <1>6, <1>7, <1>8, ContinuePlans
-----------------------------------------------------------------------------
LEMMA LoopNextPlans ==
  ASSUME SerialTrading, ExactReservations
  PROVE  LoopInv /\ LoopInv' /\ PlanInv /\ [LoopNext]_loopVars => PlanInv'
<1> SUFFICES ASSUME LoopInv, LoopInv', PlanInv, [LoopNext]_loopVars PROVE PlanInv'
  OBVIOUS
<1>1. CASE Open
  BY <1>1, OpenPlans
<1>2. ASSUME NEW o \in Order, Decide(o) PROVE PlanInv'
  BY <1>2, DecidePlans
<1>3. ASSUME NEW k \in DOMAIN trades, Reserve(k) PROVE PlanInv'
  BY <1>3, ReservePlans
<1>4. ASSUME NEW k \in DOMAIN trades, Fill(k) PROVE PlanInv'
  BY <1>4, FillPlans
<1>5. CASE Settle
  BY <1>5, SettlePlans
<1>6. ASSUME NEW i \in Instrument, NEW mark \in Mark, Move(i, mark) PROVE PlanInv'
  BY <1>6, MovePlans
<1>7. ASSUME NEW i \in Instrument, NEW number \in Purchase, Invest(i, number) PROVE PlanInv'
  BY <1>7, InvestPlans
<1>8. CASE UNCHANGED loopVars
  <2>1. /\ working' = working /\ head' = head /\ trades' = trades
    BY <1>8 DEF loopVars
  <2> QED
    BY <2>1 DEF PlanInv, TradeInv, PositionInv, LimitInv, Planned, Recorded, Unfilled,
       ReservationsOf, Buys, Held, ShortOptions, Outstanding, Reflected
<1> QED
  BY <1>1, <1>2, <1>3, <1>4, <1>5, <1>6, <1>7, <1>8 DEF LoopNext

LEMMA PlanInvCorrect ==
  ASSUME SerialTrading, ExactReservations
  PROVE  LoopSpec => [](LoopInv /\ PlanInv)
<1>1. LoopInit => LoopInv /\ PlanInv
  BY LoopInitEstablishes, LoopInitPlans
<1>2. LoopInv /\ PlanInv /\ [LoopNext]_loopVars => (LoopInv /\ PlanInv)'
  BY LoopNextKeeps, LoopNextPlans
<1> QED
  BY <1>1, <1>2, PTL DEF LoopSpec

(* Of the plan, the book has only what is recorded or filled. *)
LEMMA BookWithinPlan ==
  ASSUME ExactReservations, LoopInv, PlanInv
  PROVE  /\ ShortOptions(working) /\ Sound(working.pending)
         /\ PutCollateral(working) \in Nat /\ Reserved(working) \in Nat
         /\ PutCollateral(working) + Reserved(working) * Rate <= Secures(Planned)
         /\ Secures(Planned) \in Nat
         /\ \A u : /\ ObligedCalls(working, u) \in Nat /\ PendingCover(working, u) \in Nat
                   /\ Covers(working, u) <= Covers(Planned, u) /\ Covers(Planned, u) \in Nat
                   /\ Shares(working, u) \in Int
<1>1. ShortOptions(working)
  BY DEF PlanInv, PositionInv
<1>2. /\ working.pending \subseteq Planned.pending /\ Sound(Planned.pending)
      /\ Planned.quantity = working.quantity
  BY SubmissionsAreUnfilled, PlannedFields DEF PlanInv
<1>3. /\ Sound(working.pending) /\ Reserved(working) <= Reserved(Planned)
      /\ \A u : PendingCover(working, u) <= PendingCover(Planned, u)
  BY <1>2, ReservesOfPart
<1>4. /\ PutCollateral(working) = PutCollateral(Planned)
      /\ \A u : ObligedCalls(working, u) = ObligedCalls(Planned, u)
  BY <1>2, TotalsAgree
<1>5. /\ PutCollateral(working) \in Nat /\ Reserved(working) \in Nat /\ Reserved(Planned) \in Nat
      /\ \A u : /\ ObligedCalls(working, u) \in Nat /\ PendingCover(working, u) \in Nat
                /\ PendingCover(Planned, u) \in Nat
  BY <1>1, <1>2, <1>3, ObligationsAreNatural, ReservesAreNatural
<1>6. \A u : Covers(working, u) <= Covers(Planned, u) /\ Covers(Planned, u) \in Nat
  BY <1>3, <1>4, <1>5 DEF Covers
<1>7. /\ PutCollateral(working) + Reserved(working) * Rate <= Secures(Planned)
      /\ Secures(Planned) \in Nat
  <2> DEFINE p == PutCollateral(working)
             x == Reserved(working)
             y == Reserved(Planned)
  <2>1. p \in Nat /\ x \in Nat /\ y \in Nat /\ x <= y /\ Rate \in Nat
    BY <1>3, <1>5, LoopAssumption
  <2>2. Secures(Planned) = p + y * Rate
    BY <1>4 DEF Secures
  <2> HIDE DEF p, x, y
  <2>3. x * Rate <= y * Rate /\ x * Rate \in Nat /\ y * Rate \in Nat
    BY <2>1
  <2>4. p + x * Rate <= p + y * Rate /\ p + y * Rate \in Nat
    BY <2>1, <2>3
  <2> QED
    BY <2>2, <2>4 DEF p, x
<1>8. \A u : Shares(working, u) \in Int
  BY <1>1, SharesAreInteger DEF ShortOptions
<1> QED
  BY <1>1, <1>3, <1>5, <1>6, <1>7, <1>8

(* No short call is naked, on its own or with the others. *)
LEMMA CallsWithinShares ==
  ASSUME ExactReservations, LoopInv, PlanInv, NEW i \in Instrument
  PROVE  /\ 100 * ObligedCalls(working, terms[i].underlying)
                <= CoveredCallFraction * Shares(working, terms[i].underlying)
         /\ ObligedCalls(working, terms[i].underlying) <= Shares(working, terms[i].underlying)
<1> DEFINE u == terms[i].underlying
           x == ObligedCalls(working, u)
           y == PendingCover(working, u)
           n == Shares(working, u)
           c == Covers(Planned, u)
<1>1. /\ x \in Nat /\ y \in Nat /\ n \in Int /\ c \in Nat /\ Covers(working, u) <= c
  BY BookWithinPlan
<1>2. x + y <= c
  BY <1>1 DEF Covers
<1>3. c <= (n * 50) \div 100
  BY DEF PlanInv, LimitInv, CoverLimit, CoveredCallFraction
<1> HIDE DEF u, x, y, n, c
<1>4. 100 * x <= 50 * n /\ x <= n
  BY <1>1, <1>2, <1>3
<1> QED
  BY <1>4 DEF u, x, n, CoveredCallFraction

(* "Covered calls are limited to 50% of shares": over all calls on the     *)
(* same shares, submitted, filled or attested, the approvals of risk.py    *)
(* never add up to more than the limit, for any instruments, orders, marks *)
(* and number of trades.  Single calls are bounded by the ledger; that the *)
(* sum is takes the engine's reading of a snapshot that reflects every     *)
(* earlier submission.                                                     *)
THEOREM CoverStays ==
  ASSUME SerialTrading, ExactReservations
  PROVE  LoopSpec => []CoverWithinFraction
<1>1. LoopInv /\ PlanInv => CoverWithinFraction
  BY CallsWithinShares DEF CoverWithinFraction
<1> QED
  BY <1>1, PlanInvCorrect, PTL

LEMMA LimitWithoutRate ==
  ASSUME NEW p \in Nat, NEW x \in Nat, NEW n \in Int, NEW rate \in Nat \ {0}, NEW mid,
         mid = rate \/ (p = 0 /\ mid = 1),
         100 * (p + x * rate) <= 40 * n * rate
  PROVE  100 * (p + x * mid) <= 40 * n * mid
<1>1. CASE mid = rate
  BY <1>1
<1>2. CASE p = 0 /\ mid = 1
  <2> DEFINE y == 100 * x
             z == 40 * n
  <2>1. y \in Int /\ z \in Int
    OBVIOUS
  <2>2. 100 * (0 + x * rate) = y * rate
    <3> DEFINE w == x * rate
    <3>1. w \in Nat /\ y * rate = 100 * w
      OBVIOUS
    <3> HIDE DEF w, y
    <3>2. 100 * (0 + w) = y * rate
      BY <3>1
    <3> QED
      BY <3>2 DEF w
  <2>3. y * rate <= z * rate
    BY <1>2, <2>2
  <2>4. y <= z
    <3> HIDE DEF y, z
    <3> QED
      BY <2>1, <2>3
  <2> QED
    BY <1>2, <2>4
<1> QED
  BY <1>1, <1>2

(* Every part of the ledger's validation but that of the cash *)
LEMMA PlannedIsAcceptable ==
  ASSUME ExactReservations, LoopInv, PlanInv, working.cash >= 0,
         PutCollateral(working) <= working.cash * Rate
  PROVE  ApprovedImportable
<1> DEFINE v == Valued(working)
<1>1. working \in Books
  BY DEF LoopInv
<1>2. /\ v.cash = working.cash /\ v.quantity = working.quantity /\ v.mark = working.mark
      /\ v.pending = working.pending /\ v.fx = [mid |-> Rate, at |-> 0] /\ v.valuedAt = 0
      /\ Nav(v) = Nav(working) /\ Nav(working) \in Int
  BY <1>1, ValuedFields, ValuedIsBook, NavOfBook
<1> HIDE DEF v
<1>3. /\ Held(v) = Held(working)
      /\ \A type : Short(v, type) = Short(working, type)
      /\ \A i \in Instrument : Obliged(v, i) = Obliged(working, i)
      /\ PutCollateral(v) = PutCollateral(working) /\ Reserved(v) = Reserved(working)
      /\ \A u : Shares(v, u) = Shares(working, u) /\ PendingCover(v, u) = PendingCover(working, u)
  <2>1. v.quantity = working.quantity /\ v.pending = working.pending
    BY <1>2
  <2>2. /\ PutCollateral(v) = PutCollateral(working) /\ Reserved(v) = Reserved(working)
        /\ \A u : Shares(v, u) = Shares(working, u) /\ PendingCover(v, u) = PendingCover(working, u)
    BY <2>1, TotalsAgree, ReservesAgree
  <2>3. /\ Held(v) = Held(working)
        /\ \A type : Short(v, type) = Short(working, type)
        /\ \A i \in Instrument : Obliged(v, i) = Obliged(working, i)
    BY <2>1 DEF Held, Short, Obliged
  <2> QED
    BY <2>2, <2>3
<1>4. /\ \A i \in Held(v) : v.mark[i] # Unmarked
      /\ \A i \in Held(v) : terms[i].type # "share" => v.quantity[i] < 0
  BY <1>2, <1>3 DEF PlanInv, PositionInv, ShortOptions, Held
<1>5. PutsSecured(v)
  <2>1. v.fx.mid = Rate /\ v.fx.at = 0 /\ Rate # 0 /\ MaxQuoteAge \in Nat
    BY <1>2, LoopAssumption, LedgerAssumption
  <2>2. FxFresh(v)
    BY <1>2, <2>1 DEF FxFresh, NoFx, NotValued
  <2> QED
    BY <1>2, <1>3, <2>1, <2>2 DEF PutsSecured
<1>6. WithinCspLimit(v)
  <2> DEFINE mid == IF Short(v, "put") = {} THEN 1 ELSE v.fx.mid
             p == PutCollateral(v)
             x == Reserved(v)
             n == Nav(v)
             a == Secures(Planned)
  <2>1. p \in Nat /\ x \in Nat /\ n \in Int /\ Rate \in Nat \ {0} /\ a \in Nat
        /\ p + x * Rate <= a
    BY <1>2, <1>3, BookWithinPlan, LoopAssumption
  <2>2. mid = Rate \/ (p = 0 /\ mid = 1)
    BY <1>2, NoPutsNoCollateral
  <2>3. 100 * a <= 40 * n * Rate
    BY <1>2 DEF PlanInv, LimitInv, CspCollateralLimit
  <2>4. 100 * (p + x * mid) <= 40 * n * mid
    <3> HIDE DEF mid, p, x, n, a
    <3>1. x * Rate \in Nat
      BY <2>1
    <3>2. 40 * n * Rate \in Int
      BY <2>1
    <3>3. 100 * (p + x * Rate) <= 40 * n * Rate
      <4> DEFINE w == x * Rate
                 f == 40 * n * Rate
      <4>1. w \in Nat /\ f \in Int /\ p + w <= a /\ 100 * a <= f
        BY <2>1, <2>3, <3>1, <3>2
      <4> HIDE DEF w, f
      <4>2. 100 * (p + w) <= f
        BY <2>1, <4>1
      <4> QED
        BY <4>2 DEF w, f
    <3> QED
      BY <2>1, <2>2, <3>3, LimitWithoutRate
  <2> QED
    BY <2>4 DEF WithinCspLimit, CspCollateralLimit
<1>7. CallsCovered(v)
  <2> SUFFICES ASSUME NEW i \in Short(v, "call")
               PROVE  LET shares == Shares(v, terms[i].underlying) IN
                      /\ Obliged(v, i) <= shares
                      /\ Obliged(v, i) + PendingCover(v, terms[i].underlying)
                             <= (shares * CoveredCallFraction) \div 100
    BY DEF CallsCovered
  <2> DEFINE u == terms[i].underlying
             o == Obliged(v, i)
             x == ObligedCalls(working, u)
             y == PendingCover(v, u)
             n == Shares(v, u)
             c == Covers(Planned, u)
  <2>1. i \in Instrument /\ i \in Short(working, "call")
    BY <1>3 DEF Short
  <2>2. x \in Nat /\ y \in Nat /\ n \in Int /\ c \in Nat /\ x + y <= c
    BY <1>3, BookWithinPlan DEF Covers
  <2>3. o \in Nat /\ o <= x
    <3>1. ShortOptions(working) /\ working.quantity[i] <= 0
      BY <2>1, BookWithinPlan DEF Short, ShortOptions
    <3> QED
      BY <1>3, <2>1, <3>1, ObligationsAreNatural, ObligedIsInteger DEF ShortOptions
  <2>4. c <= (n * 50) \div 100
    BY <1>3, <2>1 DEF PlanInv, LimitInv, CoverLimit, CoveredCallFraction
  <2> HIDE DEF u, o, x, y, n, c
  <2>5. o <= n /\ o + y <= (n * 50) \div 100
    BY <2>2, <2>3, <2>4
  <2> QED
    BY <2>5 DEF u, o, y, n, CoveredCallFraction
<1>8. Nav(v) > 0
  BY <1>2 DEF PlanInv, LimitInv
<1> QED
  BY <1>4, <1>5, <1>6, <1>7, <1>8 DEF ApprovedImportable, Acceptable, v

(* Of all that portfolio-collect validates (workflow.py:244-274), only the *)
(* cash can be missing for what the engine approved (risk.py:54-106): as   *)
(* long as the cash itself secures the puts, every fund that approved      *)
(* trades lead to can be attested, for any market, terms and orders.       *)
THEOREM ApprovedTradesImport ==
  ASSUME SerialTrading, ExactReservations
  PROVE  LoopSpec => [](/\ working.cash >= 0
                        /\ PutCollateral(working) <= working.cash * Rate
                        => ApprovedImportable)
<1>1. LoopInv /\ PlanInv =>
         (/\ working.cash >= 0
          /\ PutCollateral(working) <= working.cash * Rate
          => ApprovedImportable)
  BY PlannedIsAcceptable
<1> QED
  BY <1>1, PlanInvCorrect, PTL

(* A fund that trades options and buys no shares *)
OptionsOnly == Purchase = {} /\ \A o \in Order : IsOption(o)

NoShares == \A i \in Instrument : terms[i].type = "share" => working.quantity[i] = 0

LEMMA OptionsOnlyKeeps ==
  ASSUME OptionsOnly
  PROVE  LoopInv /\ NoShares /\ [LoopNext]_loopVars => NoShares'
<1> SUFFICES ASSUME LoopInv, NoShares, [LoopNext]_loopVars PROVE NoShares'
  OBVIOUS
<1>0. working \in Books
  BY DEF LoopInv
<1>1. CASE working'.quantity = working.quantity
  BY <1>1 DEF NoShares
<1>2. ASSUME NEW k \in DOMAIN trades, Fill(k) PROVE NoShares'
  <2> DEFINE i == trades[k].order.instrument
             d == Signed(trades[k].order)
  <2>1. working'.quantity = [working.quantity EXCEPT ![i] = @ + d]
    BY <1>2, FilledFields DEF Fill
  <2>2. terms[i].type # "share"
    BY TradesAreOfOrders DEF OptionsOnly, IsOption
  <2> HIDE DEF i, d
  <2> QED
    BY <1>0, <2>1, <2>2 DEF NoShares, Books
<1>3. ASSUME NEW k \in DOMAIN trades, Reserve(k) PROVE NoShares'
  <2>1. working'.quantity = working.quantity
    BY <1>0, <1>3 DEF Reserve, WithPending, Books
  <2> QED
    BY <1>1, <2>1
<1>4. CASE Settle
  <2>1. working'.quantity = working.quantity
    BY <1>0, <1>4, ValuedFields DEF Settle, Continue
  <2> QED
    BY <1>1, <2>1
<1>5. ASSUME NEW i \in Instrument, NEW mark \in Mark, Move(i, mark) PROVE NoShares'
  <2> DEFINE r == WithMark(working, i, mark)
  <2>1. r \in Books /\ r.quantity = working.quantity
    BY <1>0, LedgerAssumption DEF Books, WithMark
  <2>2. working' = Valued(r)
    BY <1>5 DEF Move, Continue
  <2> HIDE DEF r
  <2>3. working'.quantity = working.quantity
    BY <2>1, <2>2, ValuedFields
  <2> QED
    BY <1>1, <2>3
<1>6. ~ \E i \in Instrument, number \in Purchase : Invest(i, number)
  BY DEF OptionsOnly
<1>7. CASE Open \/ (\E o \in Order : Decide(o)) \/ UNCHANGED loopVars
  <2>1. working' = working
    BY <1>7 DEF Open, Bootstrap, Decide, loopVars
  <2> QED
    BY <1>1, <2>1
<1> QED
  BY <1>2, <1>3, <1>4, <1>5, <1>6, <1>7 DEF LoopNext

(* Without shares the cash is no less than the worth, which secures all. *)
LEMMA CashSecures ==
  ASSUME ExactReservations, LoopInv, PlanInv, NoShares
  PROVE  working.cash >= 0 /\ PutCollateral(working) <= working.cash * Rate
<1> DEFINE g == [i \in Instrument |->
                    working.quantity[i] * terms[i].multiplier * MarkOf(working, i)]
           n == Nav(working)
           c == working.cash
           p == PutCollateral(working)
           x == Reserved(working)
           a == Secures(Planned)
<1>1. working \in Books /\ c \in Int /\ IsFiniteSet(Instrument) /\ Rate \in Nat \ {0}
  BY LedgerAssumption, LoopAssumption DEF LoopInv, Books
<1>2. g \in [Instrument -> {m \in Int : m <= 0}]
  <2> SUFFICES ASSUME NEW i \in Instrument
               PROVE  working.quantity[i] * terms[i].multiplier * MarkOf(working, i)
                          \in {m \in Int : m <= 0}
    OBVIOUS
  <2> DEFINE q == working.quantity[i]
             m == terms[i].multiplier
             v == MarkOf(working, i)
  <2>1. q \in Int /\ q <= 0
    BY <1>1, BookWithinPlan DEF NoShares, ShortOptions
  <2>2. m \in Int /\ m > 0 /\ v \in Nat
    BY <1>1, TermsAreNatural DEF MarkOf, Books, Unmarked
  <2> HIDE DEF q, m, v
  <2>3. q * m \in Int /\ q * m <= 0
    BY <2>1, <2>2
  <2>4. q * m * v \in Int /\ q * m * v <= 0
    BY <2>2, <2>3
  <2> QED
    BY <2>4 DEF q, m, v
<1>3. n = c + SumFunction(g)
  BY DEF Nav
<1>4. SumFunction(g) \in Int /\ SumFunction(g) <= 0
  <2> HIDE DEF g
  <2> QED
    BY <1>1, <1>2, TotalIsNotPositive
<1>5. n > 0 /\ 100 * a <= 40 * n * Rate
  BY DEF PlanInv, LimitInv, CspCollateralLimit
<1>6. p \in Nat /\ x \in Nat /\ a \in Nat /\ p + x * Rate <= a
  BY BookWithinPlan
<1> HIDE DEF g, n, c, p, x, a
<1>7. n \in Int /\ n <= c /\ c >= 0
  BY <1>1, <1>3, <1>4, <1>5
<1>8. x * Rate \in Nat /\ n * Rate \in Nat /\ c * Rate \in Nat /\ n * Rate <= c * Rate
      /\ 40 * n * Rate = 40 * (n * Rate)
  BY <1>1, <1>5, <1>6, <1>7
<1>9. p <= c * Rate
  <2> DEFINE w == x * Rate
             y == n * Rate
             z == c * Rate
  <2>1. w \in Nat /\ y \in Nat /\ z \in Nat /\ y <= z /\ p + w <= a /\ 100 * a <= 40 * y
    BY <1>5, <1>6, <1>8
  <2> HIDE DEF w, y, z
  <2>2. p <= z
    BY <1>6, <2>1
  <2> QED
    BY <2>2 DEF z
<1> QED
  BY <1>7, <1>9 DEF c, p

(* In a fund of options nothing can be missing: whatever the engine        *)
(* approved and the market did, the fund can be attested.                  *)
THEOREM OptionFundImports ==
  ASSUME SerialTrading, ExactReservations, OptionsOnly
  PROVE  LoopSpec => []ApprovedImportable
<1>1. LoopInit => NoShares
  BY DEF LoopInit, Init, Initialized, NoShares
<1>2. LoopInv /\ PlanInv /\ NoShares => ApprovedImportable
  BY CashSecures, PlannedIsAcceptable
<1> QED
  BY <1>1, <1>2, OptionsOnlyKeeps, PlanInvCorrect, PTL DEF LoopSpec

(* Nor is any short of such a fund naked: "New option shorts are accepted  *)
(* only as a cash-secured put or covered call" (README.md:12).  In a fund  *)
(* that also buys shares the puts may be, as the engine reserves no cash   *)
(* for those already sold.                                                 *)
THEOREM OptionFundSecured ==
  ASSUME SerialTrading, ExactReservations, OptionsOnly
  PROVE  LoopSpec => []NoNakedShort
<1>1. LoopInit => NoShares
  BY DEF LoopInit, Init, Initialized, NoShares
<1>2. LoopInv /\ PlanInv /\ NoShares => NoNakedShort
  <2> SUFFICES ASSUME LoopInv, PlanInv, NoShares PROVE NoNakedShort
    OBVIOUS
  <2>1. Short(working, "call") \subseteq Instrument
    BY DEF Short
  <2> QED
    BY <2>1, CashSecures, CallsWithinShares DEF NoNakedShort
<1> QED
  BY <1>1, <1>2, OptionsOnlyKeeps, PlanInvCorrect, PTL DEF LoopSpec
=============================================================================
